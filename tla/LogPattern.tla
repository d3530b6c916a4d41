----------------------------- MODULE LogPattern -----------------------------
(***************************************************************************)
(* LogFormatter (sylar/log.cc): what init makes of a pattern, a sequence   *)
(* of characters, and what format then writes for an event.                *)
(***************************************************************************)
EXTENDS Integers, Sequences

CONSTANTS
  Percent,   (* the character that begins a directive          *)
  Known,     (* the letters of s_format_items                  *)
  Unknown,   (* the other letters                              *)
  Others,    (* characters that are neither letter nor percent *)
  Error      (* what is written around an unknown letter       *)

Letters == Known \cup Unknown
Chars   == {Percent} \cup Letters \cup Others

(* isalpha tells the letters; a letter is looked up in s_format_items.     *)
ASSUME PatternAssumption ==
  /\ Known \cap Unknown = {}
  /\ Percent \notin Letters
  /\ Error \notin Chars

Literal(str) == [type |-> 0, str |-> str]
Directive(c) == [type |-> 1, str |-> <<c>>]

(* find_first_of; 0 is npos. *)
find(pattern) ==
  IF \E i \in DOMAIN pattern : pattern[i] = Percent
    THEN CHOOSE i \in DOMAIN pattern :
           pattern[i] = Percent /\ \A j \in 1..(i - 1) : pattern[j] # Percent
    ELSE 0

(* Faulty variant: what comes before the directive is lost. *)
beforeNone(pattern, pos) == <<>>
before(pattern, pos) == IF pos = 1 THEN <<>> ELSE <<Literal(SubSeq(pattern, 1, pos - 1))>>

(* One round of init's loop after another, on what is left of the pattern. *)
(* A percent sign before anything but a letter stands for itself, and the  *)
(* character after it is skipped.                                          *)
matchItem[pattern \in Seq(Chars)] ==
  LET pos == find(pattern) IN
  IF pattern = <<>> THEN <<>>
  ELSE IF pos \in {0, Len(pattern)} THEN <<Literal(pattern)>>
  ELSE (IF pattern[pos + 1] \in Letters
          THEN Append(before(pattern, pos), Directive(pattern[pos + 1]))
          ELSE <<Literal(SubSeq(pattern, 1, pos))>>)
       \o matchItem[SubSeq(pattern, pos + 2, Len(pattern))]

(* What the item writes, an event's field standing as its letter. *)
Written(item) ==
  IF item.type = 1 /\ item.str[1] \in Unknown THEN <<Error, item.str[1]>> ELSE item.str

(* items_, each as the text it writes. *)
items(pattern) ==
  LET match == matchItem[pattern]
  IN  [i \in DOMAIN match |-> Written(match[i])]

isError(pattern) ==
  LET match == matchItem[pattern]
  IN  \E i \in DOMAIN match : match[i].type = 1 /\ match[i].str[1] \in Unknown

-----------------------------------------------------------------------------
(* The meaning of a pattern, position by position, to compare with.        *)

(* What the first k of some texts say together.                            *)
Upto(texts) ==
  LET upto[k \in 0..Len(texts)] == IF k = 0 THEN <<>> ELSE upto[k - 1] \o texts[k] IN upto

Joined(texts) == Upto(texts)[Len(texts)]

(* A percent sign begins a pair, unless it is the last character or ends a *)
(* pair itself.                                                            *)
Begins(pattern) ==
  LET begins[k \in 0..Len(pattern)] ==
        /\ k > 0 /\ k < Len(pattern)
        /\ pattern[k] = Percent /\ ~begins[k - 1]
  IN  begins

(* A pair writes the field its letter names, or the percent sign; a        *)
(* character outside of pairs writes itself.                               *)
Means(pattern, k) ==
  IF Begins(pattern)[k - 1] THEN <<>>
  ELSE IF ~Begins(pattern)[k] \/ pattern[k + 1] \notin Letters THEN <<pattern[k]>>
  ELSE IF pattern[k + 1] \in Known THEN <<pattern[k + 1]>>
  ELSE <<Error, pattern[k + 1]>>

Meaning(pattern) == Joined([k \in 1..Len(pattern) |-> Means(pattern, k)])
=============================================================================
