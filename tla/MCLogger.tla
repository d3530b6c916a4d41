------------------------------ MODULE MCLogger ------------------------------
(* Two threads, the root logger and one logger under it, an appender of    *)
(* each kind that either may list, two formatters besides null and two     *)
(* levels. The standard output's appender writes only the higher level.    *)
EXTENDS Logger

CONSTANTS t1, t2, root, system, stdout, file, f1, f2

MCThreads == {t1, t2}
MCLoggers == {root, system}
MCAppenders == {stdout, file}
MCFormatters == {f1, f2}
MCLevels == {1, 2}
MCLevel == root :> 1 @@ system :> 1 @@ stdout :> 2 @@ file :> 1

(* Which of them makes two of the calls is the same.                       *)
MCMaxCalls == t1 :> 2 @@ t2 :> 1
=============================================================================
