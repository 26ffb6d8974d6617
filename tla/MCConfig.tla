------------------------------ MODULE MCConfig ------------------------------
(* The config files of the runs, in minutes.                               *)
EXTENDS Config

Intervals == {-5, 0, 5, 720, 721, 1441}
Windows == {-1, 0, 9, 10, 1440, 2882}

text == [kind |-> "text", text |-> "plain"]
noText == [kind |-> "text", text |-> Empty]
bare == [kind |-> "bare", text |-> ""]
fallback == [kind |-> "fallback", text |-> "other"]

Sys(name, password, passwordFile) ==
  [name |-> name, complete |-> TRUE, password |-> password, passwordFile |-> passwordFile]

One == Sys("a", bare, "none")

File(interval, backup, job, uri, systems) ==
  [interval |-> interval, backupWindow |-> backup, jobWindow |-> job, uri |-> uri,
   systems |-> systems]

(* Every combination of durations, and with the default ones every pair of *)
(* a name, a password and a password file, alone and beside another one.   *)
Timings == {File(i, b, j, "", <<One>>) : i \in Intervals, b \in Windows, j \in Windows}

OneSystem ==
  {Sys(n, p, f) : n \in {"", "a", "b"}, p \in {text, noText, bare, fallback},
                  f \in {"none", "unreadable", "empty", "secret"}}
  \cup {[One EXCEPT !.complete = FALSE]}

SystemLists == {<<>>} \cup {<<s>> : s \in OneSystem} \cup {<<One, s>> : s \in OneSystem}

Files ==
  Timings
  \cup {File(5, 0, 0, "", ss) : ss \in SystemLists}
  \cup {File(5, 0, 0, u, <<One>>) : u \in {"/metrics", "/health", "/livez", "/readyz"}}

(* One that loads if the variable is set, one that never does. *)
Edits == {File(5, 0, 0, "", <<One>>), File(5, 0, 0, "", <<One, One>>)}
=============================================================================
