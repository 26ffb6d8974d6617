------------------------------- MODULE Config -------------------------------
(***************************************************************************)
(* What configuration a process runs with and what a SIGHUP says of one:   *)
(* LoadDotEnv, Load with its expansion, defaults and validation            *)
(* (internal/config), and who calls them when (main.go: run at start-up,   *)
(* watchReload at each SIGHUP), while an operator edits the files.         *)
(*                                                                         *)
(* One environment variable stands for all that the file refers to, and    *)
(* references are in passwords.  The host and the user name, which are     *)
(* only required, are one field.                                           *)
(***************************************************************************)
EXTENDS Integers, Sequences

CONSTANTS
  Empty,                \* the empty text
  Unset,                \* the variable is not in an environment
  Value,                \* the values it may have; Empty is set, but empty
  DefaultInterval,      \* in the unit of the files
  DefaultBackupWindow,
  DefaultJobWindow,
  Written,              \* the config files there may be at first
  Rewritten             \* the config files an operator replaces one by

(* An entry's password is written out, as ${V} or as ${V:-text}.           *)
Reference == [kind : {"text", "bare", "fallback"}, text : STRING]

SystemEntry ==
  [name : STRING, complete : BOOLEAN, password : Reference,
   passwordFile : {"none", "unreadable", "empty", "secret"}]

ConfigFile ==
  [interval : Int, backupWindow : Int, jobWindow : Int, uri : STRING,
   systems : Seq(SystemEntry)]

ASSUME FilesAssumption == Written \cup Rewritten \subseteq ConfigFile

(* What a password file holds that is not empty. *)
fileSecret == "secret"

ASSUME TextAssumption ==
  /\ {Empty, fileSecret} \subseteq STRING
  /\ Value \subseteq STRING
  /\ Unset \notin STRING

ASSUME DefaultsAssumption ==
  /\ DefaultInterval \in Nat \ {0}
  /\ DefaultBackupWindow \in Nat /\ DefaultBackupWindow >= 2 * DefaultInterval
  /\ DefaultJobWindow \in Nat /\ DefaultJobWindow >= 2 * DefaultInterval

VARIABLES
  injected,  \* the variable in the environment the process is given
  cwdEnv,    \* in .env of the working directory
  dirEnv,    \* in .env beside the config file
  file,      \* the config file
  environ,   \* the variable in the process's environment
  running,   \* the configuration the process runs with, or Stopped
  verdict,   \* of the last SIGHUP: "none" (nothing asked since an edit),
             \* "valid", "invalid"
  atStart    \* history: the .env files when the process started

vars == <<injected, cwdEnv, dirEnv, file, environ, running, verdict, atStart>>

Stopped == [interval |-> 0]

-----------------------------------------------------------------------------
(* Loading *)

(* Mutant of LoadDotEnv: the file beside the config comes first. *)
LoadDotEnvDirFirst ==
  IF injected # Unset THEN injected ELSE IF dirEnv # Unset THEN dirEnv ELSE cwdEnv

(* The environment wins over the working directory's .env, and that over   *)
(* the one beside the config file; an empty value is one.                  *)
LoadDotEnv ==
  IF injected # Unset THEN injected ELSE IF cwdEnv # Unset THEN cwdEnv ELSE dirEnv

expandEnv(ref, v) ==
  CASE ref.kind = "text" -> ref.text
    [] ref.kind # "text" /\ v \notin {Unset, Empty} -> v
    [] ref.kind = "fallback" /\ v \in {Unset, Empty} -> ref.text
    [] ref.kind = "bare" /\ v \in {Unset, Empty} -> v

(* Mutant of missing: an unset variable expands to nothing. *)
missingNever(f, v) == FALSE

missing(f, v) ==
  v = Unset /\ \E i \in DOMAIN f.systems : f.systems[i].password.kind = "bare"

(* A password file replaces the password. *)
resolve(s, v) ==
  [name |-> s.name, complete |-> s.complete, from |-> s,
   password |-> IF s.passwordFile = "none" THEN expandEnv(s.password, v)
                ELSE IF s.passwordFile = "empty" THEN Empty ELSE fileSecret]

defaultURI == "/metrics"

(* Mutant of applyDefaults: the windows do not follow the interval. *)
applyDefaultsFixed(f, v) ==
  LET orDefault(x, default) == IF x = 0 THEN default ELSE x
  IN  [interval |-> orDefault(f.interval, DefaultInterval),
       backupWindow |-> orDefault(f.backupWindow, DefaultBackupWindow),
       jobWindow |-> orDefault(f.jobWindow, DefaultJobWindow),
       uri |-> IF f.uri = Empty THEN defaultURI ELSE f.uri,
       systems |-> [i \in DOMAIN f.systems |-> resolve(f.systems[i], v)]]

(* Zero is unset.  A window that is unset is at least twice the interval.  *)
applyDefaults(f, v) ==
  LET interval == IF f.interval = 0 THEN DefaultInterval ELSE f.interval
      window(w, default) ==
        IF w # 0 THEN w ELSE IF default < 2 * interval THEN 2 * interval ELSE default
  IN  [interval |-> interval,
       backupWindow |-> window(f.backupWindow, DefaultBackupWindow),
       jobWindow |-> window(f.jobWindow, DefaultJobWindow),
       uri |-> IF f.uri = Empty THEN defaultURI ELSE f.uri,
       systems |-> [i \in DOMAIN f.systems |-> resolve(f.systems[i], v)]]

unreadable(f) == \E i \in DOMAIN f.systems : f.systems[i].passwordFile = "unreadable"

windowsValid(c) ==
  /\ c.backupWindow >= 0 /\ c.backupWindow >= 2 * c.interval
  /\ c.jobWindow >= 0 /\ c.jobWindow >= 2 * c.interval

systemValid(s) == s.name # Empty /\ s.complete /\ s.password # Empty

reservedServerURIs == {"/livez", "/readyz", "/health"}

validate(c) ==
  /\ c.systems # <<>>
  /\ windowsValid(c)
  /\ c.uri \notin reservedServerURIs
  /\ \A i \in DOMAIN c.systems : systemValid(c.systems[i])
  /\ \A i, j \in DOMAIN c.systems : c.systems[i].name = c.systems[j].name => i = j

(* Load succeeds on f in an environment where the variable is v. *)
Loads(f, v) == ~ missing(f, v) /\ ~ unreadable(f) /\ validate(applyDefaults(f, v))

-----------------------------------------------------------------------------
Init ==
  /\ injected \in Value \cup {Unset}
  /\ cwdEnv \in Value \cup {Unset}
  /\ dirEnv \in Value \cup {Unset}
  /\ file \in Written
  /\ environ = injected
  /\ running = Stopped
  /\ verdict = "none"
  /\ atStart = <<cwdEnv, dirEnv>>

(* run: the .env files, then the config; a process that cannot load ends. *)
Start ==
  /\ running = Stopped
  /\ Loads(file, LoadDotEnv)
  /\ environ' = LoadDotEnv
  /\ running' = applyDefaults(file, LoadDotEnv)
  /\ verdict' = "none"
  /\ atStart' = <<cwdEnv, dirEnv>>
  /\ UNCHANGED <<injected, cwdEnv, dirEnv, file>>

Stop ==
  /\ running # Stopped
  /\ running' = Stopped
  /\ environ' = injected
  /\ verdict' = "none"
  /\ atStart' = <<cwdEnv, dirEnv>>
  /\ UNCHANGED <<injected, cwdEnv, dirEnv, file>>

(* Mutant of Hangup: the file is expanded and parsed only. *)
HangupParsing ==
  /\ running # Stopped
  /\ verdict' = IF missing(file, environ) \/ unreadable(file) THEN "invalid" ELSE "valid"
  /\ UNCHANGED <<injected, cwdEnv, dirEnv, file, environ, running, atStart>>

(* watchReload: the config only, in the environment the process has. *)
Hangup ==
  /\ running # Stopped
  /\ verdict' = IF Loads(file, environ) THEN "valid" ELSE "invalid"
  /\ UNCHANGED <<injected, cwdEnv, dirEnv, file, environ, running, atStart>>

EditConfig ==
  /\ file' \in Rewritten \ {file}
  /\ verdict' = "none"
  /\ UNCHANGED <<injected, cwdEnv, dirEnv, environ, running, atStart>>

EditDotEnv ==
  /\ \/ cwdEnv' \in Value \cup {Unset} /\ dirEnv' = dirEnv
     \/ dirEnv' \in Value \cup {Unset} /\ cwdEnv' = cwdEnv
  /\ <<cwdEnv', dirEnv'>> # <<cwdEnv, dirEnv>>
  /\ verdict' = "none"
  /\ atStart' = IF running = Stopped THEN <<cwdEnv', dirEnv'>> ELSE atStart
  /\ UNCHANGED <<injected, file, environ, running>>

Next == Start \/ Stop \/ Hangup \/ EditConfig \/ EditDotEnv

Spec == Init /\ [][Next]_vars

-----------------------------------------------------------------------------
(* Properties *)

Running == running # Stopped

TypeOK ==
  /\ {injected, cwdEnv, dirEnv, environ} \subseteq Value \cup {Unset}
  /\ file \in Written \cup Rewritten
  /\ verdict \in {"none", "valid", "invalid"}
  /\ Running =>
       /\ {running.interval, running.backupWindow, running.jobWindow} \subseteq Int
       /\ \A i \in DOMAIN running.systems : running.systems[i].password # Unset

(* A file that leaves the windows unset is never rejected for them,        *)
(* however long its interval (config.go:156-171, 195-208).                 *)
UnsetWindowsFollow ==
  file.backupWindow = 0 /\ file.jobWindow = 0 => windowsValid(applyDefaults(file, environ))

(* Of the environment, the .env file of the working directory and the one  *)
(* beside the config file, as they were when the process started, the      *)
(* first that has the variable decides every password that refers to it:   *)
(* with its value, or, if that is empty, which hides the files behind it,  *)
(* with the reference's own fallback, without which the process does not   *)
(* run (dotenv.go:9-21, config.go:111-133).                                *)
FirstSourceWins ==
  Running =>
    \A i \in DOMAIN running.systems :
      LET s == running.systems[i]
          ref == s.from.password
          source == <<injected, atStart[1], atStart[2]>>
          first == {k \in 1..3 : source[k] # Unset /\ \A j \in 1..k - 1 : source[j] = Unset}
      IN  ref.kind # "text" /\ s.from.passwordFile = "none" =>
            \/ \E k \in first : source[k] # Empty /\ s.password = source[k]
            \/ /\ \A k \in first : source[k] = Empty
               /\ ref.kind = "fallback" /\ s.password = ref.text

(* A restart now would load the config. *)
RestartLoads == Loads(file, LoadDotEnv)

(* As long as the .env files are those the process was started with, what  *)
(* a SIGHUP says is what a restart would find (main.go:187-204).           *)
VerdictStable ==
  Running /\ verdict # "none" /\ atStart = <<cwdEnv, dirEnv>>
    => (verdict = "valid" <=> RestartLoads)
=============================================================================
