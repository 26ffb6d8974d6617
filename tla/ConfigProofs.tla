---------------------------- MODULE ConfigProofs ----------------------------
(***************************************************************************)
(* For any config files, environment and edits: what runs was loaded whole *)
(* in the environment the process was started with, with the passwords of  *)
(* the first source that has them, and a SIGHUP says what a restart would  *)
(* find.                                                                   *)
(***************************************************************************)
EXTENDS Config, TLAPS

Texts == Value \cup {Unset}

(* The environment of a process is the one its start has made of the .env  *)
(* files of that moment; without a process it is the one it will be given. *)
EnvironInv ==
  /\ Running => environ = IF injected # Unset THEN injected
                          ELSE IF atStart[1] # Unset THEN atStart[1] ELSE atStart[2]
  /\ ~ Running => environ = injected /\ atStart = <<cwdEnv, dirEnv>> /\ verdict = "none"

(* What runs is some file, loaded in that environment, though the file may *)
(* have been replaced since.                                               *)
LoadedInv ==
  Running => \E f \in Written \cup Rewritten :
               running = applyDefaults(f, environ) /\ Loads(f, environ)

VerdictInv == verdict # "none" => (verdict = "valid" <=> Loads(file, environ))

BaseInv ==
  /\ {injected, cwdEnv, dirEnv, environ} \subseteq Texts
  /\ file \in Written \cup Rewritten
  /\ verdict \in {"none", "valid", "invalid"}

ConfigInv == BaseInv /\ EnvironInv /\ LoadedInv /\ VerdictInv

LEMMA StoppedHasNoSystems == \A f, v : applyDefaults(f, v) # Stopped
<1> SUFFICES ASSUME NEW f, NEW v, applyDefaults(f, v) = Stopped PROVE FALSE
  OBVIOUS
<1>1. DOMAIN Stopped = {"interval"}
  BY DEF Stopped
<1>2. "systems" \in DOMAIN applyDefaults(f, v)
  BY DEF applyDefaults
<1> QED BY <1>1, <1>2

LEMMA InvInit == Init => ConfigInv
<1> SUFFICES ASSUME Init PROVE ConfigInv
  OBVIOUS
<1>1. ~ Running
  BY DEF Init, Running
<1>2. BaseInv
  BY DEF Init, BaseInv, Texts
<1>3. EnvironInv /\ LoadedInv /\ VerdictInv
  BY <1>1 DEF Init, EnvironInv, LoadedInv, VerdictInv
<1> QED BY <1>2, <1>3 DEF ConfigInv

LEMMA InvStep == ConfigInv /\ [Next]_vars => ConfigInv'
<1> SUFFICES ASSUME ConfigInv, [Next]_vars
             PROVE  ConfigInv'
  OBVIOUS
<1> USE DEF ConfigInv
<1>1. CASE Start
  <2>1. Running' /\ ~ Running
    BY <1>1, StoppedHasNoSystems DEF Start, Running
  <2>2. environ' = LoadDotEnv /\ environ = injected /\ file' = file
        /\ running' = applyDefaults(file, LoadDotEnv) /\ Loads(file, LoadDotEnv)
        /\ injected' = injected /\ atStart' = <<cwdEnv, dirEnv>> /\ verdict' = "none"
        /\ cwdEnv' = cwdEnv /\ dirEnv' = dirEnv
    BY <1>1, <2>1 DEF Start, EnvironInv
  <2>3. BaseInv'
    BY <2>2 DEF BaseInv, LoadDotEnv
  <2>4. EnvironInv'
    BY <2>1, <2>2 DEF EnvironInv, LoadDotEnv
  <2>5. LoadedInv'
    BY <2>2 DEF LoadedInv, BaseInv
  <2>6. VerdictInv'
    BY <2>2 DEF VerdictInv
  <2> QED BY <2>3, <2>4, <2>5, <2>6
<1>2. CASE Stop
  <2>1. ~ Running'
    BY <1>2 DEF Stop, Running
  <2>2. BaseInv'
    BY <1>2 DEF Stop, BaseInv
  <2>3. EnvironInv' /\ LoadedInv' /\ VerdictInv'
    BY <1>2, <2>1 DEF Stop, EnvironInv, LoadedInv, VerdictInv
  <2> QED BY <2>2, <2>3
<1>3. CASE Hangup
  <2>1. /\ UNCHANGED <<injected, cwdEnv, dirEnv, file, environ, running, atStart>>
        /\ verdict' = IF Loads(file, environ) THEN "valid" ELSE "invalid"
        /\ Running
    BY <1>3 DEF Hangup, Running
  <2>2. BaseInv' /\ LoadedInv'
    BY <2>1 DEF BaseInv, LoadedInv, Running
  <2>3. EnvironInv'
    BY <2>1 DEF EnvironInv, Running
  <2>4. VerdictInv'
    <3>1. Loads(file, environ)' <=> Loads(file, environ)
      BY <2>1
    <3> QED BY <2>1, <3>1 DEF VerdictInv
  <2> QED BY <2>2, <2>3, <2>4
<1>4. CASE EditConfig
  <2>1. /\ UNCHANGED <<injected, cwdEnv, dirEnv, environ, running, atStart>>
        /\ file' \in Rewritten /\ verdict' = "none"
    BY <1>4 DEF EditConfig
  <2>2. BaseInv'
    BY <2>1 DEF BaseInv
  <2>3. EnvironInv' /\ LoadedInv' /\ VerdictInv'
    BY <2>1 DEF EnvironInv, LoadedInv, VerdictInv, Running
  <2> QED BY <2>2, <2>3
<1>5. CASE EditDotEnv
  <2>1. /\ UNCHANGED <<injected, file, environ, running>> /\ verdict' = "none"
        /\ cwdEnv' \in Texts /\ dirEnv' \in Texts
        /\ atStart' = IF running = Stopped THEN <<cwdEnv', dirEnv'>> ELSE atStart
    BY <1>5 DEF EditDotEnv, BaseInv, Texts
  <2>2. BaseInv'
    BY <2>1 DEF BaseInv
  <2>3. EnvironInv'
    BY <2>1 DEF EnvironInv, Running
  <2>4. LoadedInv' /\ VerdictInv'
    BY <2>1 DEF LoadedInv, VerdictInv, Running
  <2> QED BY <2>2, <2>3, <2>4
<1>6. CASE UNCHANGED vars
  BY <1>6 DEF vars, BaseInv, EnvironInv, LoadedInv, VerdictInv, Running
<1> QED BY <1>1, <1>2, <1>3, <1>4, <1>5, <1>6 DEF Next

-----------------------------------------------------------------------------
(* What loading a file makes of it. *)

LEMMA LoadedFields ==
  ASSUME NEW f \in ConfigFile, NEW v
  PROVE  LET c == applyDefaults(f, v)
         IN  /\ c.interval \in Int /\ c.backupWindow \in Int /\ c.jobWindow \in Int
             /\ DOMAIN c.systems = DOMAIN f.systems
             /\ \A i \in DOMAIN f.systems :
                  c.systems[i] = resolve(f.systems[i], v) /\ f.systems[i] \in SystemEntry
<1> DEFINE c == applyDefaults(f, v)
<1>1. f.interval \in Int /\ f.backupWindow \in Int /\ f.jobWindow \in Int
      /\ f.systems \in Seq(SystemEntry)
  BY DEF ConfigFile
<1>2. c.interval \in Int /\ c.backupWindow \in Int /\ c.jobWindow \in Int
  BY <1>1, DefaultsAssumption DEF applyDefaults
<1>3. c.systems = [i \in DOMAIN f.systems |-> resolve(f.systems[i], v)]
  BY DEF applyDefaults
<1>4. \A i \in DOMAIN f.systems : f.systems[i] \in SystemEntry
  BY <1>1
<1> HIDE DEF c
<1> QED BY <1>2, <1>3, <1>4 DEF c

(* Zero windows follow the interval, also one that is longer than half of  *)
(* the default windows, or negative.                                       *)
LEMMA UnsetWindowsValid ==
  ASSUME NEW f \in ConfigFile, NEW v, f.backupWindow = 0, f.jobWindow = 0
  PROVE  windowsValid(applyDefaults(f, v))
<1> DEFINE interval == IF f.interval = 0 THEN DefaultInterval ELSE f.interval
           window(default) == IF default < 2 * interval THEN 2 * interval ELSE default
           c == applyDefaults(f, v)
<1>1. interval \in Int
  BY DefaultsAssumption DEF ConfigFile
<1>2. /\ c.interval = interval
      /\ c.backupWindow = window(DefaultBackupWindow)
      /\ c.jobWindow = window(DefaultJobWindow)
  BY DEF applyDefaults
<1>3. ASSUME NEW d \in Nat PROVE window(d) >= 0 /\ window(d) >= 2 * interval
  <2> HIDE DEF interval
  <2> QED BY <1>1
<1> HIDE DEF window, interval, c
<1> QED BY <1>2, <1>3, DefaultsAssumption DEF windowsValid, c

(* A password is a text, though the variable may be unset.                 *)
LEMMA PasswordIsText ==
  ASSUME NEW f \in ConfigFile, NEW v \in Texts, ~ missing(f, v), NEW i \in DOMAIN f.systems
  PROVE  resolve(f.systems[i], v).password \in STRING
<1> DEFINE s == f.systems[i]
           ref == s.password
<1>1. s \in SystemEntry
  BY DEF ConfigFile
<1>2. ref.kind \in {"text", "bare", "fallback"} /\ ref.text \in STRING
  BY <1>1 DEF SystemEntry, Reference
<1>3. v = Unset => ref.kind # "bare"
  BY DEF missing
<1>4. v = Unset \/ v \in STRING
  BY TextAssumption DEF Texts
<1>5. resolve(s, v).password = IF s.passwordFile = "none" THEN expandEnv(ref, v)
                               ELSE IF s.passwordFile = "empty" THEN Empty ELSE fileSecret
  BY DEF resolve
<1>6. expandEnv(ref, v) \in STRING
  <2> HIDE DEF ref
  <2>1. CASE ref.kind = "text"
    BY <1>2, <2>1 DEF expandEnv
  <2>2. CASE ref.kind = "bare"
    BY <1>3, <1>4, <2>2 DEF expandEnv
  <2>3. CASE ref.kind = "fallback"
    BY <1>2, <1>4, <2>3 DEF expandEnv
  <2> QED BY <1>2, <2>1, <2>2, <2>3
<1> HIDE DEF s, ref
<1> QED BY <1>5, <1>6, TextAssumption DEF s

(* A reference to a variable that has a value is that value; to one that   *)
(* is empty or unset, its own text, if the configuration is valid.         *)
LEMMA ReferenceResolved ==
  ASSUME NEW s \in SystemEntry, NEW v, s.password.kind # "text", s.passwordFile = "none",
         v = Unset => s.password.kind # "bare", resolve(s, v).password # Empty
  PROVE  /\ v \notin {Unset, Empty} => resolve(s, v).password = v
         /\ v \in {Unset, Empty} =>
              s.password.kind = "fallback" /\ resolve(s, v).password = s.password.text
<1>1. s.password.kind \in {"bare", "fallback"}
  BY DEF SystemEntry, Reference
<1>2. resolve(s, v).password = expandEnv(s.password, v)
  BY DEF resolve
<1>3. CASE v \notin {Unset, Empty}
  BY <1>1, <1>2, <1>3 DEF expandEnv
<1>4. CASE v \in {Unset, Empty}
  <2>1. s.password.kind = "bare" => expandEnv(s.password, v) = v
    BY <1>4 DEF expandEnv
  <2>2. s.password.kind = "fallback"
    BY <1>1, <1>2, <1>4, <2>1
  <2>3. expandEnv(s.password, v) = s.password.text
    BY <1>4, <2>2 DEF expandEnv
  <2> QED BY <1>2, <1>4, <2>2, <2>3
<1> QED BY <1>3, <1>4

LEMMA RunningLoaded ==
  ASSUME ConfigInv, Running
  PROVE  \E f \in ConfigFile : running = applyDefaults(f, environ) /\ Loads(f, environ)
BY FilesAssumption DEF ConfigInv, LoadedInv

-----------------------------------------------------------------------------
(* A process never runs with a password that is not a text: what the       *)
(* environment lacks fails the load (config.go:123-131).                   *)
THEOREM TypeCorrect == Spec => []TypeOK
<1>1. ConfigInv => TypeOK
  <2> SUFFICES ASSUME ConfigInv PROVE TypeOK
    OBVIOUS
  <2>1. ASSUME Running
        PROVE  /\ {running.interval, running.backupWindow, running.jobWindow} \subseteq Int
               /\ \A i \in DOMAIN running.systems : running.systems[i].password # Unset
    <3>1. PICK f \in ConfigFile : running = applyDefaults(f, environ) /\ Loads(f, environ)
      BY <2>1, RunningLoaded
    <3>2. environ \in Texts /\ ~ missing(f, environ)
      BY <3>1 DEF ConfigInv, BaseInv, Loads
    <3> QED BY <3>1, <3>2, LoadedFields, PasswordIsText, TextAssumption
  <2> QED BY <2>1 DEF ConfigInv, BaseInv, Texts, TypeOK
<1> QED BY <1>1, InvInit, InvStep, PTL DEF Spec

(* No interval makes a file without windows invalid for its windows        *)
(* (config.go:156-171, 195-208).                                           *)
THEOREM UnsetWindowsFollowAlways == Spec => []UnsetWindowsFollow
<1>1. ConfigInv => UnsetWindowsFollow
  BY FilesAssumption, UnsetWindowsValid DEF ConfigInv, BaseInv, UnsetWindowsFollow
<1> QED BY <1>1, InvInit, InvStep, PTL DEF Spec

(* The first of the environment and the two .env files that has the        *)
(* variable, an empty value included, decides the passwords that refer to  *)
(* it, however the files are edited later (dotenv.go:9-21,                 *)
(* config.go:111-133).                                                     *)
THEOREM FirstSourceWinsAlways == Spec => []FirstSourceWins
<1>1. ConfigInv => FirstSourceWins
  <2> DEFINE source == <<injected, atStart[1], atStart[2]>>
             first == {k \in 1..3 : source[k] # Unset
                                    /\ \A j \in 1..k - 1 : source[j] = Unset}
  <2> SUFFICES ASSUME ConfigInv, Running, NEW i \in DOMAIN running.systems,
                      running.systems[i].from.password.kind # "text",
                      running.systems[i].from.passwordFile = "none"
               PROVE  LET s == running.systems[i]
                          ref == s.from.password
                      IN  \/ \E k \in first : source[k] # Empty /\ s.password = source[k]
                          \/ /\ \A k \in first : source[k] = Empty
                             /\ ref.kind = "fallback" /\ s.password = ref.text
    BY DEF FirstSourceWins
  <2> DEFINE s == running.systems[i]
  <2>1. PICK f \in ConfigFile : running = applyDefaults(f, environ) /\ Loads(f, environ)
    BY RunningLoaded
  <2>2. s = resolve(f.systems[i], environ) /\ f.systems[i] \in SystemEntry
        /\ i \in DOMAIN f.systems
    BY <2>1, LoadedFields
  <2>3. s.from = f.systems[i]
    BY <2>2 DEF resolve
  <2>4. /\ environ = Unset => s.from.password.kind # "bare"
        /\ s.password # Empty
    BY <2>1, <2>2, <2>3 DEF Loads, missing, validate, systemValid
  <2>5. /\ environ \notin {Unset, Empty} => s.password = environ
        /\ environ \in {Unset, Empty} =>
             s.from.password.kind = "fallback" /\ s.password = s.from.password.text
    BY <2>2, <2>3, <2>4, ReferenceResolved
  <2>6. environ = IF source[1] # Unset THEN source[1]
                  ELSE IF source[2] # Unset THEN source[2] ELSE source[3]
    BY DEF ConfigInv, EnvironInv
  <2> HIDE DEF source
  <2>7. \A k \in first : environ = source[k]
    BY <2>6
  <2>8. environ # Unset => first # {}
    <3>1. source[1] # Unset => 1 \in first
      OBVIOUS
    <3>2. source[1] = Unset /\ source[2] # Unset => 2 \in first
      OBVIOUS
    <3>3. source[1] = Unset /\ source[2] = Unset /\ source[3] # Unset => 3 \in first
      OBVIOUS
    <3> QED BY <2>6, <3>1, <3>2, <3>3
  <2>9. \A k \in first : source[k] # Unset
    OBVIOUS
  <2> HIDE DEF first, s
  <2>10. \/ \E k \in first : source[k] # Empty /\ s.password = source[k]
         \/ /\ \A k \in first : source[k] = Empty
            /\ s.from.password.kind = "fallback" /\ s.password = s.from.password.text
    BY <2>5, <2>7, <2>8, <2>9
  <2> QED BY <2>10 DEF s
<1> QED BY <1>1, InvInit, InvStep, PTL DEF Spec

(* While the .env files are those of the start, a SIGHUP says what a       *)
(* restart would find (main.go:187-204).                                   *)
THEOREM VerdictStableAlways == Spec => []VerdictStable
<1>1. ConfigInv => VerdictStable
  <2> SUFFICES ASSUME ConfigInv, Running, verdict # "none", atStart = <<cwdEnv, dirEnv>>
               PROVE  verdict = "valid" <=> RestartLoads
    BY DEF VerdictStable
  <2>1. environ = LoadDotEnv
    BY DEF ConfigInv, EnvironInv, LoadDotEnv
  <2> QED BY <2>1 DEF ConfigInv, VerdictInv, RestartLoads
<1> QED BY <1>1, InvInit, InvStep, PTL DEF Spec
=============================================================================
