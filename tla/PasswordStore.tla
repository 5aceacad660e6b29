----------------------------- MODULE PasswordStore -----------------------------
(***************************************************************************)
(* The shared relay passwords: the JSON file, the running server's copy of *)
(* it (server/store.go), the sessions a login opens (server/auth.go), and  *)
(* the "passwd" commands, processes of their own that read and write the   *)
(* same file (server/passwd.go).  PasswordStore.mu orders the goroutines   *)
(* of one process; nothing orders two processes.  os.WriteFile truncates   *)
(* the file and then writes it, two steps that others may come between.    *)
(*                                                                         *)
(* A modification time is kept as what ReloadIfChanged compares: newer, the*)
(* file's is after PasswordStore.modTime.                                  *)
(***************************************************************************)
EXTENDS Naturals, FiniteSets

CONSTANTS
  Passwords,     \* password records
  OneTime,       \* those with OneTime set
  Expiring,      \* those with ExpiresAt set
  Logins,        \* POST /login requests
  Secret,        \* the password each one presents
  Generates,     \* "passwd generate" commands
  Invalidates,   \* "passwd invalidate" commands
  Of,            \* the password each command is about
  SavesMayFail,  \* may the server fail to open the file for writing?
  Nobody         \* nobody holds PasswordStore.mu

Commands == Generates \cup Invalidates

ASSUME RecordAssumption  == /\ IsFiniteSet(Passwords)
                            /\ OneTime \subseteq Passwords /\ Expiring \subseteq Passwords
ASSUME SecretAssumption  == Secret \in [Logins -> Passwords]
ASSUME CommandAssumption == Generates \cap Invalidates = {} /\ Of \in [Commands -> Passwords]
ASSUME HolderAssumption  == /\ Logins \cap {"prune", "reload", "start", Nobody} = {}
                            /\ Nobody \notin {"prune", "reload", "start"}
ASSUME SaveAssumption    == SavesMayFail \in BOOLEAN

VARIABLES
  file,     \* the records in the file
  torn,     \* "whole"; "cut": truncated; "broken": one text over another
  newer,    \* the file changed after the time the server knows
  fresh,    \* it did not change since the Stat of the load under way
  expired,  \* the passwords past their ExpiresAt
  failed,   \* history: a save of the server has failed
  records,  \* PasswordStore.records of the server
  holder,   \* who holds the server's PasswordStore.mu over several steps
  phase,    \* what it is about to do: open, write or read the file
  up,       \* the server runs
  login,    \* where each login request, and its session, is
  cli,      \* where each command is
  copy      \* the records it has read

disk  == <<file, torn>>
lock  == <<holder, phase>>
mtime == <<newer, fresh>>
shell == <<cli, copy>>
vars  == <<disk, lock, mtime, shell, expired, failed, records, up, login>>

Holders == Logins \cup {"prune", "reload", "start"}

(* Every variable has its type; only a password with an ExpiresAt expires.  *)
TypeOK ==
  /\ file \subseteq Passwords /\ torn \in {"whole", "cut", "broken"}
  /\ newer \in BOOLEAN /\ fresh \in BOOLEAN /\ up \in BOOLEAN /\ failed \in BOOLEAN
  /\ expired \subseteq Expiring /\ records \subseteq Passwords
  /\ holder \in Holders \cup {Nobody}
  /\ phase \in {"none", "open", "write", "read"}
  /\ login \in [Logins -> {"new", "refused", "won", "live", "expired", "over"}]
  /\ cli \in [Commands -> {"new", "loaded", "writing", "done", "failed", "killed"}]
  /\ copy \in [Commands -> SUBSET Passwords]

Init ==
  /\ file = Passwords \ {Of[c] : c \in Generates} /\ torn = "whole"
  /\ newer = TRUE /\ fresh = FALSE /\ expired = {} /\ failed = FALSE /\ records = {}
  /\ holder = Nobody /\ phase = "none" /\ up = FALSE
  /\ login = [l \in Logins |-> "new"]
  /\ cli = [c \in Commands |-> "new"]
  /\ copy = [c \in Commands |-> {}]
-----------------------------------------------------------------------------
(* The file system.  A write over a longer text leaves the rest of it       *)
(* behind, which no reader can parse; records are about equally long.       *)
Readable == torn = "whole"
Changed  == newer' = TRUE /\ fresh' = FALSE
Truncate == file' = {} /\ torn' = "cut" /\ Changed

WriteOut(S) ==
  /\ Changed
  /\ \/ /\ torn = "cut" \/ Cardinality(S) >= Cardinality(file)
        /\ file' = S /\ torn' = "whole"
     \/ /\ torn # "cut" /\ S # file /\ Cardinality(S) <= Cardinality(file)
        /\ torn' = "broken" /\ UNCHANGED file

(* The server's PasswordStore.mu. *)
Take(who, what) == /\ up /\ holder = Nobody
                   /\ holder' = who /\ phase' = what
GiveBack == holder' = Nobody /\ phase' = "none"
Answer(l, state) == login' = [login EXCEPT ![l] = state]

(* What the holder does when it is through: Consume returns true. *)
Release == /\ GiveBack
           /\ login' = [l \in Logins |-> IF l = holder THEN "won" ELSE login[l]]
-----------------------------------------------------------------------------
\* mutant: the record is not removed
ConsumeKeeps(l) ==
  /\ login[l] = "new"
  /\ IF Secret[l] \in records \ expired
     THEN Take(l, "open") /\ UNCHANGED <<login, records>>
     ELSE up /\ holder = Nobody /\ Answer(l, "refused") /\ UNCHANGED <<records, lock>>
  /\ UNCHANGED <<disk, mtime, shell, expired, failed, up>>

(* Consume: a one-time password leaves the memory and then the file.        *)
Consume(l) ==
  /\ login[l] = "new" /\ up /\ holder = Nobody
  /\ IF Secret[l] \notin records \ expired
     THEN Answer(l, "refused") /\ UNCHANGED <<records, lock>>
     ELSE IF Secret[l] \notin OneTime
     THEN Answer(l, "won") /\ UNCHANGED <<records, lock>>
     ELSE /\ records' = records \ {Secret[l]}
          /\ Take(l, "open") /\ UNCHANGED login
  /\ UNCHANGED <<disk, mtime, shell, expired, failed, up>>

(* Login: the session is made after Consume, under AuthManager.mu. *)
Issue(l) == /\ up /\ login[l] = "won"
            /\ Answer(l, "live")
            /\ UNCHANGED <<disk, mtime, lock, shell, expired, failed, records, up>>

SessionExpires(l) == /\ login[l] = "live"
                     /\ Answer(l, "expired")
                     /\ UNCHANGED <<disk, mtime, lock, shell, expired, failed, records, up>>

(* Validate drops the expired session it finds. *)
Validate(l) == /\ up /\ login[l] = "expired"
               /\ Answer(l, "over")
               /\ UNCHANGED <<disk, mtime, lock, shell, expired, failed, records, up>>

(* AuthManager.Prune: the sessions, and then the store under its own lock.  *)
PruneSessions ==
  /\ up /\ \E l \in Logins : login[l] = "expired"
  /\ login' = [l \in Logins |-> IF login[l] = "expired" THEN "over" ELSE login[l]]
  /\ UNCHANGED <<disk, mtime, lock, shell, expired, failed, records, up>>

PruneStore ==
  /\ records \cap expired # {}
  /\ Take("prune", "open")
  /\ records' = records \ expired
  /\ UNCHANGED <<disk, mtime, shell, expired, failed, up, login>>

(* saveLocked; its error is ignored.  It leaves modTime alone. *)
OpenFile ==
  /\ phase = "open"
  /\ \/ Truncate /\ phase' = "write" /\ UNCHANGED <<holder, login, failed>>
     \/ SavesMayFail /\ failed' = TRUE /\ Release /\ UNCHANGED <<disk, mtime>>
  /\ UNCHANGED <<shell, expired, records, up>>

SaveMarks ==  \* mutant: the server takes the file's time after its own write
  /\ phase = "write"
  /\ IF torn = "cut" THEN file' = records /\ torn' = "whole"
                     ELSE torn' = "broken" /\ UNCHANGED file
  /\ newer' = FALSE /\ fresh' = FALSE
  /\ Release
  /\ UNCHANGED <<shell, expired, failed, records, up>>

Save ==
  /\ phase = "write"
  /\ WriteOut(records)
  /\ Release
  /\ UNCHANGED <<shell, expired, failed, records, up>>

(* ReloadIfChanged, from the ticker and from SIGHUP, up to loadLocked's     *)
(* Stat; and NewPasswordStore, which starts without a modTime.              *)
Reload ==
  /\ newer
  /\ Take("reload", "read")
  /\ fresh' = TRUE
  /\ UNCHANGED <<disk, newer, shell, expired, failed, records, up, login>>

Start ==
  /\ ~up /\ up' = TRUE
  /\ holder' = "start" /\ phase' = "read"
  /\ newer' = TRUE /\ fresh' = TRUE
  /\ UNCHANGED <<disk, shell, expired, failed, records, login>>

LoadKeepsLock ==  \* mutant: the lock is kept when the file does not parse
  /\ phase = "read"
  /\ IF Readable THEN records' = file /\ newer' = ~fresh /\ GiveBack /\ UNCHANGED up
                 ELSE /\ up' = (holder # "start") /\ phase' = "none"
                      /\ UNCHANGED <<records, newer, holder>>
  /\ UNCHANGED <<disk, fresh, shell, expired, failed, login>>

(* loadLocked's ReadFile and Unmarshal.  The time it keeps is that of its   *)
(* Stat.  Unreadable: the old records stay, or the server does not start.   *)
Load ==
  /\ phase = "read"
  /\ IF Readable THEN records' = file /\ newer' = ~fresh /\ UNCHANGED up
                 ELSE up' = (holder # "start") /\ UNCHANGED <<records, newer>>
  /\ GiveBack
  /\ UNCHANGED <<disk, fresh, shell, expired, failed, login>>

(* The server dies between any two steps.  Whoever waited is not answered.  *)
Crash ==
  /\ up /\ up' = FALSE
  /\ GiveBack
  /\ records' = {}
  /\ login' = [l \in Logins |-> IF l = holder THEN "refused"
                                ELSE IF login[l] \in {"won", "live", "expired"}
                                THEN "over" ELSE login[l]]
  /\ UNCHANGED <<disk, mtime, shell, expired, failed>>
-----------------------------------------------------------------------------
(* The commands: NewPasswordStore, then Add or Remove on the copy.          *)
Edited(c) == IF c \in Generates THEN copy[c] \cup {Of[c]} ELSE copy[c] \ {Of[c]}
Move(c, label) == cli' = [cli EXCEPT ![c] = label]

OpenStore(c) ==
  /\ cli[c] = "new"
  /\ IF Readable /\ (c \in Invalidates => Of[c] \in file)
     THEN Move(c, "loaded") /\ copy' = [copy EXCEPT ![c] = file]
     ELSE Move(c, "failed") /\ UNCHANGED copy
  /\ UNCHANGED <<disk, mtime, lock, expired, failed, records, up, login>>

OpenForWriting(c) ==
  /\ cli[c] = "loaded"
  /\ Truncate
  /\ Move(c, "writing")
  /\ UNCHANGED <<lock, copy, expired, failed, records, up, login>>

Finish(c) ==
  /\ cli[c] = "writing"
  /\ WriteOut(Edited(c))
  /\ Move(c, "done")
  /\ UNCHANGED <<lock, copy, expired, failed, records, up, login>>

Kill(c) ==
  /\ cli[c] \in {"loaded", "writing"}
  /\ Move(c, "killed")
  /\ UNCHANGED <<disk, mtime, lock, copy, expired, failed, records, up, login>>

ExpireAny(w) ==  \* mutant: no ExpiresAt taken for a past one
  /\ expired' = expired \cup {w}
  /\ UNCHANGED <<disk, mtime, lock, shell, failed, records, up, login>>

Expire(w) ==
  /\ w \in Expiring \ expired
  /\ expired' = expired \cup {w}
  /\ UNCHANGED <<disk, mtime, lock, shell, failed, records, up, login>>
-----------------------------------------------------------------------------
LoginStep(l) == Consume(l) \/ Issue(l) \/ SessionExpires(l) \/ Validate(l)
StoreStep    == OpenFile \/ Save \/ Load
CommandStep(c) == OpenStore(c) \/ OpenForWriting(c) \/ Finish(c) \/ Kill(c)

Next ==
  \/ \E l \in Logins : LoginStep(l)
  \/ \E c \in Commands : CommandStep(c)
  \/ \E w \in Passwords : Expire(w)
  \/ PruneSessions \/ PruneStore \/ StoreStep \/ Reload \/ Start \/ Crash

Spec == Init /\ [][Next]_vars

(* A goroutine that holds the lock goes on; the ticker of main.go polls     *)
(* every two seconds.                                                       *)
FairSpec == Spec /\ WF_vars(StoreStep) /\ WF_vars(Reload)
-----------------------------------------------------------------------------
(***************************************************************************)
(* Properties.                                                             *)
(***************************************************************************)

(* However writes, loads and saves interleave, the poll never takes the     *)
(* server for up to date when it is not: with no change to pick up, its     *)
(* records are those of the file (ReloadIfChanged compares times that were  *)
(* taken outside the lock, and before the read); once a save has failed,    *)
(* less what it could not save.                                             *)
InStep == records \subseteq file /\ (~failed => records = file)

FollowsFile == up /\ holder = Nobody /\ ~newer => Readable /\ InStep

(* The poll gets there: the server comes to the file's records as long as   *)
(* they can be read at all.                                                 *)
CatchesUp == up ~> ~up \/ ~Readable \/ InStep

(* "One-time passwords are consumed (removed from the store) on success"    *)
(* (auth.go:42): no two logins succeed with the same one.                   *)
Admitted(l) == login[l] \in {"won", "live", "expired", "over"}

OneTimeOnce ==
  \A l, m \in Logins : l # m /\ Admitted(l) /\ Admitted(m) /\ Secret[l] = Secret[m]
                         => Secret[l] \notin OneTime

(* What of it Consume does achieve: while every save of the server reached  *)
(* the file and no command has written its own copy over it, no two logins  *)
(* succeed with one one-time password: not by racing, not around a reload,  *)
(* not across a crash of the server or of a command between any two steps.  *)
Undisturbed == ~failed /\ \A c \in Commands : cli[c] # "done"

OnceUndisturbed == Undisturbed => OneTimeOnce
=============================================================================
