----------------------------- MODULE FreshStart -----------------------------
(* The fresh start of Hiddify (src-tauri/src/hiddify_reset.rs): the program *)
(* is stopped, what it can make again is moved entry by entry to a backup   *)
(* of this second, and the program is started.  Nothing keeps two calls     *)
(* apart, the program may not have ended when its files are moved, and each *)
(* step may fail.  The entries are a folder and a log; the database         *)
(* and the preferences are never listed.                                    *)
EXTENDS Naturals

CONSTANTS Callers,   \* the calls of the command
          MaxTime    \* bound: the seconds that pass

ASSUME TimeAssumption == MaxTime \in Nat

VARIABLES folder,    \* each entry of Hiddify's data folder: "none", "old" or "new"
          backups,   \* each second's backup folder: its entries
          hiddify,   \* Hiddify: "off" or "runs", to its very end
          call,      \* each call: its step, its second, the entries it has to move
          now,       \* the clock, in seconds
          had,       \* history: what the folder had at first
          collided   \* history: two calls had a backup folder of one second
freshVars == <<folder, backups, hiddify, call, now, had, collided>>

Directories == {"configs"}
Entries == Directories \cup {"log"}
NotCalled == [step |-> "ready"]
-----------------------------------------------------------------------------
FreshInit ==
    /\ folder \in [Entries -> {"none", "old"}] /\ hiddify \in {"off", "runs"}
    /\ backups = [t \in 0..MaxTime |-> [e \in Entries |-> "none"]]
    /\ call = [c \in Callers |-> NotCalled] /\ now = 0 /\ collided = FALSE
    /\ had = {e \in Entries : folder[e] = "old"}

(* Hiddify, as long as it has not ended, makes an entry that is missing. *)
ProgramWrites(e) ==
    /\ hiddify # "off" /\ folder[e] = "none" /\ folder' = [folder EXCEPT ![e] = "new"]
    /\ UNCHANGED <<backups, hiddify, call, now, had, collided>>
ProgramEnds ==
    /\ hiddify # "off" /\ hiddify' = "off" /\ UNCHANGED <<folder, backups, call, now, had, collided>>
SecondPasses ==
    /\ now < MaxTime /\ now' = now + 1
    /\ UNCHANGED <<folder, backups, hiddify, call, had, collided>>

CallBecomes(c, as) == call' = [call EXCEPT ![c] = as]
(* A signal is sent and 700 milliseconds pass, whether it helped or not.    *)
StopHiddify(c) ==
    /\ call[c] = NotCalled /\ CallBecomes(c, [step |-> "stopped"])
    /\ hiddify' \in {hiddify, "off"}
    /\ UNCHANGED <<folder, backups, now, had, collided>>
(* Mutation of Listed: the logs are left where they are. *)
ListedFolders == {e \in Directories : folder[e] # "none"}
Listed == {e \in Entries : folder[e] # "none"}
SharesSecond(c) ==
    \/ \E d \in Callers \ {c} : call[d].step \in {"moving", "copied"} /\ call[d].at = now
    \/ \E e \in Entries : backups[now][e] # "none"
PlanEntries(c) ==
    /\ call[c].step = "stopped"
    /\ CallBecomes(c, [step |-> "moving", at |-> now, left |-> Listed])
    /\ collided' = (collided \/ SharesSecond(c))
    /\ UNCHANGED <<folder, backups, hiddify, now, had>>

(* An entry is renamed; where that is not possible (another file system, or *)
(* a folder of that name is there) it is copied over and removed, and the   *)
(* program may write in between.                                            *)
Save(c, e) == backups' = [backups EXCEPT ![call[c].at][e] = folder[e]]
RenameEntry(c, e) ==
    /\ call[c].step = "moving" /\ e \in call[c].left /\ folder[e] # "none"
    /\ e \in Directories => backups[call[c].at][e] = "none"
    /\ Save(c, e) /\ folder' = [folder EXCEPT ![e] = "none"]
    /\ CallBecomes(c, [call[c] EXCEPT !.left = @ \ {e}]) /\ UNCHANGED <<hiddify, now, had, collided>>
CopyEntry(c, e) ==
    /\ call[c].step = "moving" /\ e \in call[c].left /\ folder[e] # "none" /\ Save(c, e)
    /\ CallBecomes(c, [step |-> "copied", at |-> call[c].at, left |-> call[c].left, entry |-> e])
    /\ UNCHANGED <<folder, hiddify, now, had, collided>>
RemoveEntry(c) ==
    /\ call[c].step = "copied" /\ folder[call[c].entry] # "none"
    /\ folder' = [folder EXCEPT ![call[c].entry] = "none"]
    /\ CallBecomes(c, [step |-> "moving", at |-> call[c].at, left |-> call[c].left \ {call[c].entry}])
    /\ UNCHANGED <<backups, hiddify, now, had, collided>>
(* Anything that fails, an entry that is gone among it, ends the call with  *)
(* what it has moved, and Hiddify stays as it is.                           *)
FreshStartFails(c) ==
    /\ call[c].step \in {"stopped", "moving", "copied"} /\ CallBecomes(c, NotCalled)
    /\ UNCHANGED <<folder, backups, hiddify, now, had, collided>>
StartHiddify(c) ==
    /\ call[c].step = "moving" /\ call[c].left = {} /\ CallBecomes(c, NotCalled) /\ hiddify' = "runs"
    /\ UNCHANGED <<folder, backups, now, had, collided>>

FreshNext ==
    \/ \E e \in Entries : ProgramWrites(e)
    \/ ProgramEnds \/ SecondPasses
    \/ \E c \in Callers :
           \/ StopHiddify(c) \/ PlanEntries(c) \/ RemoveEntry(c) \/ FreshStartFails(c)
           \/ StartHiddify(c)
           \/ \E e \in Entries : RenameEntry(c, e) \/ CopyEntry(c, e)
-----------------------------------------------------------------------------
FreshTypeOK ==
    /\ folder \in [Entries -> {"none", "old", "new"}] /\ hiddify \in {"off", "runs"}
    /\ now \in 0..MaxTime /\ had \subseteq Entries /\ collided \in BOOLEAN

(* What was in the folder is still there or in a backup, however the call   *)
(* went, unless two calls wrote their backup into one folder.               *)
Kept(e) == folder[e] = "old" \/ \E t \in 0..MaxTime : backups[t][e] = "old"
NothingIsDestroyed == ~collided => \A e \in had : Kept(e)

(* A call that starts Hiddify again has moved everything the folder had.    *)
StartsClean ==
    \A c \in Callers : call[c].step = "moving" /\ call[c].left = {} =>
        \A e \in Entries : folder[e] # "old"

(* What a fresh start does to the files of Hiddify                          *)
(* (src-tauri/src/hiddify_reset.rs:46).                                     *)
FreshStartInvariant == FreshTypeOK /\ NothingIsDestroyed /\ StartsClean
=============================================================================
