------------------------------ MODULE Installer -------------------------------
(***************************************************************************)
(* The installer of ccc/crypto/software_update: a script, a copy of the    *)
(* files of the update over the tree of the machine (copytree), another    *)
(* script.  An entry that cannot be copied does not stop the others; it    *)
(* stops the second script.                                                *)
(*                                                                         *)
(* Sizes and the signature are checked before; here a run is refused or    *)
(* not.  Scripts are taken to leave the entries of the update alone.  The  *)
(* directory a run unpacks into is its own and gone after it.              *)
(***************************************************************************)
EXTENDS Naturals, Sequences

CONSTANTS Root,      \* signed_data/files, and the directory it is copied to
          Dirs, Files, Links,   \* entries below Root
          Parent,    \* the directory of an entry
          MaxRuns    \* bound on the runs of the installer

Entries == {Root} \cup Dirs \cup Files \cup Links
Below(n) == {m \in Entries \ {Root} : Parent[m] = n}

(* The last but one says that every entry lies below Root, at some depth.  *)
ASSUME InstallerAssumption ==
  /\ Root \notin Dirs \cup Files \cup Links
  /\ Dirs \cap Files = {} /\ Dirs \cap Links = {} /\ Files \cap Links = {}
  /\ Parent \in [Entries \ {Root} -> Dirs \cup {Root}]
  /\ \A S \in SUBSET Entries :
       Root \in S /\ (\A n \in Entries \ {Root} : Parent[n] \in S => n \in S)
         => S = Entries
  /\ MaxRuns \in Nat

VARIABLES
  phase,     \* of do_install
  target,    \* what is at the place an entry is copied to
  frames,    \* active calls of copytree, innermost last
  copied,    \* history: entries copied in this run ...
  failed,    \* ... and those that raised OSError
  report,    \* args[0] of the Error that ended the last run, if one did
  runs,      \* runs begun
  installs   \* runs that came to the second script

vars == <<phase, target, frames, copied, failed, report, runs, installs>>

Phases == {"idle", "pre", "copy", "post"}

(* "link": one that does not lead to a directory; "torn": a file of which  *)
(* a part is written.                                                      *)
Contents == {"none", "dir", "link", "file", "torn", "new"}
IsFile(c) == c \in {"file", "torn", "new"}

(* Anything may be there before the first run, below directories. *)
Init == /\ phase = "idle" /\ frames = <<>>
        /\ target \in [Entries -> {"none", "dir", "link", "file"}]
        /\ target[Root] = "dir"
        /\ \A n \in Entries \ {Root} : target[n] # "none" => target[Parent[n]] = "dir"
        /\ copied = {} /\ failed = {} /\ report = {}
        /\ runs = 0 /\ installs = 0

------------------------------------------------------------------------------
(* Copying one entry: whether it raises, and what is at its place then.    *)
Outcome(ok, c) == [ok |-> ok, content |-> c]
Fails(n) == {Outcome(FALSE, target[n])}

(* Variant: exist_ok is not passed on to the recursive calls. *)
DirOutcomesOutermost(n) ==
  Fails(n) \cup {Outcome(TRUE, "dir") :
                   c \in {target[n]} \cap (IF n = Root THEN {"none", "dir"} ELSE {"none"})}

(* listdir; makedirs with exist_ok *)
DirOutcomes(n) ==
  Fails(n) \cup {Outcome(TRUE, "dir") : c \in {target[n]} \cap {"none", "dir"}}

(* symlink refuses what exists; copystat may still raise. *)
LinkOutcomes(n) ==
  Fails(n) \cup IF target[n] = "none"
                THEN {Outcome(TRUE, "link"), Outcome(FALSE, "link")} ELSE {}

(* copy2: copyfile, then copystat.  A file of a directory's name goes into *)
(* the directory, one of a link's name to where the link leads.            *)
FileOutcomes(n) ==
  Fails(n) \cup IF IsFile(target[n]) \/ target[n] = "none"
                THEN {Outcome(TRUE, "new"), Outcome(FALSE, "new"), Outcome(FALSE, "torn")}
                ELSE {Outcome(TRUE, target[n])}

Frame(n) == [dir |-> n, left |-> Below(n), errors |-> {}]

Depth == Len(frames)

(* Variant: an OSError is caught and forgotten. *)
TakenSilently(n, ok) == [frames EXCEPT ![Depth].left = @ \ {n}]

(* The innermost call is done with entry n. *)
Taken(n, ok) == [frames EXCEPT ![Depth].left = @ \ {n},
                               ![Depth].errors = IF ok THEN @ ELSE @ \cup {n}]

Record(n, o) == /\ target' = [target EXCEPT ![n] = o.content]
                /\ copied' = IF o.ok THEN copied \cup {n} ELSE copied
                /\ failed' = IF o.ok THEN failed ELSE failed \cup {n}

Idle == phase' = "idle" /\ frames' = <<>>

------------------------------------------------------------------------------
(* verify_and_install_software_update raises before do_install unless the  *)
(* sizes and the signature are right.                                      *)
Start(valid) ==
  /\ phase = "idle" /\ runs < MaxRuns
  /\ phase' = (IF valid THEN "pre" ELSE "idle") /\ runs' = runs + 1
  /\ copied' = {} /\ failed' = {} /\ report' = {}
  /\ UNCHANGED <<target, frames, installs>>

(* A script that fails or takes longer than the timeout raises. *)
PreCopy(ok) ==
  /\ phase = "pre"
  /\ phase' = IF ok THEN "copy" ELSE "idle"
  /\ UNCHANGED <<target, frames, copied, failed, report, runs, installs>>

(* The outermost call of copytree: an OSError goes through to main. *)
CopyRoot ==
  /\ phase = "copy" /\ frames = <<>>
  /\ \E o \in DirOutcomes(Root) :
       /\ Record(Root, o)
       /\ IF o.ok THEN frames' = <<Frame(Root)>> /\ UNCHANGED <<phase, report>>
          ELSE Idle /\ report' = {Root}
  /\ UNCHANGED <<runs, installs>>

Entry(n) == phase = "copy" /\ frames # <<>> /\ n \in frames[Depth].left

CopyDir(n) ==
  /\ Entry(n) /\ n \in Dirs
  /\ \E o \in DirOutcomes(n) :
       /\ Record(n, o)
       /\ frames' = Taken(n, o.ok) \o (IF o.ok THEN <<Frame(n)>> ELSE <<>>)
  /\ UNCHANGED <<phase, report, runs, installs>>

CopyOther(n) ==
  /\ Entry(n) /\ n \notin Dirs
  /\ \E o \in (IF n \in Links THEN LinkOutcomes(n) ELSE FileOutcomes(n)) :
       Record(n, o) /\ frames' = Taken(n, o.ok)
  /\ UNCHANGED <<phase, report, runs, installs>>

(* Variant: the caller appends the list of the callee to its own. *)
ReturnAppends ==
  /\ frames # <<>> /\ frames[Depth].left = {}
  /\ LET errors == frames[Depth].errors
         callers == SubSeq(frames, 1, Depth - 1)
     IN IF callers # <<>>
        THEN /\ frames' = [callers EXCEPT ![Depth - 1].errors = @ \cup {errors}]
             /\ UNCHANGED <<phase, report>>
        ELSE /\ frames' = <<>>
             /\ phase' = IF errors = {} THEN "post" ELSE "idle"
             /\ report' = errors
  /\ UNCHANGED <<target, copied, failed, runs, installs>>

(* Variant: a failure below a directory is not passed on. *)
ReturnLoses ==
  /\ frames # <<>> /\ frames[Depth].left = {}
  /\ LET errors == frames[Depth].errors
         callers == SubSeq(frames, 1, Depth - 1)
     IN IF callers # <<>>
        THEN frames' = callers /\ UNCHANGED <<phase, report>>
        ELSE /\ frames' = <<>>
             /\ phase' = IF errors = {} THEN "post" ELSE "idle"
             /\ report' = errors
  /\ UNCHANGED <<target, copied, failed, runs, installs>>

(* A call returns, or raises Error with its list, which the caller adds to *)
(* its own.                                                                *)
Return ==
  /\ frames # <<>> /\ frames[Depth].left = {}
  /\ LET errors == frames[Depth].errors
         callers == SubSeq(frames, 1, Depth - 1)
     IN IF callers # <<>>
        THEN /\ frames' = [callers EXCEPT ![Depth - 1].errors = @ \cup errors]
             /\ UNCHANGED <<phase, report>>
        ELSE /\ frames' = <<>>
             /\ phase' = IF errors = {} THEN "post" ELSE "idle"
             /\ report' = errors
  /\ UNCHANGED <<target, copied, failed, runs, installs>>

PostCopy ==
  /\ phase = "post"
  /\ Idle /\ installs' = installs + 1
  /\ UNCHANGED <<target, copied, failed, report, runs>>

Killed ==
  /\ phase # "idle"
  /\ Idle
  /\ UNCHANGED <<target, copied, failed, report, runs, installs>>

Next == \/ \E b \in BOOLEAN : Start(b) \/ PreCopy(b)
        \/ CopyRoot
        \/ \E n \in Entries : CopyDir(n) \/ CopyOther(n)
        \/ Return \/ PostCopy \/ Killed

Spec == Init /\ [][Next]_vars

------------------------------------------------------------------------------
(* Properties *)

Calls == [dir : Dirs \cup {Root}, left : SUBSET Entries, errors : SUBSET Entries]

(* Every variable has its type. *)
TypeOK ==
  /\ phase \in Phases /\ target \in [Entries -> Contents]
  /\ frames \in Seq(Calls)
  /\ copied \subseteq Entries /\ failed \subseteq Entries /\ report \subseteq Entries
  /\ runs \in 0..MaxRuns /\ installs \in 0..MaxRuns

(* copytree goes on after a failure, tries everything that does not lie    *)
(* below one, and the Error it raises at last names every failure of every *)
(* level.                                                                  *)
Tree == INSTANCE TreeCopy
ImplementsTreeCopy == Tree!Spec

(* When the second script runs, every entry of this update is in place:    *)
(* files are whole and new but for those whose place a directory or a link *)
(* had taken, whatever earlier runs left half done.                        *)
PostWhenComplete ==
  phase = "post" => /\ \A n \in Dirs : target[n] = "dir"
                    /\ \A n \in Links : target[n] = "link"
                    /\ \A n \in Files : target[n] \in {"new", "dir", "link"}

(* What a run leaves behind, whether it came to its end, failed or was     *)
(* killed, takes no directory and no file from the runs after it: exist_ok *)
(* reaches every call, and a file half written is written anew.  Links are *)
(* no part of this: symlink refuses one that is there.  (copytree)         *)
Outcomes(n) == IF n \in Dirs \cup {Root} THEN DirOutcomes(n)
               ELSE IF n \in Links THEN LinkOutcomes(n) ELSE FileOutcomes(n)
Copyable(n) == \E o \in Outcomes(n) : o.ok
NextRunNotBlocked ==
  [][\A n \in Entries \ Links : Copyable(n) => Copyable(n)']_vars

(* The inductive invariant.  What is left to the active calls is what has  *)
(* not been tried below the directories copied, and their lists together   *)
(* name what failed.                                                       *)
Tried == copied \cup failed
CopyInv ==
  /\ frames # <<>> => phase = "copy" /\ Root \in copied
  /\ phase \in {"pre", "copy"} /\ frames = <<>> => Tried = {}
  /\ copied \cap failed = {}
  /\ \A n \in Tried \ {Root} : Parent[n] \in copied
  /\ phase = "post" => copied = Entries
CallsInv ==
  /\ \A i \in 1..Depth : /\ frames[i].dir \in copied
                         /\ frames[i].left \subseteq Below(frames[i].dir) \ Tried
  /\ \A i, j \in 1..Depth : i # j => frames[i].dir # frames[j].dir
  /\ frames # <<>> =>
       /\ failed = UNION {frames[i].errors : i \in 1..Depth}
       /\ \A n \in Entries \ {Root} :
            Parent[n] \in copied => n \in Tried \/ \E i \in 1..Depth : n \in frames[i].left
TargetInv ==
  \A n \in copied : /\ n \in Dirs => target[n] = "dir"
                    /\ n \in Links => target[n] = "link"
                    /\ n \in Files => target[n] \in {"new", "dir", "link"}
InstallInv == installs <= runs /\ (phase # "idle" => installs < runs)
IInv == TypeOK /\ CopyInv /\ CallsInv /\ TargetInv /\ InstallInv
==============================================================================
