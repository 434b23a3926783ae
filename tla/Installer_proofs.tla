--------------------------- MODULE Installer_proofs ---------------------------
(***************************************************************************)
(* Proofs about the software update installer: its type invariant, that    *)
(* the second script runs on a whole copy only, that no run takes a file   *)
(* or a directory from the runs after it, and that the copy implements     *)
(* TreeCopy.                                                               *)
(***************************************************************************)
EXTENDS Installer, SequenceTheorems, TLAPS

LEMMA EntryTypes ==
  /\ Below(Root) \subseteq Entries \ {Root}
  /\ \A n \in Entries : /\ Below(n) \subseteq Entries \ {Root}
                        /\ n \notin Dirs \cup {Root} => Below(n) = {}
  /\ \A n \in Entries \ {Root} : Parent[n] \in Entries /\ Parent[n] \in Dirs \cup {Root}
BY InstallerAssumption DEF Below, Entries

LEMMA CallUpdates ==
  ASSUME NEW r \in Calls
  PROVE  /\ \A e : [r EXCEPT !.errors = e] = [dir |-> r.dir, left |-> r.left, errors |-> e]
         /\ \A l : [r EXCEPT !.left = l] = [dir |-> r.dir, left |-> l, errors |-> r.errors]
<1>1. r = [dir |-> r.dir, left |-> r.left, errors |-> r.errors]
  BY DEF Calls
<1> QED  BY <1>1

(* The list of active calls after an entry was taken from the innermost.   *)
LeftAfter(i, n) == IF i = Depth THEN frames[i].left \ {n} ELSE frames[i].left
ErrorsAfter(i, n, ok) == IF i = Depth /\ ~ok THEN frames[i].errors \cup {n}
                         ELSE frames[i].errors
LEMMA TakenCalls ==
  ASSUME frames \in Seq(Calls), frames # <<>>, NEW n \in Entries, NEW ok \in BOOLEAN
  PROVE  /\ Depth \in Nat \ {0}
         /\ Taken(n, ok) \in Seq(Calls) /\ Len(Taken(n, ok)) = Depth
         /\ \A i \in 1..Depth : /\ Taken(n, ok)[i].dir = frames[i].dir
                               /\ Taken(n, ok)[i].left = LeftAfter(i, n)
                               /\ Taken(n, ok)[i].errors = ErrorsAfter(i, n, ok)
<1>1. Depth \in Nat \ {0}  BY DEF Depth
<1>2. frames[Depth] \in Calls  BY <1>1 DEF Depth
<1> DEFINE e == IF ok THEN frames[Depth].errors ELSE frames[Depth].errors \cup {n}
           l == frames[Depth].left \ {n}
           q == [frames[Depth] EXCEPT !.left = l]
           last == [dir |-> frames[Depth].dir, left |-> l, errors |-> e]
<1>3. last \in Calls  BY <1>2 DEF Calls
<1>4. Taken(n, ok) = [frames EXCEPT ![Depth] = last]
  <2>1. q = [dir |-> frames[Depth].dir, left |-> l, errors |-> frames[Depth].errors]
    BY <1>2, CallUpdates
  <2>2. Taken(n, ok) = [frames EXCEPT ![Depth] = [q EXCEPT !.errors = e]]
    BY <1>2 DEF Taken, Calls
  <2> HIDE DEF q, e, l
  <2>3. [q EXCEPT !.errors = e] = last  BY <2>1
  <2> QED  BY <2>2, <2>3
<1> HIDE DEF last
<1>5. /\ Taken(n, ok) \in Seq(Calls) /\ Len(Taken(n, ok)) = Depth
      /\ \A i \in 1..Depth : Taken(n, ok)[i] = IF i = Depth THEN last ELSE frames[i]
  BY <1>1, <1>3, <1>4 DEF Depth
<1>6. /\ last.dir = frames[Depth].dir /\ last.left = frames[Depth].left \ {n}
      /\ last.errors = IF ok THEN frames[Depth].errors ELSE frames[Depth].errors \cup {n}
  BY DEF last
<1> QED  BY <1>1, <1>5, <1>6 DEF LeftAfter, ErrorsAfter

(* ... and after a call for the directory n was begun.                     *)
LEMMA PushedCalls ==
  ASSUME NEW t \in Seq(Calls), NEW n \in Dirs \cup {Root}
  PROVE  /\ t \o <<Frame(n)>> \in Seq(Calls)
         /\ t \o <<Frame(n)>> # <<>>
         /\ Len(t \o <<Frame(n)>>) = Len(t) + 1
         /\ \A i \in 1..Len(t) : (t \o <<Frame(n)>>)[i] = t[i]
         /\ (t \o <<Frame(n)>>)[Len(t) + 1] = [dir |-> n, left |-> Below(n), errors |-> {}]
<1>1. Frame(n) \in Calls  BY DEF Frame, Calls, Below, Entries
<1> QED  BY <1>1 DEF Frame

(* ... and after the innermost call was left, its list added to the caller's. *)
ErrorsReturned(i) == IF i = Depth - 1 THEN frames[i].errors \cup frames[Depth].errors
                     ELSE frames[i].errors
LEMMA Callers ==
  ASSUME frames \in Seq(Calls), frames # <<>>
  PROVE  /\ SubSeq(frames, 1, Depth - 1) \in Seq(Calls)
         /\ Len(SubSeq(frames, 1, Depth - 1)) = Depth - 1
         /\ \A i \in 1..Depth - 1 : SubSeq(frames, 1, Depth - 1)[i] = frames[i]
<1>1. Depth \in Nat \ {0} /\ Depth - 1 \in Int  BY DEF Depth
<1>2. \A i \in 1..Depth - 1 : frames[i] \in Calls  BY <1>1 DEF Depth
<1> DEFINE s == SubSeq(frames, 1, Depth - 1)
<1>3. /\ s \in Seq(Calls)
      /\ Len(s) = IF 1 <= Depth - 1 THEN (Depth - 1) - 1 + 1 ELSE 0
      /\ \A i \in 1..(Depth - 1) - 1 + 1 : s[i] = frames[1 + i - 1]
  BY <1>1, <1>2, SubSeqProperties
<1> HIDE DEF s
<1>4. Len(s) = Depth - 1  BY <1>1, <1>3
<1>5. \A i \in 1..Depth - 1 : s[i] = frames[i]
  <2>1. (Depth - 1) - 1 + 1 = Depth - 1 /\ \A i \in 1..Depth - 1 : 1 + i - 1 = i  BY <1>1
  <2> QED  BY <1>3, <2>1
<1> QED  BY <1>3, <1>4, <1>5 DEF s

LEMMA ReturnedCalls ==
  ASSUME frames \in Seq(Calls), frames # <<>>,
         SubSeq(frames, 1, Depth - 1) # <<>>,
         NEW t, t = [SubSeq(frames, 1, Depth - 1) EXCEPT
                       ![Depth - 1].errors = @ \cup frames[Depth].errors]
  PROVE  /\ Depth \in Nat /\ Depth >= 2
         /\ t \in Seq(Calls) /\ t # <<>> /\ Len(t) = Depth - 1
         /\ \A i \in 1..Depth - 1 : t[i].dir = frames[i].dir
         /\ \A i \in 1..Depth - 1 : t[i].left = frames[i].left
         /\ \A i \in 1..Depth - 1 : t[i].errors = ErrorsReturned(i)
<1> DEFINE callers == SubSeq(frames, 1, Depth - 1)
<1>1. Depth \in Nat \ {0}  BY DEF Depth
<1>2. /\ callers \in Seq(Calls) /\ Len(callers) = Depth - 1
      /\ \A i \in 1..Depth - 1 : callers[i] = frames[i]
  BY Callers
<1>3. Depth >= 2  BY <1>1, <1>2
<1>4. callers[Depth - 1] = frames[Depth - 1] /\ frames[Depth - 1] \in Calls
      /\ frames[Depth] \in Calls
  BY <1>1, <1>2, <1>3 DEF Depth
<1> DEFINE last == [dir |-> frames[Depth - 1].dir, left |-> frames[Depth - 1].left,
                    errors |-> frames[Depth - 1].errors \cup frames[Depth].errors]
<1>5. last \in Calls  BY <1>4 DEF Calls
<1>6. t = [callers EXCEPT ![Depth - 1] = last]
  <2> DEFINE e == frames[Depth - 1].errors \cup frames[Depth].errors
  <2>1. t = [callers EXCEPT ![Depth - 1] = [@ EXCEPT !.errors = e]]
    BY <1>2, <1>3, <1>4
  <2>2. [frames[Depth - 1] EXCEPT !.errors = e] = last
    BY <1>4, CallUpdates
  <2> QED  BY <1>4, <2>1, <2>2
<1> HIDE DEF last, callers
<1>7. /\ t \in Seq(Calls) /\ Len(t) = Depth - 1
      /\ \A i \in 1..Depth - 1 : t[i] = IF i = Depth - 1 THEN last ELSE frames[i]
  <2>1. Depth - 1 \in 1..Len(callers)  BY <1>1, <1>2, <1>3
  <2> DEFINE u == [callers EXCEPT ![Depth - 1] = last]
  <2>2. /\ u \in Seq(Calls) /\ Len(u) = Len(callers)
        /\ \A i \in 1..Len(callers) : u[i] = IF i = Depth - 1 THEN last ELSE callers[i]
    BY <1>2, <1>5, <2>1, ExceptSeq
  <2>3. t = u  BY <1>6
  <2> HIDE DEF u
  <2> QED  BY <1>2, <2>2, <2>3
<1>8. /\ last.dir = frames[Depth - 1].dir /\ last.left = frames[Depth - 1].left
      /\ last.errors = frames[Depth - 1].errors \cup frames[Depth].errors
  BY DEF last
<1>9. ASSUME NEW i \in 1..Depth - 1
      PROVE  /\ t[i].dir = frames[i].dir /\ t[i].left = frames[i].left
             /\ t[i].errors = ErrorsReturned(i)
  <2>1. CASE i = Depth - 1  BY <1>7, <1>8, <1>9, <2>1 DEF ErrorsReturned
  <2>2. CASE i # Depth - 1  BY <1>7, <1>9, <2>2 DEF ErrorsReturned
  <2> QED  BY <2>1, <2>2
<1>10. t # <<>>  BY <1>1, <1>3, <1>7
<1> QED  BY <1>1, <1>3, <1>7, <1>9, <1>10

------------------------------------------------------------------------------
(* What the attempt to copy an entry leaves at its place.                  *)
LEMMA OutcomeFacts ==
  ASSUME TypeOK, NEW n \in Entries, NEW o \in Outcomes(n)
  PROVE  /\ o.ok \in BOOLEAN /\ o.content \in Contents
         /\ target[n] # "none" => o.content # "none"
         /\ o.ok => /\ n \in Dirs => o.content = "dir"
                    /\ n \in Links => o.content = "link" /\ target[n] = "none"
                    /\ n \in Files => o.content \in {"new", "dir", "link"}
<1>1. target[n] \in Contents  BY DEF TypeOK
<1> USE DEF Outcome, Fails, Contents
<1> DEFINE Is(ok, c) == o.ok = ok /\ o.content = c
<1>2. CASE n \in Dirs \cup {Root}
  <2>1. o \in DirOutcomes(n)  BY <1>2 DEF Outcomes
  <2>2. Is(FALSE, target[n]) \/ Is(TRUE, "dir")  BY <2>1 DEF DirOutcomes
  <2>3. n \notin Links /\ n \notin Files  BY <1>2, InstallerAssumption
  <2> QED  BY <1>1, <2>2, <2>3
<1>3. CASE n \in Links
  <2>1. n \notin Dirs /\ n # Root /\ n \notin Files  BY <1>3, InstallerAssumption
  <2>2. o \in LinkOutcomes(n)  BY <1>3, <2>1 DEF Outcomes
  <2>3. Is(FALSE, target[n]) \/ (target[n] = "none" /\ (Is(TRUE, "link") \/ Is(FALSE, "link")))
    <3>1. CASE target[n] = "none"  BY <2>2, <3>1 DEF LinkOutcomes
    <3>2. CASE target[n] # "none"  BY <2>2, <3>2 DEF LinkOutcomes
    <3> QED  BY <3>1, <3>2
  <2> QED  BY <1>1, <2>1, <2>3
<1>4. CASE n \in Files
  <2>1. n \notin Dirs /\ n # Root /\ n \notin Links  BY <1>4, InstallerAssumption
  <2>2. o \in FileOutcomes(n)  BY <1>4, <2>1 DEF Outcomes
  <2>3. \/ Is(FALSE, target[n]) \/ Is(TRUE, "new") \/ Is(FALSE, "new") \/ Is(FALSE, "torn")
        \/ Is(TRUE, target[n]) /\ target[n] \in {"dir", "link"}
    <3>1. CASE IsFile(target[n]) \/ target[n] = "none"
      BY <2>2, <3>1 DEF FileOutcomes
    <3>2. CASE ~(IsFile(target[n]) \/ target[n] = "none")
      BY <1>1, <2>2, <3>2 DEF FileOutcomes, IsFile
    <3> QED  BY <3>1, <3>2
  <2> QED  BY <1>1, <2>1, <2>3
<1> QED  BY <1>2, <1>3, <1>4 DEF Entries

(* What one attempt does to the variables other than the calls.            *)
LEMMA RecordKeeps ==
  ASSUME IInv, phase = "copy", phase' \in {"copy", "idle"},
         NEW n \in Entries, n \notin Tried, n = Root \/ Parent[n] \in copied,
         NEW o \in Outcomes(n), Record(n, o), UNCHANGED <<runs, installs>>
  PROVE  /\ o.ok \in BOOLEAN
         /\ target' \in [Entries -> Contents]
         /\ copied' \subseteq Entries /\ failed' \subseteq Entries
         /\ Tried' = Tried \cup {n}
         /\ copied' \cap failed' = {}
         /\ \A m \in Tried' \ {Root} : Parent[m] \in copied'
         /\ TargetInv' /\ InstallInv'
<1>1. /\ o.ok \in BOOLEAN /\ o.content \in Contents
      /\ target[n] # "none" => o.content # "none"
      /\ o.ok => /\ n \in Dirs => o.content = "dir"
                 /\ n \in Links => o.content = "link" /\ target[n] = "none"
                 /\ n \in Files => o.content \in {"new", "dir", "link"}
  BY OutcomeFacts DEF IInv
<1>2. /\ copied \subseteq Entries /\ failed \subseteq Entries
      /\ target \in [Entries -> Contents] /\ runs \in Nat /\ installs \in Nat
  BY InstallerAssumption DEF IInv, TypeOK
<1>3. /\ target' \in [Entries -> Contents]
      /\ \A m \in Entries : target'[m] = IF m = n THEN o.content ELSE target[m]
  BY <1>1, <1>2 DEF Record
<1>4. /\ copied' \subseteq Entries /\ failed' \subseteq Entries
      /\ Tried' = Tried \cup {n} /\ copied' \cap failed' = {}
      /\ copied \subseteq copied'
  BY <1>2 DEF IInv, CopyInv, Record, Tried
<1>5. \A m \in Tried' \ {Root} : Parent[m] \in copied'
  BY <1>4 DEF IInv, CopyInv
<1>6. TargetInv'
  BY <1>1, <1>2, <1>3 DEF IInv, TargetInv, Record, Tried
<1>7. InstallInv'
  BY DEF IInv, InstallInv
<1> QED  BY <1>1, <1>3, <1>4, <1>5, <1>6, <1>7

------------------------------------------------------------------------------
(* An entry that is taken is left to the innermost call only.              *)
LEMMA EntryFacts ==
  ASSUME IInv, NEW n \in Entries, Entry(n)
  PROVE  /\ frames \in Seq(Calls) /\ frames # <<>> /\ Depth \in Nat \ {0}
         /\ n # Root /\ n \notin Tried
         /\ Parent[n] = frames[Depth].dir /\ Parent[n] \in copied
         /\ \A i \in 1..Depth : i # Depth => n \notin frames[i].left
<1>1. frames \in Seq(Calls) /\ frames # <<>> /\ Depth \in Nat \ {0}
  BY DEF IInv, TypeOK, Entry, Depth
<1>2. \A i \in 1..Depth : n \in frames[i].left => /\ n # Root /\ n \notin Tried
                                                 /\ Parent[n] = frames[i].dir
                                                 /\ Parent[n] \in copied
  BY DEF IInv, CallsInv, Below
<1>3. Depth \in 1..Depth  BY <1>1
<1>4. n \in frames[Depth].left  BY DEF Entry
<1>5. \A i \in 1..Depth : i # Depth => frames[i].dir # frames[Depth].dir
  BY <1>3 DEF IInv, CallsInv
<1> QED  BY <1>1, <1>2, <1>3, <1>4, <1>5

LEMMA InitInv ==
  ASSUME Init
  PROVE  IInv
<1>1. TypeOK
  <2>1. frames \in Seq(Calls)  BY DEF Init
  <2>2. target \in [Entries -> Contents]  BY DEF Init, Contents
  <2>3. MaxRuns \in Nat  BY InstallerAssumption
  <2>4. runs \in 0..MaxRuns /\ installs \in 0..MaxRuns
    BY <2>3 DEF Init
  <2> QED  BY <2>1, <2>2, <2>4 DEF Init, TypeOK, Phases
<1>2. CopyInv  BY DEF Init, CopyInv, Tried
<1>3. CallsInv  BY DEF Init, CallsInv, Depth
<1>4. TargetInv  BY DEF Init, TargetInv
<1>5. InstallInv  BY DEF Init, InstallInv
<1> QED  BY <1>1, <1>2, <1>3, <1>4, <1>5 DEF IInv

LEMMA StartInv ==
  ASSUME IInv, NEW valid \in BOOLEAN, Start(valid)
  PROVE  IInv'
<1>1. frames = <<>> /\ frames' = <<>>  BY DEF IInv, CopyInv, Start
<1>2. TypeOK'
  BY InstallerAssumption DEF IInv, TypeOK, Start, Phases
<1>3. CopyInv'  BY <1>1 DEF Start, CopyInv, Tried
<1>4. CallsInv'  BY <1>1 DEF CallsInv, Depth
<1>5. TargetInv'  BY DEF Start, TargetInv
<1>6. InstallInv'
  BY InstallerAssumption DEF IInv, TypeOK, Start, InstallInv
<1> QED  BY <1>2, <1>3, <1>4, <1>5, <1>6 DEF IInv

LEMMA PreCopyInv ==
  ASSUME IInv, NEW ok \in BOOLEAN, PreCopy(ok)
  PROVE  IInv'
<1>1. frames = <<>> /\ frames' = <<>>  BY DEF IInv, CopyInv, PreCopy
<1>2. TypeOK'  BY DEF IInv, TypeOK, PreCopy, Phases
<1>3. CopyInv'  BY <1>1 DEF IInv, PreCopy, CopyInv, Tried
<1>4. CallsInv'  BY <1>1 DEF CallsInv, Depth
<1>5. TargetInv'  BY DEF IInv, PreCopy, TargetInv
<1>6. InstallInv'  BY DEF IInv, PreCopy, InstallInv
<1> QED  BY <1>2, <1>3, <1>4, <1>5, <1>6 DEF IInv

LEMMA KilledInv ==
  ASSUME IInv, Killed
  PROVE  IInv'
<1>1. frames' = <<>>  BY DEF Killed, Idle
<1>2. TypeOK'  BY DEF IInv, TypeOK, Killed, Idle, Phases
<1>3. CopyInv'  BY <1>1 DEF IInv, Killed, Idle, CopyInv, Tried
<1>4. CallsInv'  BY <1>1 DEF CallsInv, Depth
<1>5. TargetInv'  BY DEF IInv, Killed, TargetInv
<1>6. InstallInv'  BY DEF IInv, Killed, Idle, InstallInv
<1> QED  BY <1>2, <1>3, <1>4, <1>5, <1>6 DEF IInv

(* A run comes to the second script once.                                  *)
LEMMA PostCopyInv ==
  ASSUME IInv, PostCopy
  PROVE  IInv'
<1>1. frames' = <<>>  BY DEF PostCopy, Idle
<1>2. runs \in Nat /\ installs \in Nat /\ runs <= MaxRuns /\ installs < runs /\ MaxRuns \in Nat
  BY InstallerAssumption DEF IInv, TypeOK, InstallInv, PostCopy
<1>3. TypeOK'
  BY <1>1, <1>2 DEF IInv, TypeOK, PostCopy, Idle, Phases
<1>4. CopyInv'  BY <1>1 DEF IInv, PostCopy, Idle, CopyInv, Tried
<1>5. CallsInv'  BY <1>1 DEF CallsInv, Depth
<1>6. TargetInv'  BY DEF IInv, PostCopy, TargetInv
<1>7. InstallInv'
  BY <1>2 DEF PostCopy, Idle, InstallInv
<1> QED  BY <1>3, <1>4, <1>5, <1>6, <1>7 DEF IInv

(* The outermost call begins with nothing tried.                           *)
LEMMA CopyRootInv ==
  ASSUME IInv, CopyRoot
  PROVE  IInv'
<1>1. PICK o \in DirOutcomes(Root) :
        /\ Record(Root, o)
        /\ IF o.ok THEN frames' = <<Frame(Root)>> /\ UNCHANGED <<phase, report>>
           ELSE Idle /\ report' = {Root}
  BY DEF CopyRoot
<1>2. /\ phase = "copy" /\ Tried = {} /\ UNCHANGED <<runs, installs>>
      /\ Root \in Entries /\ o \in Outcomes(Root) /\ phase' \in {"copy", "idle"}
  BY <1>1 DEF IInv, CopyInv, CopyRoot, Entries, Outcomes, Idle
<1>3. /\ o.ok \in BOOLEAN
      /\ target' \in [Entries -> Contents]
      /\ copied' \subseteq Entries /\ failed' \subseteq Entries
      /\ Tried' = {Root} /\ copied' \cap failed' = {}
      /\ \A m \in Tried' \ {Root} : Parent[m] \in copied'
      /\ TargetInv' /\ InstallInv'
  BY <1>1, <1>2, RecordKeeps
<1>4. CASE o.ok
  <2>1. frames' = <<Frame(Root)>> /\ phase' = "copy" /\ report' = report
    BY <1>1, <1>2, <1>4
  <2>2. copied' = {Root} /\ failed' = {}
    BY <1>1, <1>2, <1>4 DEF Record, Tried
  <2>3. /\ frames' \in Seq(Calls) /\ frames' # <<>> /\ Len(frames') = 1
        /\ frames'[1] = [dir |-> Root, left |-> Below(Root), errors |-> {}]
    BY <2>1 DEF Frame, Calls, Below, Entries
  <2>4. TypeOK'
    BY <1>2, <1>3, <2>1, <2>3 DEF IInv, TypeOK, Phases
  <2>5. CopyInv'
    BY <1>3, <2>1, <2>2, <2>3 DEF CopyInv
  <2>6. CallsInv'
    <3>1. UNION {frames'[i].errors : i \in 1..1} = {}  BY <2>3
    <3> QED  BY <1>3, <2>2, <2>3, <3>1 DEF CallsInv, Depth, Below
  <2> QED  BY <1>3, <2>4, <2>5, <2>6 DEF IInv
<1>5. CASE ~o.ok
  <2>1. frames' = <<>> /\ phase' = "idle" /\ report' = {Root}
    BY <1>1, <1>5 DEF Idle
  <2>2. TypeOK'
    BY <1>2, <1>3, <2>1 DEF IInv, TypeOK, Phases, Entries
  <2>3. CopyInv'  BY <1>3, <2>1 DEF CopyInv
  <2>4. CallsInv'  BY <2>1 DEF CallsInv, Depth
  <2> QED  BY <1>3, <2>2, <2>3, <2>4 DEF IInv
<1> QED  BY <1>3, <1>4, <1>5

(* What the two kinds of copies do to the calls in common: the entry tried *)
(* is no longer left, and is on a list if it failed.                       *)
CallsTaken(t, n) ==
  /\ t \in Seq(Calls) /\ Len(t) = Depth
  /\ \A i \in 1..Depth : t[i].dir \in copied
  /\ \A i \in 1..Depth : t[i].left \subseteq Below(t[i].dir)
  /\ \A i \in 1..Depth : t[i].left \cap (Tried \cup {n}) = {}
  /\ \A i, j \in 1..Depth : i # j => t[i].dir # t[j].dir
  /\ failed' = UNION {t[i].errors : i \in 1..Depth}
  /\ \A m \in Entries \ {Root} : Parent[m] \in copied =>
       m \in Tried \cup {n} \/ \E i \in 1..Depth : m \in t[i].left

LEMMA TakenKeeps ==
  ASSUME IInv, NEW n \in Entries, Entry(n), NEW o, o.ok \in BOOLEAN, Record(n, o)
  PROVE  CallsTaken(Taken(n, o.ok), n)
<1> DEFINE t == Taken(n, o.ok)
<1>1. /\ frames \in Seq(Calls) /\ frames # <<>> /\ Depth \in Nat \ {0}
      /\ \A i \in 1..Depth : i # Depth => n \notin frames[i].left
  BY EntryFacts
<1>2. t \in Seq(Calls) /\ Len(t) = Depth
  BY <1>1, TakenCalls
<1>3. \A i \in 1..Depth : t[i].dir = frames[i].dir
  BY <1>1, TakenCalls
<1>4. \A i \in 1..Depth : t[i].left = frames[i].left \ {n}
  <2>1. \A i \in 1..Depth : t[i].left = LeftAfter(i, n)
    BY <1>1, TakenCalls
  <2> QED  BY <1>1, <2>1 DEF LeftAfter
<1>5. \A i \in 1..Depth : t[i].errors = ErrorsAfter(i, n, o.ok)
  BY <1>1, TakenCalls
<1> HIDE DEF t
<1>6. \A i \in 1..Depth : frames[i].dir \in copied
  BY DEF IInv, CallsInv
<1>7. \A i \in 1..Depth : frames[i].left \subseteq Below(frames[i].dir)
  BY DEF IInv, CallsInv
<1>8. \A i \in 1..Depth : frames[i].left \cap Tried = {}
  BY DEF IInv, CallsInv
<1>9. \A i, j \in 1..Depth : i # j => frames[i].dir # frames[j].dir
  BY DEF IInv, CallsInv
<1>10. failed = UNION {frames[i].errors : i \in 1..Depth}
  BY <1>1 DEF IInv, CallsInv
<1>11. \A m \in Entries \ {Root} : Parent[m] \in copied =>
         m \in Tried \/ \E i \in 1..Depth : m \in frames[i].left
  BY <1>1 DEF IInv, CallsInv
<1>12. \A i \in 1..Depth : t[i].dir \in copied  BY <1>3, <1>6
<1>13. \A i \in 1..Depth : t[i].left \subseteq Below(t[i].dir)  BY <1>3, <1>4, <1>7
<1>14. \A i \in 1..Depth : t[i].left \cap (Tried \cup {n}) = {}  BY <1>4, <1>8
<1>15. \A i, j \in 1..Depth : i # j => t[i].dir # t[j].dir  BY <1>3, <1>9
<1>16. failed' = UNION {t[i].errors : i \in 1..Depth}
  <2>1. CASE o.ok
    <3>1. \A i \in 1..Depth : t[i].errors = frames[i].errors
      BY <1>5, <2>1 DEF ErrorsAfter
    <3>2. failed' = failed  BY <2>1 DEF Record
    <3> QED  BY <1>10, <3>1, <3>2
  <2>2. CASE ~o.ok
    <3>1. failed' = failed \cup {n}  BY <2>2 DEF Record
    <3>2. \A i \in 1..Depth : t[i].errors = IF i = Depth THEN frames[i].errors \cup {n}
                                           ELSE frames[i].errors
      BY <1>5, <2>2 DEF ErrorsAfter
    <3>3. Depth \in 1..Depth  BY <1>1
    <3>4. n \in t[Depth].errors  BY <3>2, <3>3
    <3>5. \A i \in 1..Depth : /\ t[i].errors \subseteq frames[i].errors \cup {n}
                             /\ frames[i].errors \subseteq t[i].errors
      BY <3>2
    <3> QED  BY <1>10, <3>1, <3>3, <3>4, <3>5
  <2> QED  BY <2>1, <2>2
<1>17. ASSUME NEW m \in Entries \ {Root}, Parent[m] \in copied, m # n, m \notin Tried
       PROVE  \E i \in 1..Depth : m \in t[i].left
  <2>1. PICK i \in 1..Depth : m \in frames[i].left  BY <1>11, <1>17
  <2>2. m \in t[i].left  BY <1>4, <1>17, <2>1
  <2> QED  BY <2>2
<1>18. CallsTaken(t, n)
  BY <1>2, <1>12, <1>13, <1>14, <1>15, <1>16, <1>17 DEF CallsTaken
<1> QED  BY <1>18 DEF t

(* A file or a link: nothing lies below it.                                *)
LEMMA CopyOtherInv ==
  ASSUME IInv, NEW n \in Entries, CopyOther(n)
  PROVE  IInv'
<1>1. PICK o \in Outcomes(n) : Record(n, o) /\ frames' = Taken(n, o.ok)
  <2>1. n # Root  BY EntryFacts DEF CopyOther
  <2> QED  BY <2>1 DEF CopyOther, Outcomes
<1>2. /\ phase = "copy" /\ Entry(n) /\ n \notin Dirs /\ UNCHANGED <<phase, report, runs, installs>>
  BY DEF CopyOther, Entry
<1>3. /\ Depth \in Nat \ {0} /\ n # Root /\ n \notin Tried /\ Parent[n] \in copied
      /\ Root \in copied
  BY <1>2, EntryFacts DEF IInv, CopyInv
<1>4. /\ o.ok \in BOOLEAN
      /\ target' \in [Entries -> Contents]
      /\ copied' \subseteq Entries /\ failed' \subseteq Entries
      /\ Tried' = Tried \cup {n} /\ copied' \cap failed' = {}
      /\ \A m \in Tried' \ {Root} : Parent[m] \in copied'
      /\ TargetInv' /\ InstallInv'
  BY <1>1, <1>2, <1>3, RecordKeeps
<1>5. CallsTaken(frames', n)
  BY <1>1, <1>2, <1>4, TakenKeeps
<1>6. copied \subseteq copied' /\ copied' \subseteq copied \cup {n}
  BY <1>1 DEF Record
<1>7. TypeOK'
  BY <1>2, <1>4, <1>5 DEF IInv, TypeOK, CallsTaken
<1>8. frames' # <<>>  BY <1>3, <1>5 DEF CallsTaken
<1>9. CopyInv'
  BY <1>2, <1>3, <1>4, <1>6, <1>8 DEF CopyInv
<1>10. \A m \in Entries \ {Root} : Parent[m] \in copied' => Parent[m] \in copied
  BY <1>2, <1>3, <1>6, EntryTypes
<1>11. CallsInv'
  <2>1. \A i \in 1..Depth : frames'[i].dir \in copied'
    BY <1>5, <1>6 DEF CallsTaken
  <2>2. \A i \in 1..Depth : frames'[i].left \subseteq Below(frames'[i].dir) \ Tried'
    BY <1>4, <1>5 DEF CallsTaken
  <2>3. \A m \in Entries \ {Root} : Parent[m] \in copied' =>
           m \in Tried' \/ \E i \in 1..Depth : m \in frames'[i].left
    BY <1>4, <1>5, <1>10 DEF CallsTaken
  <2> QED  BY <1>5, <2>1, <2>2, <2>3 DEF CallsInv, Depth, CallsTaken
<1> QED  BY <1>4, <1>7, <1>9, <1>11 DEF IInv

(* A directory that is copied gets a call of its own, whose entries nobody *)
(* has tried.                                                              *)
LEMMA CopyDirInv ==
  ASSUME IInv, NEW n \in Entries, CopyDir(n)
  PROVE  IInv'
<1>1. PICK o \in Outcomes(n) :
        Record(n, o) /\ frames' = Taken(n, o.ok) \o (IF o.ok THEN <<Frame(n)>> ELSE <<>>)
  BY DEF CopyDir, Outcomes
<1>2. /\ phase = "copy" /\ Entry(n) /\ n \in Dirs /\ UNCHANGED <<phase, report, runs, installs>>
  BY DEF CopyDir, Entry
<1>3. /\ Depth \in Nat \ {0} /\ n # Root /\ n \notin Tried /\ Parent[n] \in copied
      /\ Root \in copied
  BY <1>2, EntryFacts DEF IInv, CopyInv
<1>4. /\ o.ok \in BOOLEAN
      /\ target' \in [Entries -> Contents]
      /\ copied' \subseteq Entries /\ failed' \subseteq Entries
      /\ Tried' = Tried \cup {n} /\ copied' \cap failed' = {}
      /\ \A m \in Tried' \ {Root} : Parent[m] \in copied'
      /\ TargetInv' /\ InstallInv'
  BY <1>1, <1>2, <1>3, RecordKeeps
<1> DEFINE t == Taken(n, o.ok)
<1>5. CallsTaken(t, n)
  BY <1>1, <1>2, <1>4, TakenKeeps
<1>6. copied' = (IF o.ok THEN copied \cup {n} ELSE copied)
  BY <1>1 DEF Record
<1> HIDE DEF t
<1>7. CASE o.ok
  <2>1. t \in Seq(Calls) /\ Len(t) = Depth  BY <1>5 DEF CallsTaken
  <2>2. frames' = t \o <<Frame(n)>>  BY <1>1, <1>7 DEF t
  <2>3. /\ frames' \in Seq(Calls) /\ frames' # <<>> /\ Len(frames') = Depth + 1
        /\ \A i \in 1..Depth : frames'[i] = t[i]
        /\ frames'[Depth + 1] = [dir |-> n, left |-> Below(n), errors |-> {}]
    BY <1>2, <2>1, <2>2, PushedCalls
  <2>4. /\ frames'[Depth + 1].dir = n /\ frames'[Depth + 1].left = Below(n)
        /\ frames'[Depth + 1].errors = {}
    BY <2>3
  <2>5. \A i \in 1..Depth + 1 : i \in 1..Depth \/ i = Depth + 1
    BY <1>3
  <2>6. copied' = copied \cup {n}  BY <1>6, <1>7
  <2>7. TypeOK'
    BY <1>2, <1>4, <2>3 DEF IInv, TypeOK
  <2>8. CopyInv'
    BY <1>2, <1>3, <1>4, <2>3, <2>6 DEF CopyInv
  <2>9. Below(n) \cap Tried' = {}
    BY <1>3, <1>4 DEF Below, Tried, IInv, CopyInv
  <2>10. \A i \in 1..Depth + 1 : frames'[i].dir \in copied'
    BY <1>5, <2>3, <2>4, <2>5, <2>6 DEF CallsTaken
  <2>11. \A i \in 1..Depth + 1 : frames'[i].left \subseteq Below(frames'[i].dir) \ Tried'
    BY <1>4, <1>5, <2>3, <2>4, <2>5, <2>9 DEF CallsTaken
  <2>12. \A i \in 1..Depth : t[i].dir # n  BY <1>3, <1>5 DEF CallsTaken, Tried
  <2>13. \A i, j \in 1..Depth + 1 : i # j => frames'[i].dir # frames'[j].dir
    BY <1>5, <2>3, <2>4, <2>5, <2>12 DEF CallsTaken
  <2>14. failed' = UNION {frames'[i].errors : i \in 1..Depth + 1}
    <3>1. failed' = UNION {t[i].errors : i \in 1..Depth}  BY <1>5 DEF CallsTaken
    <3>2. \A i \in 1..Depth : frames'[i].errors = t[i].errors  BY <2>3
    <3>3. \A i \in 1..Depth : i \in 1..Depth + 1  BY <1>3
    <3> QED  BY <2>4, <2>5, <3>1, <3>2, <3>3
  <2>15. ASSUME NEW m \in Entries \ {Root}, Parent[m] \in copied', m \notin Tried'
         PROVE  \E i \in 1..Depth + 1 : m \in frames'[i].left
    <3>1. CASE Parent[m] = n
      <4>1. m \in frames'[Depth + 1].left  BY <2>4, <3>1 DEF Below
      <4> QED  BY <1>3, <4>1
    <3>2. CASE Parent[m] # n
      <4>1. PICK i \in 1..Depth : m \in t[i].left
        BY <1>4, <1>5, <2>6, <2>15, <3>2 DEF CallsTaken
      <4>2. m \in frames'[i].left /\ i \in 1..Depth + 1  BY <1>3, <2>3, <4>1
      <4> QED  BY <4>2
    <3> QED  BY <3>1, <3>2
  <2>16. CallsInv'
    BY <2>3, <2>10, <2>11, <2>13, <2>14, <2>15 DEF CallsInv, Depth
  <2> QED  BY <1>4, <2>7, <2>8, <2>16 DEF IInv
<1>8. CASE ~o.ok
  <2>1. t \in Seq(Calls) /\ Len(t) = Depth  BY <1>5 DEF CallsTaken
  <2>2. frames' = t /\ frames' # <<>>
    BY <1>1, <1>3, <1>8, <2>1 DEF t
  <2>3. CallsTaken(frames', n)  BY <1>5, <2>2
  <2>4. copied' = copied  BY <1>6, <1>8
  <2>5. TypeOK'
    BY <1>2, <1>4, <2>1, <2>2 DEF IInv, TypeOK
  <2>6. CopyInv'
    BY <1>2, <1>3, <1>4, <2>2, <2>4 DEF CopyInv
  <2>7. \A i \in 1..Depth : frames'[i].left \subseteq Below(frames'[i].dir) \ Tried'
    BY <1>4, <2>3 DEF CallsTaken
  <2>8. \A m \in Entries \ {Root} : Parent[m] \in copied' =>
          m \in Tried' \/ \E i \in 1..Depth : m \in frames'[i].left
    BY <1>4, <2>3, <2>4 DEF CallsTaken
  <2>9. CallsInv'
    BY <2>1, <2>2, <2>3, <2>4, <2>7, <2>8 DEF CallsInv, Depth, CallsTaken
  <2> QED  BY <1>4, <2>5, <2>6, <2>9 DEF IInv
<1> QED  BY <1>4, <1>7, <1>8

(* The outermost call ends with everything below what was copied tried and *)
(* with a list of all that failed.                                         *)
LEMMA LastReturn ==
  ASSUME IInv, Return, SubSeq(frames, 1, Depth - 1) = <<>>
  PROVE  /\ frames[Depth].errors = failed
         /\ Root \in copied
         /\ \A n \in Entries \ {Root} : Parent[n] \in copied => n \in Tried
<1>1. frames \in Seq(Calls) /\ frames # <<>> /\ frames[Depth].left = {}
  BY DEF IInv, TypeOK, Return
<1>2. Depth \in Nat \ {0}  BY <1>1 DEF Depth
<1>3. Depth = 1
  <2> DEFINE callers == SubSeq(frames, 1, Depth - 1)
  <2>1. Len(callers) = Depth - 1  BY <1>1, Callers
  <2>2. callers = <<>>  OBVIOUS
  <2> HIDE DEF callers
  <2> QED  BY <1>2, <2>1, <2>2
<1>4. failed = UNION {frames[i].errors : i \in 1..1}
  BY <1>1, <1>3 DEF IInv, CallsInv
<1>5. \A n \in Entries \ {Root} :
        Parent[n] \in copied => n \in Tried \/ \E i \in 1..1 : n \in frames[i].left
  BY <1>1, <1>3 DEF IInv, CallsInv
<1>6. 1..1 = {1}  OBVIOUS
<1> QED  BY <1>1, <1>3, <1>4, <1>5, <1>6 DEF IInv, CopyInv

LEMMA ReturnInv ==
  ASSUME IInv, Return
  PROVE  IInv'
<1> DEFINE errors == frames[Depth].errors
           callers == SubSeq(frames, 1, Depth - 1)
<1>1. /\ frames \in Seq(Calls) /\ frames # <<>> /\ frames[Depth].left = {}
      /\ phase = "copy" /\ Root \in copied
      /\ UNCHANGED <<target, copied, failed, runs, installs>>
  BY DEF IInv, TypeOK, CopyInv, Return
<1>2. Depth \in Nat \ {0} /\ frames[Depth] \in Calls  BY <1>1 DEF Depth
<1>3. TargetInv'  BY <1>1 DEF IInv, TargetInv
<1>4. CASE callers # <<>>
  <2>1. frames' = [callers EXCEPT ![Depth - 1].errors = @ \cup errors] /\ UNCHANGED <<phase, report>>
    BY <1>4 DEF Return
  <2>2. /\ Depth >= 2
        /\ frames' \in Seq(Calls) /\ frames' # <<>> /\ Len(frames') = Depth - 1
        /\ \A i \in 1..Depth - 1 : frames'[i].dir = frames[i].dir
        /\ \A i \in 1..Depth - 1 : frames'[i].left = frames[i].left
        /\ \A i \in 1..Depth - 1 : frames'[i].errors = ErrorsReturned(i)
    BY <1>1, <1>4, <2>1, ReturnedCalls
  <2>3. TypeOK'  BY <1>1, <2>1, <2>2 DEF IInv, TypeOK
  <2>4. CopyInv'  BY <1>1, <2>1, <2>2 DEF IInv, CopyInv, Tried
  <2>5. InstallInv'  BY <1>1, <2>1 DEF IInv, InstallInv
  <2>6. \A i \in 1..Depth - 1 : i \in 1..Depth  BY <1>2
  <2>7. \A i \in 1..Depth - 1 : /\ frames'[i].dir \in copied
                                /\ frames'[i].left \subseteq Below(frames'[i].dir) \ Tried
    BY <2>2, <2>6 DEF IInv, CallsInv
  <2>8. \A i, j \in 1..Depth - 1 : i # j => frames'[i].dir # frames'[j].dir
    BY <2>2, <2>6 DEF IInv, CallsInv
  <2>9. failed = UNION {frames'[i].errors : i \in 1..Depth - 1}
    <3>1. failed = UNION {frames[i].errors : i \in 1..Depth}
      BY <1>1 DEF IInv, CallsInv
    <3>2. \A i \in 1..Depth : i \in 1..Depth - 1 \/ i = Depth  BY <1>2
    <3>3. Depth - 1 \in 1..Depth - 1 /\ Depth \in 1..Depth  BY <1>2, <2>2
    <3>4. \A i \in 1..Depth - 1 : /\ frames[i].errors \subseteq frames'[i].errors
                                  /\ frames'[i].errors \subseteq frames[i].errors \cup errors
      BY <2>2 DEF ErrorsReturned
    <3>5. errors \subseteq frames'[Depth - 1].errors
      BY <2>2, <3>3 DEF ErrorsReturned
    <3>6. \A x : x \in UNION {frames[i].errors : i \in 1..Depth}
                   <=> x \in UNION {frames'[i].errors : i \in 1..Depth - 1}
      BY <2>6, <3>2, <3>3, <3>4, <3>5
    <3> QED  BY <3>1, <3>6
  <2>10. \A n \in Entries \ {Root} :
           Parent[n] \in copied => n \in Tried \/ \E i \in 1..Depth - 1 : n \in frames'[i].left
    <3>1. \A i \in 1..Depth : i \in 1..Depth - 1 \/ i = Depth  BY <1>2
    <3>2. SUFFICES ASSUME NEW n \in Entries \ {Root}, Parent[n] \in copied, n \notin Tried
                   PROVE  \E i \in 1..Depth - 1 : n \in frames'[i].left
      OBVIOUS
    <3>3. PICK i \in 1..Depth : n \in frames[i].left
      BY <1>1, <3>2 DEF IInv, CallsInv
    <3>4. i \in 1..Depth - 1  BY <1>1, <3>1, <3>3
    <3> QED  BY <2>2, <3>3, <3>4
  <2>11. CallsInv'
    BY <1>1, <2>2, <2>7, <2>8, <2>9, <2>10 DEF CallsInv, Depth, Tried
  <2> QED  BY <1>3, <2>3, <2>4, <2>5, <2>11 DEF IInv
<1>5. CASE callers = <<>>
  <2>1. /\ frames' = <<>> /\ report' = errors
        /\ phase' = IF errors = {} THEN "post" ELSE "idle"
    BY <1>5 DEF Return
  <2>2. TypeOK'
    BY <1>1, <1>2, <2>1 DEF IInv, TypeOK, Calls, Phases
  <2>3. phase' = "post" => copied = Entries
    <3>1. SUFFICES ASSUME errors = {}
                   PROVE  copied = Entries
      BY <2>1
    <3>2. /\ Root \in copied /\ copied \in SUBSET Entries
          /\ \A n \in Entries \ {Root} : Parent[n] \in copied => n \in copied
      BY <1>5, <3>1, LastReturn DEF Tried, IInv, TypeOK
    <3> QED  BY <3>2, InstallerAssumption
  <2>4. CopyInv'  BY <1>1, <2>1, <2>3 DEF IInv, CopyInv, Tried
  <2>5. CallsInv'  BY <2>1 DEF CallsInv, Depth
  <2>6. InstallInv'  BY <1>1, <2>1 DEF IInv, InstallInv
  <2> QED  BY <1>3, <2>2, <2>4, <2>5, <2>6 DEF IInv
<1> QED  BY <1>4, <1>5

------------------------------------------------------------------------------
(* Every reachable state satisfies the inductive invariant.                *)
THEOREM SpecInv == Spec => []IInv
<1>1. Init => IInv  BY InitInv
<1>2. IInv /\ [Next]_vars => IInv'
  <2> SUFFICES ASSUME IInv, [Next]_vars
               PROVE  IInv'
    OBVIOUS
  <2>1. ASSUME NEW b \in BOOLEAN, Start(b) PROVE IInv'  BY <2>1, StartInv
  <2>2. ASSUME NEW b \in BOOLEAN, PreCopy(b) PROVE IInv'  BY <2>2, PreCopyInv
  <2>3. CASE CopyRoot  BY <2>3, CopyRootInv
  <2>4. ASSUME NEW n \in Entries, CopyDir(n) PROVE IInv'  BY <2>4, CopyDirInv
  <2>5. ASSUME NEW n \in Entries, CopyOther(n) PROVE IInv'  BY <2>5, CopyOtherInv
  <2>6. CASE Return  BY <2>6, ReturnInv
  <2>7. CASE PostCopy  BY <2>7, PostCopyInv
  <2>8. CASE Killed  BY <2>8, KilledInv
  <2>9. CASE UNCHANGED vars
    BY <2>9 DEF vars, IInv, TypeOK, CopyInv, CallsInv, TargetInv, InstallInv,
                Tried, Depth
  <2> QED  BY <2>1, <2>2, <2>3, <2>4, <2>5, <2>6, <2>7, <2>8, <2>9 DEF Next
<1> QED  BY <1>1, <1>2, PTL DEF Spec

(* Every variable keeps its type, for every tree.                          *)
THEOREM TypeCorrect == Spec => []TypeOK
<1>1. IInv => TypeOK  BY DEF IInv
<1> QED  BY <1>1, SpecInv, PTL

(* The second script runs on a whole copy of the update only, for every    *)
(* tree and every earlier run.  (do_install, copytree)                     *)
THEOREM PostIsComplete == Spec => []PostWhenComplete
<1>1. IInv => PostWhenComplete
  BY DEF IInv, CopyInv, TargetInv, PostWhenComplete, Entries
<1> QED  BY <1>1, SpecInv, PTL

(* Which entries can be copied.                                            *)
LEMMA WhatIsCopyable ==
  ASSUME TypeOK, NEW n \in Entries \ Links
  PROVE  /\ n \in Dirs \cup {Root} => (Copyable(n) <=> target[n] \in {"none", "dir"})
         /\ n \in Files => Copyable(n)
<1> USE DEF Copyable, Outcomes, Outcome, Fails
<1>1. CASE n \in Dirs \cup {Root}
  <2>1. n \notin Files  BY <1>1, InstallerAssumption
  <2>2. Copyable(n) <=> \E o \in DirOutcomes(n) : o.ok  BY <1>1
  <2>3. ASSUME target[n] \in {"none", "dir"} PROVE \E o \in DirOutcomes(n) : o.ok
    <3>1. Outcome(TRUE, "dir") \in DirOutcomes(n)  BY <2>3 DEF DirOutcomes
    <3> QED  BY <3>1
  <2>4. ASSUME NEW o \in DirOutcomes(n), o.ok PROVE target[n] \in {"none", "dir"}
    BY <2>4 DEF DirOutcomes
  <2> QED  BY <2>1, <2>2, <2>3, <2>4
<1>2. CASE n \in Files
  <2>1. n \notin Dirs \cup {Root}  BY <1>2, InstallerAssumption
  <2>2. \E o \in FileOutcomes(n) : o.ok
    <3>1. CASE IsFile(target[n]) \/ target[n] = "none"
      <4>1. Outcome(TRUE, "new") \in FileOutcomes(n)  BY <3>1 DEF FileOutcomes
      <4> QED  BY <4>1
    <3>2. CASE ~(IsFile(target[n]) \/ target[n] = "none")
      <4>1. Outcome(TRUE, target[n]) \in FileOutcomes(n)  BY <3>2 DEF FileOutcomes
      <4> QED  BY <4>1
    <3> QED  BY <3>1, <3>2
  <2> QED  BY <2>1, <2>2
<1> QED  BY <1>1, <1>2 DEF Entries

(* A step leaves at the place of a directory what was there, or a directory. *)
LEMMA PlaceOfDir ==
  ASSUME IInv, [Next]_vars, NEW n \in Dirs \cup {Root}
  PROVE  target'[n] \in {target[n], "dir"}
<1>1. target \in [Entries -> Contents] /\ n \in Entries  BY DEF IInv, TypeOK, Entries
<1>2. ASSUME NEW m \in Entries, NEW o, Record(m, o), m = n => o \in DirOutcomes(n)
      PROVE  target'[n] \in {target[n], "dir"}
  BY <1>1, <1>2 DEF Record, DirOutcomes, Fails, Outcome
<1>3. CASE CopyRoot  BY <1>2, <1>3 DEF CopyRoot, Entries
<1>4. ASSUME NEW m \in Entries, CopyDir(m) PROVE target'[n] \in {target[n], "dir"}
  BY <1>2, <1>4 DEF CopyDir
<1>5. ASSUME NEW m \in Entries, CopyOther(m) PROVE target'[n] \in {target[n], "dir"}
  <2>1. m # n  BY <1>5, EntryFacts DEF CopyOther
  <2> QED  BY <1>2, <1>5, <2>1 DEF CopyOther
<1>6. CASE UNCHANGED target  BY <1>6
<1> QED
  BY <1>3, <1>4, <1>5, <1>6 DEF Next, Start, PreCopy, Return, PostCopy, Killed, vars

(* No run, wherever it ends, takes a directory or a file from the runs     *)
(* after it, for every tree.  (copytree)                                   *)
THEOREM NextRunIsNotBlocked == Spec => NextRunNotBlocked
<1>1. TypeOK => \A n \in Entries \ Links :
        /\ n \in Dirs \cup {Root} => (Copyable(n) <=> target[n] \in {"none", "dir"})
        /\ n \in Files => Copyable(n)
  BY WhatIsCopyable
<1>2. IInv /\ [Next]_vars => \A n \in Dirs \cup {Root} : target'[n] \in {target[n], "dir"}
  BY PlaceOfDir
<1>3. TypeOK /\ (TypeOK)'
      /\ (\A n \in Entries \ Links :
            /\ n \in Dirs \cup {Root} => (Copyable(n) <=> target[n] \in {"none", "dir"})
            /\ n \in Files => Copyable(n))
      /\ (\A n \in Entries \ Links :
            /\ n \in Dirs \cup {Root} => (Copyable(n) <=> target[n] \in {"none", "dir"})
            /\ n \in Files => Copyable(n))'
      /\ (\A n \in Dirs \cup {Root} : target'[n] \in {target[n], "dir"})
      => \A n \in Entries \ Links : Copyable(n) => Copyable(n)'
  BY DEF Entries
<1> QED  BY <1>1, <1>2, <1>3, SpecInv, TypeCorrect, PTL DEF Spec, NextRunNotBlocked

------------------------------------------------------------------------------
(* An attempt to copy an entry is a step of TreeCopy.                      *)
LEMMA RecordIsStep ==
  ASSUME NEW n \in Entries, n \notin Tried, n = Root \/ Parent[n] \in copied,
         NEW o, Record(n, o), UNCHANGED report
  PROVE  Tree!Next
<1>1. n \in Tree!Reachable \ Tree!Tried
  BY DEF Tree!Reachable, Tree!Tried, Tried
<1>2. Tree!Copy(n) \/ Tree!Fail(n)
  BY <1>1 DEF Tree!Copy, Tree!Fail, Record
<1> QED  BY <1>2 DEF Tree!Next

(* The installer's copy does what TreeCopy promises: everything that does  *)
(* not lie below a failure is tried, and the report names every failure.   *)
(* (copytree)                                                              *)
THEOREM InstallerImplementsTreeCopy == Spec => ImplementsTreeCopy
<1>1. Init => Tree!Init  BY DEF Init, Tree!Init
<1>2. IInv /\ [Next]_vars => [Tree!Next]_(Tree!vars)
  <2> SUFFICES ASSUME IInv, [Next]_vars
               PROVE  Tree!Next \/ UNCHANGED Tree!vars
    OBVIOUS
  <2> USE DEF Tree!vars
  <2>1. ASSUME NEW b \in BOOLEAN, Start(b) PROVE Tree!Next
    BY <2>1 DEF Start, Tree!Next, Tree!Begin
  <2>2. ASSUME NEW b \in BOOLEAN, PreCopy(b) PROVE UNCHANGED Tree!vars
    BY <2>2 DEF PreCopy
  <2>3. CASE CopyRoot
    <3>1. PICK o \in DirOutcomes(Root) :
            /\ Record(Root, o)
            /\ IF o.ok THEN frames' = <<Frame(Root)>> /\ UNCHANGED <<phase, report>>
               ELSE Idle /\ report' = {Root}
      BY <2>3 DEF CopyRoot
    <3>2. Tried = {} /\ Root \in Entries
      BY <2>3 DEF CopyRoot, IInv, CopyInv, Entries
    <3>3. CASE o.ok
      BY <3>1, <3>2, <3>3, RecordIsStep
    <3>4. CASE ~o.ok
      <4>1. Tree!FailRoot
        BY <3>1, <3>2, <3>4 DEF Tree!FailRoot, Tree!Tried, Tried, Record
      <4> QED  BY <4>1 DEF Tree!Next
    <3> QED  BY <3>3, <3>4
  <2>4. ASSUME NEW n \in Entries, CopyDir(n) \/ CopyOther(n) PROVE Tree!Next
    <3>1. Entry(n) /\ UNCHANGED report  BY <2>4 DEF CopyDir, CopyOther
    <3>2. PICK o : Record(n, o)  BY <2>4 DEF CopyDir, CopyOther
    <3>3. n \notin Tried /\ Parent[n] \in copied  BY <3>1, EntryFacts
    <3> QED  BY <3>1, <3>2, <3>3, RecordIsStep
  <2>5. CASE Return
    <3>1. CASE SubSeq(frames, 1, Depth - 1) # <<>>
      BY <2>5, <3>1 DEF Return
    <3>2. CASE SubSeq(frames, 1, Depth - 1) = <<>>
      <4>1. report' = failed /\ UNCHANGED <<copied, failed>>
        BY <2>5, <3>2, LastReturn DEF Return
      <4>2. Tree!Reachable \subseteq Tree!Tried
        BY <2>5, <3>2, LastReturn DEF Tree!Reachable, Tree!Tried, Tried
      <4> QED  BY <4>1, <4>2 DEF Tree!Next, Tree!End
    <3> QED  BY <3>1, <3>2
  <2>6. CASE PostCopy  BY <2>6 DEF PostCopy
  <2>7. CASE Killed  BY <2>7 DEF Killed
  <2>8. CASE UNCHANGED vars  BY <2>8 DEF vars
  <2> QED  BY <2>1, <2>2, <2>3, <2>4, <2>5, <2>6, <2>7, <2>8 DEF Next
<1> QED  BY <1>1, <1>2, SpecInv, PTL DEF Spec, ImplementsTreeCopy, Tree!Spec
===============================================================================
