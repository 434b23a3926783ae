---------------------------- MODULE Ratchet_proofs ----------------------------
(***************************************************************************)
(* Proofs about Ratchet, for any texts, numbers of rounds and of starts.   *)
(***************************************************************************)
EXTENDS Ratchet, SequenceTheorems, TLAPS

(* The parts of the inductive invariant.  A party counts the messages it   *)
(* has stored: no message it accepts is undecodable.                       *)
Counted == \A p \in Parties : party[p].received_ctr = Len(party[p].received)

(* A state in which nothing was read has the element of the key files.     *)
Original(s) == s.received = <<>> => s.element = FileElement(Alice)

(* Alice has answered what she has read, but for the message she is about  *)
(* to answer.                                                              *)
Answered ==
  LET a == party[Alice] IN
    /\ Original(a)
    /\ server \in {"listen", "wait", "break", "write"} => Len(a.signed) = Len(a.received)
    /\ server = "reply" => Len(a.received) = Len(a.signed) + 1

FileAnswered == \A i \in DOMAIN file : /\ Original(file[i])
                                       /\ Len(file[i].signed) = Len(file[i].received)
                                       /\ file[i].received_ctr = Len(file[i].received)

OpenWhileBoth == open <=> (server \in {"wait", "reply"} /\ client # "down")

BobCounts == Len(party[Bob].signed) = Len(said[Bob])

(* Alice has no message of an earlier conversation. *)
InStep == Len(party[Alice].received) = Len(heard[Alice])

(* The message under way to Bob is the answer he waits for. *)
ToBob ==
  LET m == wire[Bob][1] IN
    wire[Bob] # <<>> =>
      /\ Len(wire[Bob]) = 1 /\ client # "send"
      /\ Len(said[Alice]) = Len(heard[Bob]) + 1
      /\ m.data.text = said[Alice][Len(said[Alice])]
      /\ m.data.key = {m.data.element, party[Bob].element}
      /\ server = "wait" => m.data.element = party[Alice].element

(* The message under way to Alice is the last one Bob has sent; its        *)
(* signature covers the messages of this connection only.                  *)
ToAlice ==
  LET m == wire[Alice][1] IN
    (wire[Alice] # <<>> /\ server = "wait") =>
      /\ Len(wire[Alice]) = 1 /\ client # "send" /\ wire[Bob] = <<>>
      /\ Len(said[Bob]) = Len(heard[Alice]) + 1
      /\ Len(said[Alice]) = Len(heard[Bob])
      /\ m.data.text = said[Bob][Len(said[Bob])]
      /\ Len(m.signature) = Len(said[Bob])
      /\ m.data.element = party[Bob].element
      /\ InStep => m.data.key = {m.data.element, party[Alice].element}

(* Whose turn it is, and what the two know of each other then. *)
Turns ==
  /\ (server = "wait" /\ wire[Alice] = <<>>) => Len(said[Bob]) = Len(heard[Alice])
  /\ (server = "wait" /\ heard[Alice] # <<>>) => InStep
  /\ (server = "wait" /\ client = "send") =>
        /\ wire[Alice] = <<>> /\ wire[Bob] = <<>>
        /\ Len(said[Alice]) = Len(heard[Bob])
        /\ InStep => party[Bob].remote = party[Alice].element
  /\ server = "reply" =>
        /\ wire[Alice] = <<>> /\ wire[Bob] = <<>>
        /\ client # "send" /\ InStep
        /\ Len(said[Bob]) = Len(heard[Alice])
        /\ Len(said[Alice]) = Len(heard[Bob])
        /\ party[Alice].remote = party[Bob].element

RInv == TypeOK /\ Counted /\ Answered /\ FileAnswered /\ OpenWhileBoth /\ BobCounts
        /\ ToBob /\ ToAlice /\ Turns

------------------------------------------------------------------------------
(* Parties *)

LEMMA PartiesFacts ==
  /\ Alice \in Parties /\ Bob \in Parties /\ Alice # Bob
  /\ Peer(Alice) = Bob /\ Peer(Bob) = Alice
  /\ \A p \in Parties : p = Alice \/ p = Bob
  /\ \A p \in Parties : Peer(p) \in Parties
  BY DEF Alice, Bob, Parties, Peer

LEMMA PartyFields ==
  ASSUME TypeOK, NEW p \in Parties
  PROVE  /\ party[p] \in PartyStates
         /\ party[p].element \in Elements /\ party[p].remote \in Elements
         /\ party[p].version \in 1..MaxVersion + 1
         /\ party[p].signed \in Seq(SignedDatas)
         /\ party[p].received \in Seq(SignedDatas)
         /\ party[p].received_ctr \in Nat
  BY DEF TypeOK, PartyStates

LEMMA FreshParty ==
  ASSUME NEW p \in Parties
  PROVE  /\ Fresh(p) \in PartyStates
         /\ Fresh(p).element = FileElement(p) /\ Fresh(p).remote = FileElement(Peer(p))
         /\ Fresh(p).signed = <<>> /\ Fresh(p).received = <<>>
         /\ Fresh(p).received_ctr = 0
<1>1. FileElement(p) \in Elements /\ FileElement(Peer(p)) \in Elements
  BY PartiesFacts, RatchetAssumption DEF FileElement, Element, Elements
<1>2. 1 \in 1..MaxVersion + 1
  BY RatchetAssumption
<1>3. QED
  BY <1>1, <1>2 DEF Fresh, PartyStates

LEMMA NewElementType ==
  ASSUME TypeOK, NEW p \in Parties
  PROVE  NewElement(p) \in Elements
<1>1. party[p].version \in 0..MaxVersion + 1
  BY PartyFields, RatchetAssumption
<1>2. QED
  BY <1>1 DEF TypeOK, NewElement, Element, Elements

(* A message that is signed *)
LEMMA SentParty ==
  ASSUME TypeOK, NEW p \in Parties, NEW t \in Texts \cup Answers, Signs(p)
  PROVE  /\ Sent(p, t) \in PartyStates
         /\ Sent(p, t).element = NewElement(p)
         /\ Sent(p, t).remote = party[p].remote
         /\ Len(Sent(p, t).signed) = Len(party[p].signed) + 1
         /\ Sent(p, t).received = party[p].received
         /\ Sent(p, t).received_ctr = party[p].received_ctr
         /\ Message(p, t) \in Messages
         /\ Message(p, t).data.element = NewElement(p)
         /\ Message(p, t).data.key = {NewElement(p), party[p].remote}
         /\ Message(p, t).data.text = t
         /\ Message(p, t).signature = Sent(p, t).signed
<1> DEFINE d == SignedData(p, t)
<1>1. /\ d \in SignedDatas
      /\ d.element = NewElement(p) /\ d.key = {NewElement(p), party[p].remote} /\ d.text = t
  BY NewElementType, PartyFields DEF SignedData, SignedDatas
<1>2. party[p].version + 1 \in 1..MaxVersion + 1
  BY PartyFields, RatchetAssumption DEF Signs
<1> HIDE DEF d
<1>3. Append(party[p].signed, d) \in Seq(SignedDatas)
      /\ Len(Append(party[p].signed, d)) = Len(party[p].signed) + 1
  BY <1>1, PartyFields
<1>4. /\ Sent(p, t) = [party[p] EXCEPT !.element = NewElement(p),
                                       !.signed = Append(party[p].signed, d),
                                       !.version = party[p].version + 1]
      /\ Message(p, t) = [data |-> d, signature |-> Sent(p, t).signed]
  BY DEF Sent, Message, d
<1>5. /\ Sent(p, t) \in PartyStates
      /\ Sent(p, t).element = NewElement(p)
      /\ Sent(p, t).remote = party[p].remote
      /\ Sent(p, t).signed = Append(party[p].signed, d)
      /\ Sent(p, t).received = party[p].received
      /\ Sent(p, t).received_ctr = party[p].received_ctr
  <2>1. party[p] \in PartyStates /\ NewElement(p) \in Elements
    BY PartyFields, NewElementType
  <2> QED  BY <1>2, <1>3, <1>4, <2>1 DEF PartyStates
<1>6. Message(p, t) \in Messages
  BY <1>1, <1>3, <1>4, <1>5 DEF Messages
<1>7. QED
  BY <1>1, <1>3, <1>4, <1>5, <1>6

(* A party whose key has expired *)
LEMMA ExpiredParty ==
  ASSUME TypeOK, NEW p \in Parties
  PROVE  LET s == [party[p] EXCEPT !.element = NewElement(p)] IN
           /\ s \in PartyStates
           /\ s.signed = party[p].signed /\ s.received = party[p].received
           /\ s.received_ctr = party[p].received_ctr
  BY PartyFields, NewElementType DEF PartyStates

LEMMA CollectedAll ==
  ASSUME TypeOK, Counted, NEW p \in Parties, NEW m \in Messages
  PROVE  Collected(p, m) = Append(party[p].received, m.data)
<1>1. SubSeq(party[p].received, 1, party[p].received_ctr) = party[p].received
  BY PartyFields DEF Counted
<1>2. QED
  BY <1>1 DEF Collected

(* A message that is read *)
LEMMA ReadParty ==
  ASSUME TypeOK, Counted, NEW p \in Parties, NEW m \in Messages, NEW t, t # Undecodable
  PROVE  /\ Read(p, m, t) \in PartyStates
         /\ Read(p, m, t).element = party[p].element
         /\ Read(p, m, t).remote = m.data.element
         /\ Read(p, m, t).signed = party[p].signed
         /\ Len(Read(p, m, t).received) = Len(party[p].received) + 1
         /\ Read(p, m, t).received_ctr = party[p].received_ctr + 1
<1>2. Collected(p, m) = Append(party[p].received, m.data)
  BY CollectedAll
<1>3. m.data \in SignedDatas /\ m.data.element \in Elements
  BY DEF Messages, SignedDatas
<1>4. Append(party[p].received, m.data) \in Seq(SignedDatas)
      /\ Len(Append(party[p].received, m.data)) = Len(party[p].received) + 1
  BY <1>3, PartyFields
<1>5. Read(p, m, t) = [party[p] EXCEPT !.received = Append(party[p].received, m.data),
                                       !.remote = m.data.element,
                                       !.received_ctr = party[p].received_ctr + 1]
  BY <1>2 DEF Read
<1> DEFINE r == Append(party[p].received, m.data)
<1> HIDE DEF r
<1>6. /\ Read(p, m, t) \in PartyStates
      /\ Read(p, m, t).element = party[p].element
      /\ Read(p, m, t).remote = m.data.element
      /\ Read(p, m, t).signed = party[p].signed
      /\ Read(p, m, t).received = r
      /\ Read(p, m, t).received_ctr = party[p].received_ctr + 1
  <2>1. r \in Seq(SignedDatas) /\ party[p].received_ctr + 1 \in Nat
    BY <1>4, PartyFields DEF r
  <2>2. Read(p, m, t) = [party[p] EXCEPT !.received = r,
                                         !.remote = m.data.element,
                                         !.received_ctr = party[p].received_ctr + 1]
    BY <1>5 DEF r
  <2>3. QED
    BY <1>3, <2>1, <2>2, PartyFields DEF PartyStates
<1>7. QED
  BY <1>2, <1>4, <1>6 DEF r

(* A message whose key the receiver can make is read or refused. *)
LEMMA OutcomesOfKey ==
  ASSUME NEW p \in Parties, wire[p][1].data.key = {wire[p][1].data.element, party[p].element},
         wire[p][1].data.text \in Texts \cup Answers,
         NEW t \in Outcomes(p)
  PROVE  /\ t # Undecodable
         /\ t # Rejected => t = wire[p][1].data.text /\ Verifies(p, wire[p][1])
         /\ Raises(t) <=> t = Rejected
  BY RatchetAssumption DEF Outcomes, Plain, Raises, Rejected, Undecodable, Garbage
------------------------------------------------------------------------------
(* Steps that send and read nothing *)

LEMMA SeesCloseKeeps ==
  ASSUME RInv, ServerSeesClose
  PROVE  RInv'
<1> USE DEF RInv, Alice, Bob
<1>1. TypeOK'
  BY DEF TypeOK, ServerSeesClose, ServerPhases, ClientPhases
<1>2. Counted' /\ Answered' /\ FileAnswered' /\ OpenWhileBoth' /\ BobCounts'
  BY DEF Counted, Answered, FileAnswered, OpenWhileBoth, BobCounts, ServerSeesClose
<1>3. ToBob' /\ ToAlice' /\ Turns'
  BY DEF ToBob, ToAlice, Turns, InStep, OpenWhileBoth, ServerSeesClose
<1>4. QED
  BY <1>1, <1>2, <1>3

LEMMA ServerKilledKeeps ==
  ASSUME RInv, ServerKilled
  PROVE  RInv'
<1> USE DEF RInv, Alice, Bob
<1>1. TypeOK'
  BY DEF TypeOK, ServerKilled, ServerPhases, ClientPhases
<1>2. Counted' /\ Answered' /\ FileAnswered' /\ OpenWhileBoth' /\ BobCounts'
  BY DEF Counted, Answered, FileAnswered, OpenWhileBoth, BobCounts, ServerKilled
<1>3. ToBob' /\ ToAlice' /\ Turns'
  BY DEF ToBob, ToAlice, Turns, InStep, OpenWhileBoth, ServerKilled
<1>4. QED
  BY <1>1, <1>2, <1>3

LEMMA ClientSeesCloseKeeps ==
  ASSUME RInv, ClientSeesClose
  PROVE  RInv'
<1> USE DEF RInv, Alice, Bob
<1>1. TypeOK'
  BY DEF TypeOK, ClientSeesClose, ServerPhases, ClientPhases
<1>2. Counted' /\ Answered' /\ FileAnswered' /\ OpenWhileBoth' /\ BobCounts'
  BY DEF Counted, Answered, FileAnswered, OpenWhileBoth, BobCounts, ClientSeesClose
<1>3. ToBob' /\ ToAlice' /\ Turns'
  BY DEF ToBob, ToAlice, Turns, InStep, OpenWhileBoth, ClientSeesClose
<1>4. QED
  BY <1>1, <1>2, <1>3

LEMMA ClientKilledKeeps ==
  ASSUME RInv, ClientKilled
  PROVE  RInv'
<1> USE DEF RInv, Alice, Bob
<1>1. TypeOK'
  BY DEF TypeOK, ClientKilled, ServerPhases, ClientPhases
<1>2. Counted' /\ Answered' /\ FileAnswered' /\ OpenWhileBoth' /\ BobCounts'
  BY DEF Counted, Answered, FileAnswered, OpenWhileBoth, BobCounts, ClientKilled
<1>3. ToBob' /\ ToAlice' /\ Turns'
  BY DEF ToBob, ToAlice, Turns, InStep, OpenWhileBoth, ClientKilled
<1>4. QED
  BY <1>1, <1>2, <1>3

LEMMA TruncateKeeps ==
  ASSUME RInv, Truncate
  PROVE  RInv'
<1> USE DEF RInv, Alice, Bob
<1>1. file' = file \/ file' = <<>>
  BY DEF Truncate, NoState
<1>2. TypeOK'
  <2>1. file' \in Seq(PartyStates) /\ Len(file') <= 1
    <3>1. <<>> \in Seq(PartyStates) /\ Len(<<>>) = 0
      OBVIOUS
    <3>2. file \in Seq(PartyStates) /\ Len(file) <= 1
      BY DEF TypeOK
    <3>3. CASE file' = file
      BY <3>2, <3>3
    <3>4. CASE file' = <<>>
      BY <3>1, <3>4
    <3>5. QED
      BY <1>1, <3>3, <3>4
  <2>2. server' \in ServerPhases
    BY DEF Truncate, ServerPhases
  <2>3. QED
    BY <2>1, <2>2 DEF TypeOK, Truncate
<1>3. Counted' /\ Answered' /\ FileAnswered' /\ OpenWhileBoth' /\ BobCounts'
  BY <1>1 DEF Counted, Answered, FileAnswered, OpenWhileBoth, BobCounts, Truncate
<1>4. ToBob' /\ ToAlice' /\ Turns'
  BY DEF ToBob, ToAlice, Turns, InStep, Truncate
<1>5. QED
  BY <1>2, <1>3, <1>4

LEMMA WriteKeeps ==
  ASSUME RInv, Write
  PROVE  RInv'
<1> USE DEF RInv
<1>1. party[Alice] \in PartyStates
  BY PartyFields, PartiesFacts
<1>2. file' = <<party[Alice]>> /\ party' = party /\ server = "write" /\ server' = "down"
  BY DEF Write
<1>3. file' \in Seq(PartyStates) /\ Len(file') = 1 /\ DOMAIN file' = {1} /\ file'[1] = party[Alice]
  BY <1>1, <1>2
<1>4. TypeOK'
  BY <1>3 DEF TypeOK, Write, ServerPhases, ClientPhases
<1>5. Original(party[Alice]) => Original(file'[1])
  BY <1>3 DEF Original
<1>6. FileAnswered'
  BY <1>2, <1>3, <1>5, PartiesFacts DEF FileAnswered, Answered, Counted, Original, FileElement, Element
<1>7. Counted' /\ Answered' /\ OpenWhileBoth' /\ BobCounts'
  BY DEF Counted, Answered, OpenWhileBoth, BobCounts, Write, Original, FileElement, Element
<1>8. ToBob' /\ ToAlice' /\ Turns'
  BY DEF ToBob, ToAlice, Turns, InStep, Write
<1>9. QED
  BY <1>4, <1>6, <1>7, <1>8

LEMMA ConnectKeeps ==
  ASSUME RInv, Connect
  PROVE  RInv'
<1> USE DEF RInv
<1>1. /\ party'[Bob] = Fresh(Bob) /\ party'[Alice] = party[Alice]
      /\ party' \in [Parties -> PartyStates]
  BY FreshParty, PartiesFacts DEF Connect, TypeOK
<1>2. /\ wire'[Alice] = <<>> /\ wire'[Bob] = <<>> /\ wire' \in [Parties -> Seq(Messages)]
      /\ \A p \in Parties : said'[p] = <<>> /\ heard'[p] = <<>>
      /\ said' \in [Parties -> Seq(Texts \cup Answers)]
      /\ heard' \in [Parties -> Seq(Texts \cup Answers)]
  BY PartiesFacts DEF Connect, NoWire, Silence
<1>3. TypeOK'
  BY <1>1, <1>2 DEF TypeOK, Connect, ServerPhases, ClientPhases
<1>4. Counted'
  BY <1>1, FreshParty, PartiesFacts DEF Counted
<1>5. Answered' /\ FileAnswered' /\ OpenWhileBoth'
  BY <1>1 DEF Answered, FileAnswered, OpenWhileBoth, Connect, Original, FileElement, Element
<1>6. BobCounts'
  BY <1>1, <1>2, FreshParty, PartiesFacts DEF BobCounts
<1>7. ToBob' /\ ToAlice'
  BY <1>2 DEF ToBob, ToAlice
<1>8. Turns'
  <2>1. InStep' => party'[Bob].remote = party'[Alice].element
    <3>1. SUFFICES ASSUME InStep' PROVE party'[Bob].remote = party'[Alice].element
      OBVIOUS
    <3>2. Len(party[Alice].received) = 0
      BY <1>1, <1>2, <3>1, PartiesFacts DEF InStep
    <3>3. party[Alice].received = <<>>
      BY <3>2, PartyFields, PartiesFacts
    <3>4. QED
      BY <1>1, <3>3, FreshParty, PartiesFacts DEF Answered, Original
  <2>2. server' = "wait"
    BY DEF Connect
  <2>3. QED
    BY <1>2, <2>1, <2>2, PartiesFacts DEF Turns
<1>9. QED
  BY <1>3, <1>4, <1>5, <1>6, <1>7, <1>8

LEMMA StartServerKeeps ==
  ASSUME RInv, NEW i \in BOOLEAN, StartServer(i)
  PROVE  RInv'
<1> USE DEF RInv
<1> DEFINE s == IF i THEN Fresh(Alice) ELSE Head(file)
<1>1. /\ s \in PartyStates /\ Original(s)
      /\ Len(s.signed) = Len(s.received) /\ s.received_ctr = Len(s.received)
  <2>1. CASE i
    BY <2>1, FreshParty, PartiesFacts DEF Original
  <2>2. CASE ~i
    <3>1. file # <<>> /\ file \in Seq(PartyStates)
      BY <2>2 DEF StartServer, HasState, NoState, TypeOK
    <3>2. Head(file) = file[1] /\ 1 \in DOMAIN file /\ file[1] \in PartyStates
      BY <3>1
    <3>3. QED
      BY <2>2, <3>2 DEF FileAnswered
  <2>3. QED
    BY <2>1, <2>2
<1>2. party' = [party EXCEPT ![Alice] = s]
  BY DEF StartServer
<1> HIDE DEF s
<1>3. party'[Alice] = s /\ party'[Bob] = party[Bob]
  BY <1>2, PartiesFacts DEF TypeOK
<1>4. TypeOK'
  <2>1. party' \in [Parties -> PartyStates]
    BY <1>1, <1>2 DEF TypeOK
  <2>2. starts' \in 0..MaxStarts
    BY RatchetAssumption DEF StartServer, TypeOK
  <2>3. QED
    BY <2>1, <2>2 DEF TypeOK, StartServer, ServerPhases
<1>5. Counted'
  BY <1>1, <1>3, PartiesFacts DEF Counted
<1>6. Answered' /\ BobCounts'
  BY <1>1, <1>3 DEF Answered, BobCounts, StartServer, Original, FileElement, Element
<1>7. FileAnswered' /\ OpenWhileBoth'
  BY DEF FileAnswered, OpenWhileBoth, StartServer, Original, FileElement, Element
<1>8. ToBob' /\ ToAlice' /\ Turns'
  BY <1>3 DEF ToBob, ToAlice, Turns, StartServer
<1>9. QED
  BY <1>4, <1>5, <1>6, <1>7, <1>8

------------------------------------------------------------------------------
(* Sending *)

LEMMA SendKeepsTypes ==
  ASSUME TypeOK, NEW p \in Parties, NEW t \in Texts \cup Answers,
         NEW phase, NEW after, Send(p, t, phase, after)
  PROVE  /\ party' \in [Parties -> PartyStates]
         /\ wire' \in [Parties -> Seq(Messages)]
         /\ said' \in [Parties -> Seq(Texts \cup Answers)]
         /\ \A q \in Parties \ {p} : party'[q] = party[q] /\ said'[q] = said[q]
         /\ wire'[p] = wire[p]
         /\ phase \in {after, "down"}
<1>1. Peer(p) \in Parties /\ Peer(p) # p
  BY PartiesFacts
<1>2. CASE Signs(p)
  <2>1. /\ party' = [party EXCEPT ![p] = Sent(p, t)]
        /\ said' = [said EXCEPT ![p] = Append(@, t)]
        /\ wire' = IF open THEN [wire EXCEPT ![Peer(p)] = Append(@, Message(p, t))]
                   ELSE wire
        /\ phase \in IF open THEN {after} ELSE {after, "down"}
    BY <1>2 DEF Send
  <2>2. Sent(p, t) \in PartyStates /\ Message(p, t) \in Messages
    BY <1>2, SentParty
  <2>3. party' \in [Parties -> PartyStates] /\ \A q \in Parties \ {p} : party'[q] = party[q]
    BY <2>1, <2>2 DEF TypeOK
  <2>4. Append(wire[Peer(p)], Message(p, t)) \in Seq(Messages)
    BY <1>1, <2>2 DEF TypeOK
  <2>5. wire' \in [Parties -> Seq(Messages)] /\ wire'[p] = wire[p]
    BY <1>1, <2>1, <2>4 DEF TypeOK
  <2>6. Append(said[p], t) \in Seq(Texts \cup Answers)
    BY DEF TypeOK
  <2>7. said' \in [Parties -> Seq(Texts \cup Answers)]
        /\ \A q \in Parties \ {p} : said'[q] = said[q]
    BY <2>1, <2>6 DEF TypeOK
  <2>8. QED
    BY <2>1, <2>3, <2>5, <2>7
<1>3. CASE ~Signs(p)
  <2> DEFINE s == [party[p] EXCEPT !.element = NewElement(p)]
  <2>1. s \in PartyStates
    BY ExpiredParty
  <2>2. party' = [party EXCEPT ![p] = s]
    BY <1>3 DEF Send
  <2> HIDE DEF s
  <2>3. QED
    BY <1>3, <2>1, <2>2 DEF Send, TypeOK
<1>4. QED
  BY <1>2, <1>3

(* What the two parties are after p has sent t. *)
LEMMA SendEffect ==
  ASSUME TypeOK, NEW p \in Parties, NEW t \in Texts \cup Answers,
         NEW phase, NEW after, after # "down", Send(p, t, phase, after)
  PROVE  /\ party'[p].element = NewElement(p)
         /\ party'[p].received = party[p].received
         /\ party'[p].received_ctr = party[p].received_ctr
         /\ \/ /\ Signs(p)
               /\ Len(party'[p].signed) = Len(party[p].signed) + 1
               /\ said'[p] = Append(said[p], t)
               /\ open => /\ wire'[Peer(p)] = Append(wire[Peer(p)], Message(p, t))
                          /\ phase = after
            \/ /\ phase = "down" /\ wire' = wire /\ said' = said
               /\ party'[p].signed = party[p].signed
         /\ ~open => wire' = wire
<1>1. Peer(p) \in Parties
  BY PartiesFacts
<1>2. CASE Signs(p)
  <2>1. party'[p] = Sent(p, t)
    BY <1>2 DEF Send, TypeOK
  <2>2. /\ said'[p] = Append(said[p], t)
        /\ open => /\ wire'[Peer(p)] = Append(wire[Peer(p)], Message(p, t))
                   /\ phase = after
        /\ ~open => wire' = wire
    BY <1>1, <1>2 DEF Send, TypeOK
  <2>3. QED
    BY <1>2, <2>1, <2>2, SentParty
<1>3. CASE ~Signs(p)
  <2> DEFINE s == [party[p] EXCEPT !.element = NewElement(p)]
  <2>1. /\ s.signed = party[p].signed /\ s.received = party[p].received
        /\ s.received_ctr = party[p].received_ctr /\ s.element = NewElement(p)
    BY ExpiredParty, PartyFields DEF PartyStates
  <2>2. party'[p] = s
    BY <1>3 DEF Send, TypeOK
  <2>3. phase = "down" /\ wire' = wire /\ said' = said
    BY <1>3 DEF Send
  <2> HIDE DEF s
  <2>4. QED
    BY <2>1, <2>2, <2>3
<1>4. QED
  BY <1>2, <1>3

(* A text that was appended, and a message alone on the wire *)
LEMMA Appended ==
  ASSUME NEW S, NEW u \in Seq(S), NEW e \in S
  PROVE  /\ Len(Append(u, e)) = Len(u) + 1 /\ Append(u, e)[Len(u) + 1] = e
         /\ Append(u, e) # <<>>
         /\ u = <<>> => Append(u, e)[1] = e /\ Len(Append(u, e)) = 1
  OBVIOUS

LEMMA ClientSendKeeps ==
  ASSUME RInv, ClientSend
  PROVE  RInv'
<1> USE DEF RInv
<1>1. PICK t \in Texts : Send(Bob, t, client', "wait")
  BY DEF ClientSend
<1>2. /\ client = "send" /\ open' = (open /\ client' # "down")
      /\ UNCHANGED <<server, init, file, starts, heard>>
  BY DEF ClientSend
<1>3. /\ party' \in [Parties -> PartyStates]
      /\ wire' \in [Parties -> Seq(Messages)]
      /\ said' \in [Parties -> Seq(Texts \cup Answers)]
      /\ party'[Alice] = party[Alice] /\ said'[Alice] = said[Alice]
      /\ wire'[Bob] = wire[Bob]
      /\ client' \in {"wait", "down"}
  BY <1>1, SendKeepsTypes, PartiesFacts
<1>4. /\ party'[Bob].element = NewElement(Bob)
      /\ party'[Bob].received = party[Bob].received
      /\ party'[Bob].received_ctr = party[Bob].received_ctr
      /\ \/ /\ Signs(Bob)
            /\ Len(party'[Bob].signed) = Len(party[Bob].signed) + 1
            /\ said'[Bob] = Append(said[Bob], t)
            /\ open => /\ wire'[Alice] = Append(wire[Alice], Message(Bob, t))
                       /\ client' = "wait"
         \/ /\ client' = "down" /\ wire' = wire /\ said' = said
            /\ party'[Bob].signed = party[Bob].signed
      /\ ~open => wire' = wire
  BY <1>1, SendEffect, PartiesFacts
<1>5. /\ said[Bob] \in Seq(Texts \cup Answers) /\ t \in Texts \cup Answers
      /\ heard[Alice] \in Seq(Texts \cup Answers)
      /\ heard[Bob] \in Seq(Texts \cup Answers)
      /\ wire[Alice] \in Seq(Messages) /\ wire[Bob] \in Seq(Messages)
  BY PartiesFacts DEF TypeOK
<1>6. TypeOK'
  BY <1>2, <1>3 DEF TypeOK, ClientPhases
<1>7. Counted'
  <2>1. party'[Bob].received_ctr = Len(party'[Bob].received)
    BY <1>4, PartiesFacts DEF Counted
  <2>2. party'[Alice].received_ctr = Len(party'[Alice].received)
    BY <1>3, PartiesFacts DEF Counted
  <2>3. QED
    BY <2>1, <2>2, PartiesFacts DEF Counted
<1>8. Answered' /\ FileAnswered'
  BY <1>2, <1>3 DEF Answered, FileAnswered, Original, FileElement, Element
<1>9. OpenWhileBoth'
  BY <1>2, <1>3 DEF OpenWhileBoth
<1>10. BobCounts'
  BY <1>4, <1>5, Appended DEF BobCounts
<1>11. wire[Bob] = <<>> /\ wire'[Bob] = <<>>
  BY <1>2, <1>3 DEF ToBob
<1>12. ToBob'
  BY <1>11 DEF ToBob
<1>13. server # "reply"
  BY <1>2 DEF Turns
<1>14. server = "wait" => open /\ wire[Alice] = <<>>
  BY <1>2 DEF OpenWhileBoth, Turns
<1>15. ToAlice' /\ Turns'
  <2>1. CASE server # "wait"
    BY <1>2, <1>13, <2>1 DEF ToAlice, Turns
  <2>2. CASE server = "wait" /\ client' = "down" /\ wire' = wire /\ said' = said
    BY <1>2, <1>3, <1>11, <1>13, <1>14, <2>2 DEF ToAlice, Turns, InStep
  <2>3. CASE /\ server = "wait" /\ Signs(Bob) /\ said'[Bob] = Append(said[Bob], t)
             /\ Len(party'[Bob].signed) = Len(party[Bob].signed) + 1
             /\ wire'[Alice] = Append(wire[Alice], Message(Bob, t)) /\ client' = "wait"
    <3> DEFINE m == Message(Bob, t)
    <3>1. /\ m \in Messages /\ m.data.element = NewElement(Bob)
          /\ m.data.key = {NewElement(Bob), party[Bob].remote} /\ m.data.text = t
          /\ Len(m.signature) = Len(party[Bob].signed) + 1
      <4>1. TypeOK /\ Bob \in Parties /\ Signs(Bob)
        BY <2>3, PartiesFacts
      <4>2. /\ Message(Bob, t) \in Messages /\ Message(Bob, t).data.element = NewElement(Bob)
            /\ Message(Bob, t).data.key = {NewElement(Bob), party[Bob].remote}
            /\ Message(Bob, t).data.text = t
            /\ Message(Bob, t).signature = Sent(Bob, t).signed
            /\ Len(Sent(Bob, t).signed) = Len(party[Bob].signed) + 1
        <5> HIDE DEF RInv
        <5>1. QED
          BY <1>5, <4>1, SentParty, Zenon
      <4>3. QED
        BY <4>2
    <3>2. /\ wire'[Alice][1] = m /\ Len(wire'[Alice]) = 1 /\ wire'[Alice] # <<>>
      <4>1. wire[Alice] = <<>> /\ wire[Alice] \in Seq(Messages)
        BY <1>5, <1>14, <2>3
      <4>2. wire'[Alice] = Append(wire[Alice], m)  BY <2>3
      <4> HIDE DEF m
      <4>3. QED
        BY <3>1, <4>1, <4>2, Appended
    <3> HIDE DEF m
    <3>3. Len(said'[Bob]) = Len(said[Bob]) + 1 /\ said'[Bob][Len(said'[Bob])] = t
      BY <1>5, <2>3, Appended
    <3>4. Len(said[Bob]) = Len(heard[Alice]) /\ Len(said[Alice]) = Len(heard[Bob])
          /\ (InStep => party[Bob].remote = party[Alice].element)
      BY <1>2, <1>14, <2>3 DEF Turns
    <3>5. InStep' <=> InStep
      BY <1>2, <1>3 DEF InStep
    <3>6. ToAlice'
      BY <1>2, <1>3, <1>4, <1>11, <2>3, <3>1, <3>2, <3>3, <3>4, <3>5 DEF ToAlice, BobCounts
    <3>7. Turns'
      BY <1>2, <2>3, <3>2, <3>5 DEF Turns
    <3>8. QED
      BY <3>6, <3>7
  <2>4. QED
    BY <1>4, <1>14, <2>1, <2>2, <2>3
<1>16. QED
  BY <1>6, <1>7, <1>8, <1>9, <1>10, <1>12, <1>15

LEMMA ServerReplyKeeps ==
  ASSUME RInv, ServerReply
  PROVE  RInv'
<1> USE DEF RInv
<1>1. PICK t \in Answers : Send(Alice, t, server', "wait")
  BY DEF ServerReply
<1>2. /\ server = "reply" /\ open' = (open /\ server' # "down")
      /\ UNCHANGED <<client, init, file, starts, heard>>
  BY DEF ServerReply
<1>3. /\ party' \in [Parties -> PartyStates]
      /\ wire' \in [Parties -> Seq(Messages)]
      /\ said' \in [Parties -> Seq(Texts \cup Answers)]
      /\ party'[Bob] = party[Bob] /\ said'[Bob] = said[Bob]
      /\ wire'[Alice] = wire[Alice]
      /\ server' \in {"wait", "down"}
  BY <1>1, SendKeepsTypes, PartiesFacts
<1>4. /\ party'[Alice].element = NewElement(Alice)
      /\ party'[Alice].received = party[Alice].received
      /\ party'[Alice].received_ctr = party[Alice].received_ctr
      /\ \/ /\ Signs(Alice)
            /\ Len(party'[Alice].signed) = Len(party[Alice].signed) + 1
            /\ said'[Alice] = Append(said[Alice], t)
            /\ open => /\ wire'[Bob] = Append(wire[Bob], Message(Alice, t))
                       /\ server' = "wait"
         \/ /\ server' = "down" /\ wire' = wire /\ said' = said
            /\ party'[Alice].signed = party[Alice].signed
      /\ ~open => wire' = wire
  BY <1>1, SendEffect, PartiesFacts
<1>5. /\ said[Alice] \in Seq(Texts \cup Answers) /\ t \in Texts \cup Answers
      /\ wire[Bob] \in Seq(Messages) /\ party[Alice].signed \in Seq(SignedDatas)
      /\ party[Alice].received \in Seq(SignedDatas)
  BY PartiesFacts, PartyFields DEF TypeOK
<1>6. /\ wire[Alice] = <<>> /\ wire[Bob] = <<>> /\ client # "send" /\ InStep
      /\ Len(said[Bob]) = Len(heard[Alice]) /\ Len(said[Alice]) = Len(heard[Bob])
      /\ party[Alice].remote = party[Bob].element
      /\ Len(party[Alice].received) = Len(party[Alice].signed) + 1
  BY <1>2 DEF Turns, Answered
<1>7. TypeOK'
  BY <1>2, <1>3 DEF TypeOK, ServerPhases
<1>8. Counted'
  BY <1>3, <1>4, PartiesFacts DEF Counted
<1>9. Answered'
  <2>1. party'[Alice].received # <<>>
    BY <1>4, <1>5, <1>6
  <2>2. server' = "wait" => Len(party'[Alice].signed) = Len(party'[Alice].received)
    BY <1>4, <1>6
  <2>3. QED
    BY <1>3, <2>1, <2>2 DEF Answered, Original
<1>10. FileAnswered' /\ BobCounts'
  BY <1>2, <1>3 DEF FileAnswered, BobCounts, Original, FileElement, Element
<1>11. OpenWhileBoth'
  BY <1>2, <1>3 DEF OpenWhileBoth
<1>12. ToAlice'
  BY <1>3, <1>6 DEF ToAlice
<1>13. Turns'
  BY <1>2, <1>3, <1>4, <1>6 DEF Turns, InStep
<1>14. ToBob'
  <2>1. CASE wire' = wire
    BY <1>6, <2>1 DEF ToBob
  <2>2. CASE /\ open /\ Signs(Alice) /\ said'[Alice] = Append(said[Alice], t)
             /\ wire'[Bob] = Append(wire[Bob], Message(Alice, t))
    <3> DEFINE m == Message(Alice, t)
    <3>1. /\ m \in Messages /\ m.data.element = NewElement(Alice)
          /\ m.data.key = {NewElement(Alice), party[Alice].remote} /\ m.data.text = t
      BY <1>5, <2>2, SentParty, PartiesFacts
    <3>2. wire'[Bob] = Append(<<>>, m)
      BY <1>6, <2>2
    <3> HIDE DEF m
    <3>3. wire'[Bob][1] = m /\ Len(wire'[Bob]) = 1
      BY <3>1, <3>2, Appended
    <3>4. Len(said'[Alice]) = Len(said[Alice]) + 1 /\ said'[Alice][Len(said'[Alice])] = t
      BY <1>5, <2>2, Appended
    <3>5. QED
      BY <1>2, <1>3, <1>4, <1>6, <3>1, <3>3, <3>4 DEF ToBob
  <2>3. QED
    BY <1>4, <2>1, <2>2
<1>15. QED
  BY <1>7, <1>8, <1>9, <1>10, <1>11, <1>12, <1>13, <1>14

------------------------------------------------------------------------------
(* Receiving *)

LEMMA Single ==
  ASSUME NEW S, NEW u \in Seq(S), Len(u) = 1
  PROVE  u # <<>> /\ u[1] \in S /\ Head(u) = u[1] /\ Tail(u) = <<>>
<1>1. u # <<>> /\ 1 \in 1..Len(u)
  OBVIOUS
<1>2. u[1] \in S /\ Head(u) = u[1]
  BY <1>1
<1>3. Tail(u) \in Seq(S) /\ Len(Tail(u)) = 0
  BY <1>1
<1>4. Tail(u) = <<>>
  BY <1>3, EmptySeq
<1>5. QED
  BY <1>1, <1>2, <1>4

(* p takes a message alone on the wire whose key it can make. *)
LEMMA ReceiveEffect ==
  ASSUME TypeOK, Counted, NEW p \in Parties, Len(wire[p]) = 1,
         wire[p][1].data.key = {wire[p][1].data.element, party[p].element},
         wire[p][1].data.text \in Texts \cup Answers,
         NEW t \in Outcomes(p), Receive(p, t)
  PROVE  /\ party' \in [Parties -> PartyStates]
         /\ wire' \in [Parties -> Seq(Messages)]
         /\ heard' \in [Parties -> Seq(Texts \cup Answers)]
         /\ \A q \in Parties \ {p} : /\ party'[q] = party[q] /\ heard'[q] = heard[q]
                                     /\ wire'[q] = wire[q]
         /\ wire'[p] = <<>>
         /\ party'[p].received_ctr = Len(party'[p].received)
         /\ \/ t = Rejected /\ Raises(t) /\ party' = party /\ heard' = heard
            \/ /\ t = wire[p][1].data.text /\ ~Raises(t)
               /\ Verifies(p, wire[p][1])
               /\ heard'[p] = Append(heard[p], t)
               /\ party'[p].element = party[p].element
               /\ party'[p].remote = wire[p][1].data.element
               /\ party'[p].signed = party[p].signed
               /\ Len(party'[p].received) = Len(party[p].received) + 1
<1> DEFINE m == wire[p][1]
<1>1. wire[p] \in Seq(Messages)
  BY DEF TypeOK
<1>2. m \in Messages /\ Head(wire[p]) = m /\ Tail(wire[p]) = <<>>
  BY <1>1, Single
<1>3. /\ wire' \in [Parties -> Seq(Messages)] /\ wire'[p] = <<>>
      /\ \A q \in Parties \ {p} : wire'[q] = wire[q]
  <2>1. wire' = [wire EXCEPT ![p] = Tail(wire[p])]
    BY DEF Receive
  <2>2. Tail(wire[p]) \in Seq(Messages)
    BY <1>2, EmptySeq
  <2>3. QED
    BY <1>2, <2>1, <2>2 DEF TypeOK
<1>4. /\ t # Undecodable
      /\ t # Rejected => t = m.data.text /\ Verifies(p, m)
      /\ Raises(t) <=> t = Rejected
  BY OutcomesOfKey
<1>5. CASE t = Rejected
  <2>1. party' = party /\ heard' = heard
    BY <1>4, <1>5 DEF Receive
  <2>2. QED
    BY <1>3, <1>4, <1>5, <2>1 DEF TypeOK, Counted
<1>6. CASE t # Rejected
  <2>1. /\ party' = [party EXCEPT ![p] = Read(p, m, t)]
        /\ heard' = [heard EXCEPT ![p] = Append(heard[p], t)]
    BY <1>2, <1>4, <1>6 DEF Receive
  <2>2. /\ Read(p, m, t) \in PartyStates
        /\ Read(p, m, t).element = party[p].element
        /\ Read(p, m, t).remote = m.data.element
        /\ Read(p, m, t).signed = party[p].signed
        /\ Len(Read(p, m, t).received) = Len(party[p].received) + 1
        /\ Read(p, m, t).received_ctr = party[p].received_ctr + 1
    <3> HIDE DEF m
    <3>1. QED
      BY <1>2, <1>4, ReadParty
  <2> DEFINE r == Read(p, m, t)
  <2> HIDE DEF r
  <2>3. /\ party' \in [Parties -> PartyStates] /\ party'[p] = r
        /\ \A q \in Parties \ {p} : party'[q] = party[q]
    BY <2>1, <2>2 DEF r, TypeOK
  <2>4. Append(heard[p], t) \in Seq(Texts \cup Answers)
    BY <1>4, <1>6 DEF TypeOK
  <2>5. /\ heard' \in [Parties -> Seq(Texts \cup Answers)]
        /\ heard'[p] = Append(heard[p], t)
        /\ \A q \in Parties \ {p} : heard'[q] = heard[q]
    BY <2>1, <2>4 DEF TypeOK
  <2>6. r.received_ctr = Len(r.received)
    BY <2>2 DEF r, Counted
  <2>7. QED
    BY <1>3, <1>4, <1>6, <2>2, <2>3, <2>5, <2>6 DEF r
<1>7. QED
  BY <1>5, <1>6

(* The message Bob takes is the answer under way. *)
LEMMA ClientReceives ==
  ASSUME RInv, wire[Bob] # <<>>
  PROVE  /\ Len(wire[Bob]) = 1
         /\ wire[Bob][1].data.key = {wire[Bob][1].data.element, party[Bob].element}
         /\ wire[Bob][1].data.text \in Texts \cup Answers
         /\ wire[Bob][1].data.text = said[Alice][Len(heard[Bob]) + 1]
         /\ Len(heard[Bob]) < Len(said[Alice])
<1>1. /\ heard[Bob] \in Seq(Texts \cup Answers)
      /\ said[Alice] \in Seq(Texts \cup Answers)
  BY PartiesFacts DEF RInv, TypeOK
<1>2. Len(heard[Bob]) + 1 \in 1..Len(said[Alice])
  BY <1>1 DEF RInv, ToBob
<1>3. said[Alice][Len(heard[Bob]) + 1] \in Texts \cup Answers
  BY <1>1, <1>2
<1>4. QED
  BY <1>1, <1>3 DEF RInv, ToBob

LEMMA ClientRecvKeeps ==
  ASSUME RInv, ClientRecv
  PROVE  RInv'
<1>1. /\ client = "wait" /\ wire[Bob] # <<>>
      /\ open' = (open /\ client' # "down")
      /\ UNCHANGED <<server, init, file, starts, said>>
  BY DEF ClientRecv
<1>2. PICK t \in Outcomes(Bob) :
        /\ Receive(Bob, t)
        /\ client' = IF Raises(t) \/ Len(heard'[Bob]) = Rounds THEN "down" ELSE "send"
  BY DEF ClientRecv
<1> DEFINE m == wire[Bob][1]
<1>3. /\ Len(wire[Bob]) = 1
      /\ m.data.key = {m.data.element, party[Bob].element}
      /\ m.data.text \in Texts \cup Answers
  BY <1>1, ClientReceives
<1>4. /\ party' \in [Parties -> PartyStates]
      /\ wire' \in [Parties -> Seq(Messages)]
      /\ heard' \in [Parties -> Seq(Texts \cup Answers)]
      /\ party'[Alice] = party[Alice] /\ heard'[Alice] = heard[Alice]
      /\ wire'[Alice] = wire[Alice]
      /\ wire'[Bob] = <<>>
      /\ party'[Bob].received_ctr = Len(party'[Bob].received)
      /\ \/ Raises(t) /\ party' = party /\ heard' = heard
         \/ /\ ~Raises(t)
            /\ heard'[Bob] = Append(heard[Bob], t)
            /\ party'[Bob].remote = m.data.element
            /\ party'[Bob].signed = party[Bob].signed
            /\ party'[Bob].element = party[Bob].element
  BY <1>2, <1>3, ReceiveEffect, PartiesFacts DEF RInv
<1>5. /\ client' \in {"down", "send"}
      /\ client' = "send" => /\ heard'[Bob] = Append(heard[Bob], t)
                             /\ party'[Bob].remote = m.data.element
      /\ party'[Bob].signed = party[Bob].signed /\ party'[Bob].element = party[Bob].element
  BY <1>2, <1>4
<1> HIDE DEF m
<1>6. TypeOK'
  BY <1>1, <1>4, <1>5 DEF RInv, TypeOK, ClientPhases
<1>7. Counted'
  <2>1. party'[Alice].received_ctr = Len(party'[Alice].received)
    BY <1>4, PartiesFacts DEF RInv, Counted
  <2>2. QED
    BY <1>4, <2>1, PartiesFacts DEF Counted
<1>8. Answered' /\ FileAnswered' /\ BobCounts'
  BY <1>1, <1>4, <1>5 DEF RInv, Answered, FileAnswered, BobCounts, Original, FileElement, Element
<1>9. OpenWhileBoth'
  BY <1>1, <1>5 DEF RInv, OpenWhileBoth
<1>10. ToBob'
  BY <1>4 DEF ToBob
<1>11. server = "wait" => /\ wire[Alice] = <<>> /\ m.data.element = party[Alice].element
                          /\ Len(said[Bob]) = Len(heard[Alice])
  BY <1>1 DEF RInv, ToAlice, ToBob, Turns, m
<1>12. server # "reply"
  BY <1>1 DEF RInv, Turns
<1>13. Len(said[Alice]) = Len(heard[Bob]) + 1
  BY <1>1 DEF RInv, ToBob
<1>14. client' = "send" => Len(heard'[Bob]) = Len(said[Alice])
  <2>1. heard[Bob] \in Seq(Texts \cup Answers)
    BY PartiesFacts DEF RInv, TypeOK
  <2>2. Len(Append(heard[Bob], t)) = Len(heard[Bob]) + 1
    BY <2>1
  <2>3. QED
    BY <1>5, <1>13, <2>2
<1>15. ToAlice'
  BY <1>1, <1>4, <1>11 DEF ToAlice
<1>16. Turns'
  <2>1. InStep' <=> InStep
    BY <1>4 DEF InStep
  <2>2. server' = server /\ said' = said
    BY <1>1
  <2>3. (server' = "wait" /\ heard'[Alice] # <<>>) => InStep'
    BY <1>4, <2>1, <2>2 DEF RInv, Turns
  <2>4. (server' = "wait" /\ client' = "send") =>
           /\ wire'[Alice] = <<>> /\ wire'[Bob] = <<>>
           /\ Len(said'[Alice]) = Len(heard'[Bob])
           /\ InStep' => party'[Bob].remote = party'[Alice].element
    BY <1>4, <1>5, <1>11, <1>14, <2>2
  <2>5. QED
    BY <1>4, <1>11, <1>12, <2>2, <2>3, <2>4 DEF Turns
<1>17. QED
  BY <1>6, <1>7, <1>8, <1>9, <1>10, <1>15, <1>16 DEF RInv

(* The message Alice takes: she refuses it, or it is the next of Bob's in  *)
(* a conversation that both began together.                                *)
LEMMA ServerReceives ==
  ASSUME RInv, server = "wait", wire[Alice] # <<>>
  PROVE  /\ Len(wire[Alice]) = 1
         /\ wire[Alice][1].data.text \in Texts \cup Answers
         /\ wire[Alice][1].data.text = said[Bob][Len(heard[Alice]) + 1]
         /\ Len(heard[Alice]) < Len(said[Bob])
         /\ InStep => wire[Alice][1].data.key = {wire[Alice][1].data.element, party[Alice].element}
         /\ Verifies(Alice, wire[Alice][1]) => InStep
<1> DEFINE m == wire[Alice][1]
<1>1. /\ heard[Alice] \in Seq(Texts \cup Answers)
      /\ said[Bob] \in Seq(Texts \cup Answers)
      /\ wire[Alice] \in Seq(Messages)
  BY PartiesFacts DEF RInv, TypeOK
<1>2. /\ Len(wire[Alice]) = 1 /\ Len(said[Bob]) = Len(heard[Alice]) + 1
      /\ m.data.text = said[Bob][Len(said[Bob])]
      /\ Len(m.signature) = Len(said[Bob])
      /\ InStep => m.data.key = {m.data.element, party[Alice].element}
  BY DEF RInv, ToAlice
<1>3. Len(heard[Alice]) + 1 \in 1..Len(said[Bob])
  BY <1>1, <1>2
<1>4. said[Bob][Len(heard[Alice]) + 1] \in Texts \cup Answers
  BY <1>1, <1>3
<1>5. m \in Messages
  BY <1>1, <1>2, Single
<1>6. Verifies(Alice, m) => InStep
  <2> HIDE DEF m
  <2>1. Collected(Alice, m) = Append(party[Alice].received, m.data)
    BY <1>5, CollectedAll, PartiesFacts DEF RInv
  <2>2. Len(Append(party[Alice].received, m.data)) = Len(party[Alice].received) + 1
        /\ Len(party[Alice].received) \in Nat
    <3>1. party[Alice].received \in Seq(SignedDatas)
      BY PartyFields, PartiesFacts DEF RInv
    <3>2. m.data \in SignedDatas
      BY <1>5 DEF Messages
    <3>3. QED
      BY <3>1, <3>2
  <2>3. Len(heard[Alice]) \in Nat
    BY <1>1
  <2>4. QED
    BY <1>2, <2>1, <2>2, <2>3 DEF Verifies, InStep, m
<1>7. QED
  BY <1>1, <1>2, <1>3, <1>4, <1>6

LEMMA ServerReceiveEffect ==
  ASSUME RInv, server = "wait", wire[Alice] # <<>>,
         NEW t \in Outcomes(Alice), Receive(Alice, t)
  PROVE  /\ party' \in [Parties -> PartyStates]
         /\ wire' \in [Parties -> Seq(Messages)]
         /\ heard' \in [Parties -> Seq(Texts \cup Answers)]
         /\ party'[Bob] = party[Bob] /\ heard'[Bob] = heard[Bob] /\ wire'[Bob] = wire[Bob]
         /\ wire'[Alice] = <<>>
         /\ party'[Alice].received_ctr = Len(party'[Alice].received)
         /\ \/ Raises(t) /\ party' = party /\ heard' = heard
            \/ /\ ~Raises(t) /\ InStep
               /\ t = wire[Alice][1].data.text
               /\ heard'[Alice] = Append(heard[Alice], t)
               /\ party'[Alice].element = party[Alice].element
               /\ party'[Alice].remote = wire[Alice][1].data.element
               /\ party'[Alice].signed = party[Alice].signed
               /\ Len(party'[Alice].received) = Len(party[Alice].received) + 1
<1>1. CASE InStep
  <2>1. /\ Len(wire[Alice]) = 1
        /\ wire[Alice][1].data.text \in Texts \cup Answers
        /\ wire[Alice][1].data.key = {wire[Alice][1].data.element, party[Alice].element}
    BY <1>1, ServerReceives
  <2>2. QED
    BY <1>1, <2>1, ReceiveEffect, PartiesFacts DEF RInv
<1>2. CASE ~InStep
  <2>1. wire[Alice] \in Seq(Messages) /\ Len(wire[Alice]) = 1
    BY ServerReceives, PartiesFacts DEF RInv, TypeOK
  <2>2. Head(wire[Alice]) = wire[Alice][1] /\ Tail(wire[Alice]) = <<>>
        /\ Tail(wire[Alice]) \in Seq(Messages)
    BY <2>1, Single, EmptySeq
  <2>3. t = Rejected /\ Raises(t)
    BY <1>2, <2>2, ServerReceives DEF Outcomes, Raises
  <2>4. /\ party' = party /\ heard' = heard
        /\ wire' = [wire EXCEPT ![Alice] = Tail(wire[Alice])]
    BY <2>3 DEF Receive
  <2>5. wire' \in [Parties -> Seq(Messages)] /\ wire'[Alice] = <<>> /\ wire'[Bob] = wire[Bob]
    BY <2>2, <2>4, PartiesFacts DEF RInv, TypeOK
  <2>6. QED
    BY <2>3, <2>4, <2>5, PartiesFacts DEF RInv, TypeOK, Counted
<1>3. QED
  BY <1>1, <1>2

LEMMA ServerRecvKeeps ==
  ASSUME RInv, ServerRecv
  PROVE  RInv'
<1>1. /\ server = "wait" /\ wire[Alice] # <<>>
      /\ open' = (open /\ server' = "reply")
      /\ UNCHANGED <<client, init, file, starts, said>>
  BY DEF ServerRecv
<1>2. PICK t \in Outcomes(Alice) :
        /\ Receive(Alice, t)
        /\ server' = IF Raises(t) THEN "break" ELSE IF t = Exit THEN "down" ELSE "reply"
  BY DEF ServerRecv
<1> DEFINE m == wire[Alice][1]
<1>3. /\ party' \in [Parties -> PartyStates]
      /\ wire' \in [Parties -> Seq(Messages)]
      /\ heard' \in [Parties -> Seq(Texts \cup Answers)]
      /\ party'[Bob] = party[Bob] /\ heard'[Bob] = heard[Bob] /\ wire'[Bob] = wire[Bob]
      /\ wire'[Alice] = <<>>
      /\ party'[Alice].received_ctr = Len(party'[Alice].received)
      /\ \/ Raises(t) /\ party' = party /\ heard' = heard
         \/ /\ ~Raises(t) /\ InStep
            /\ t = m.data.text
            /\ heard'[Alice] = Append(heard[Alice], t)
            /\ party'[Alice].element = party[Alice].element
            /\ party'[Alice].remote = m.data.element
            /\ party'[Alice].signed = party[Alice].signed
            /\ Len(party'[Alice].received) = Len(party[Alice].received) + 1
  BY <1>1, <1>2, ServerReceiveEffect
<1>4. /\ client # "send" /\ wire[Bob] = <<>>
      /\ Len(said[Bob]) = Len(heard[Alice]) + 1
      /\ Len(said[Alice]) = Len(heard[Bob])
      /\ m.data.element = party[Bob].element
  BY <1>1 DEF RInv, ToAlice
<1> HIDE DEF m
<1>5. Len(Append(heard[Alice], t)) = Len(heard[Alice]) + 1 /\ Len(heard[Alice]) \in Nat
  BY PartiesFacts DEF RInv, TypeOK
<1>6. Len(party[Alice].received) \in Nat
  BY PartyFields, PartiesFacts DEF RInv
<1>7. TypeOK'
  <2>1. server' \in ServerPhases
    BY <1>2 DEF ServerPhases
  <2>2. open' \in BOOLEAN
    BY <1>1
  <2>3. QED
    BY <1>1, <1>3, <2>1, <2>2 DEF RInv, TypeOK
<1>8. Counted'
  <2>1. party'[Bob].received_ctr = Len(party'[Bob].received)
    BY <1>3, PartiesFacts DEF RInv, Counted
  <2>2. QED
    BY <1>3, <2>1, PartiesFacts DEF Counted
<1>9. Answered'
  <2>1. CASE Raises(t)
    BY <1>1, <1>2, <1>3, <2>1 DEF RInv, Answered, Original, FileElement, Element
  <2>2. CASE ~Raises(t)
    <3>1. party'[Alice].received # <<>>
      BY <1>3, <1>6, <2>2
    <3>2. server' \in {"down", "reply"}
      BY <1>2, <2>2
    <3>3. Len(party[Alice].signed) = Len(party[Alice].received)
      BY <1>1 DEF RInv, Answered
    <3>4. QED
      BY <1>3, <2>2, <3>1, <3>2, <3>3 DEF Answered, Original
  <2>3. QED
    BY <2>1, <2>2
<1>10. FileAnswered' /\ BobCounts'
  BY <1>1, <1>3 DEF RInv, FileAnswered, BobCounts, Original, FileElement, Element
<1>11. OpenWhileBoth'
  BY <1>1, <1>2 DEF RInv, OpenWhileBoth
<1>12. ToBob' /\ ToAlice'
  BY <1>3, <1>4 DEF ToBob, ToAlice
<1>13. Turns'
  <2>1. server' # "wait"
    BY <1>2
  <2>2. server' = "reply" => ~Raises(t)
    BY <1>2
  <2>3. server' = "reply" =>
          /\ InStep'
          /\ Len(said'[Bob]) = Len(heard'[Alice])
          /\ party'[Alice].remote = party'[Bob].element
    BY <1>1, <1>3, <1>4, <1>5, <2>2 DEF InStep
  <2>4. QED
    BY <1>1, <1>3, <1>4, <2>1, <2>3 DEF Turns
<1>14. QED
  BY <1>7, <1>8, <1>9, <1>10, <1>11, <1>12, <1>13 DEF RInv

------------------------------------------------------------------------------
(* The invariant *)

LEMMA InitRInv == Init => RInv
<1>1. SUFFICES ASSUME Init PROVE RInv
  OBVIOUS
<1>2. /\ party[Alice] = Fresh(Alice) /\ party[Bob] = Fresh(Bob)
      /\ party \in [Parties -> PartyStates]
  BY <1>1, FreshParty, PartiesFacts DEF Init
<1>3. /\ \A p \in Parties : wire[p] = <<>> /\ said[p] = <<>> /\ heard[p] = <<>>
      /\ wire \in [Parties -> Seq(Messages)]
      /\ said \in [Parties -> Seq(Texts \cup Answers)]
      /\ heard \in [Parties -> Seq(Texts \cup Answers)]
  BY <1>1 DEF Init, NoWire, Silence
<1>4. /\ server = "down" /\ client = "down" /\ init = FALSE /\ open = FALSE
      /\ file = <<>> /\ starts = 0
  BY <1>1 DEF Init, NoState
<1>5. TypeOK
  <2>1. file \in Seq(PartyStates) /\ Len(file) <= 1
    BY <1>4, EmptySeq
  <2>2. starts \in 0..MaxStarts
    BY <1>4, RatchetAssumption
  <2>3. QED
    BY <1>2, <1>3, <1>4, <2>1, <2>2 DEF TypeOK, ServerPhases, ClientPhases
<1>6. Counted /\ Answered /\ BobCounts
  BY <1>2, <1>3, <1>4, FreshParty, PartiesFacts DEF Counted, Answered, BobCounts, Original
<1>7. FileAnswered /\ OpenWhileBoth
  BY <1>4 DEF FileAnswered, OpenWhileBoth
<1>8. ToBob /\ ToAlice /\ Turns
  BY <1>3, <1>4, PartiesFacts DEF ToBob, ToAlice, Turns
<1>9. QED
  BY <1>5, <1>6, <1>7, <1>8 DEF RInv

LEMMA NextRInv == RInv /\ [Next]_vars => RInv'
<1>1. SUFFICES ASSUME RInv, [Next]_vars PROVE RInv'
  OBVIOUS
<1>2. CASE \E i \in BOOLEAN : StartServer(i)
  BY <1>1, <1>2, StartServerKeeps
<1>3. CASE Connect
  BY <1>1, <1>3, ConnectKeeps
<1>4. CASE ServerStep
  BY <1>1, <1>4, ServerRecvKeeps, ServerReplyKeeps, SeesCloseKeeps, TruncateKeeps,
     WriteKeeps DEF ServerStep
<1>5. CASE ClientStep
  BY <1>1, <1>5, ClientSendKeeps, ClientRecvKeeps, ClientSeesCloseKeeps DEF ClientStep
<1>6. CASE ServerKilled \/ ClientKilled
  BY <1>1, <1>6, ServerKilledKeeps, ClientKilledKeeps
<1>7. CASE UNCHANGED vars
  <2> USE DEF vars
  <2>1. TypeOK' /\ Counted'
    BY <1>1, <1>7 DEF RInv, TypeOK, Counted
  <2>2. Answered' /\ FileAnswered' /\ OpenWhileBoth' /\ BobCounts'
    BY <1>1, <1>7 DEF RInv, Answered, FileAnswered, OpenWhileBoth, BobCounts, Original,
                     FileElement, Element
  <2>3. ToBob' /\ ToAlice' /\ Turns'
    BY <1>1, <1>7 DEF RInv, ToBob, ToAlice, Turns, InStep
  <2>4. QED
    BY <2>1, <2>2, <2>3 DEF RInv
<1>8. QED
  BY <1>1, <1>2, <1>3, <1>4, <1>5, <1>6, <1>7 DEF Next

(* The invariant holds throughout: the parties agree on the element of     *)
(* the next message although each makes a new one for every message.       *)
THEOREM ConversationInvariant == Spec => []RInv
  BY InitRInv, NextRInv, PTL DEF Spec

(* Every variable keeps its type; nothing but texts is read. *)
THEOREM TypeCorrect == Spec => []TypeOK
<1>1. RInv => TypeOK
  BY DEF RInv
<1>2. QED
  BY <1>1, ConversationInvariant, PTL

(* The state file of server only ever holds states in which every message  *)
(* read has been answered.                                                 *)
THEOREM FileIsBalanced == Spec => []FileBalanced
<1>1. RInv => FileBalanced
  <2>1. SUFFICES ASSUME RInv, NEW i \in DOMAIN file
                 PROVE  /\ Len(file[i].received) = Len(file[i].signed)
                        /\ file[i].received_ctr = Len(file[i].received)
    BY DEF FileBalanced
  <2>2. QED
    BY <2>1 DEF RInv, FileAnswered
<1>2. QED
  BY <1>1, ConversationInvariant, PTL

(* A server with messages of an earlier conversation reads nothing from a  *)
(* client, which always starts anew.                                       *)
THEOREM NothingIsResumed == Spec => []NothingResumed
<1>1. RInv => NothingResumed
  BY DEF RInv, NothingResumed, OpenWhileBoth, Turns, InStep
<1>2. QED
  BY <1>1, ConversationInvariant, PTL

------------------------------------------------------------------------------
(* Keys that last *)

(* The version of a key tells how often it has signed, also in the file. *)
VersionFits(s) == s.version = Len(s.signed) + 1
Versions == /\ \A p \in Parties : VersionFits(party[p])
            /\ \A i \in DOMAIN file : VersionFits(file[i])

(* Bob sends one message for each he has read and stops after Rounds. *)
BobStops ==
  /\ Len(said[Bob]) <= Rounds
  /\ client # "down" => Len(heard[Bob]) < Rounds
  /\ client = "send" => Len(said[Bob]) = Len(heard[Bob])
  /\ client = "wait" => Len(said[Bob]) = Len(heard[Bob]) + 1

LEMMA SendVersion ==
  ASSUME TypeOK, NEW p \in Parties, VersionFits(party[p]), NEW t \in Texts \cup Answers,
         NEW phase, NEW after, Send(p, t, phase, after)
  PROVE  VersionFits(party'[p])
<1> DEFINE d == SignedData(p, t)
           new == NewElement(p)
<1>1. party[p] \in PartyStates /\ party[p].signed \in Seq(SignedDatas)
      /\ party[p].version \in Int
  BY PartyFields, RatchetAssumption
<1>2. CASE Signs(p)
  <2>1. party' = [party EXCEPT ![p] = [party[p] EXCEPT !.element = new,
                                         !.signed = Append(party[p].signed, d),
                                         !.version = party[p].version + 1]]
    BY <1>2 DEF Send, Sent
  <2> HIDE DEF d, new
  <2>2. /\ party'[p].signed = Append(party[p].signed, d)
        /\ party'[p].version = party[p].version + 1
    BY <1>1, <2>1 DEF TypeOK, PartyStates
  <2>3. Len(Append(party[p].signed, d)) = Len(party[p].signed) + 1
    BY <1>1
  <2> QED  BY <1>1, <2>2, <2>3 DEF VersionFits
<1>3. CASE ~ Signs(p)
  <2>1. party' = [party EXCEPT ![p].element = new]
    BY <1>3 DEF Send
  <2> HIDE DEF d, new
  <2>2. party'[p].signed = party[p].signed /\ party'[p].version = party[p].version
    BY <1>1, <2>1 DEF TypeOK, PartyStates
  <2> QED  BY <2>2 DEF VersionFits
<1> QED  BY <1>2, <1>3

LEMMA ReceiveVersion ==
  ASSUME TypeOK, NEW p \in Parties, VersionFits(party[p]), NEW t, Receive(p, t)
  PROVE  /\ VersionFits(party'[p])
         /\ \A q \in Parties : q # p => party'[q] = party[q]
<1> DEFINE m == Head(wire[p])
           c == Collected(p, m)
           k == IF t = Undecodable THEN party[p].received_ctr ELSE party[p].received_ctr + 1
           r == [party[p] EXCEPT !.received = c, !.remote = m.data.element,
                                 !.received_ctr = k]
<1>1. party[p] \in PartyStates /\ party \in [Parties -> PartyStates]
  BY PartyFields DEF TypeOK
<1>2. party' = party \/ party' = [party EXCEPT ![p] = r]
  BY DEF Receive, Read
<1>3. r.signed = party[p].signed /\ r.version = party[p].version
  <2> HIDE DEF m, c, k
  <2> QED  BY <1>1 DEF PartyStates
<1> HIDE DEF r
<1> QED  BY <1>1, <1>2, <1>3 DEF VersionFits

LEMMA VersionsStep ==
  ASSUME RInv, Versions, [Next]_vars
  PROVE  Versions'
<1> DEFINE Kept(p) == VersionFits(party'[p])
<1>1. TypeOK /\ Alice \in Parties /\ Bob \in Parties
      /\ VersionFits(party[Alice]) /\ VersionFits(party[Bob])
      /\ \A q \in Parties : q = Alice \/ q = Bob
  BY PartiesFacts DEF RInv, Versions
<1>2. CASE ClientSend
  <2>1. PICK t \in Texts : Send(Bob, t, client', "wait")
    BY <1>2 DEF ClientSend
  <2>2. Kept(Bob) /\ party'[Alice] = party[Alice] /\ file' = file
    BY <1>1, <1>2, <2>1, SendVersion, SendKeepsTypes, PartiesFacts DEF ClientSend
  <2> QED  BY <1>1, <2>2 DEF Versions
<1>3. CASE ServerReply
  <2>1. PICK t \in Answers : Send(Alice, t, server', "wait")
    BY <1>3 DEF ServerReply
  <2>2. Kept(Alice) /\ party'[Bob] = party[Bob] /\ file' = file
    BY <1>1, <1>3, <2>1, SendVersion, SendKeepsTypes, PartiesFacts DEF ServerReply
  <2> QED  BY <1>1, <2>2 DEF Versions
<1>4. CASE ClientRecv \/ ServerRecv
  <2>1. PICK p \in Parties : \E t \in Outcomes(p) : Receive(p, t)
    BY <1>1, <1>4 DEF ClientRecv, ServerRecv
  <2>2. file' = file  BY <1>4 DEF ClientRecv, ServerRecv
  <2>3. \A q \in Parties : Kept(q)
    BY <1>1, <2>1, ReceiveVersion DEF Versions
  <2> QED  BY <2>2, <2>3 DEF Versions
<1>5. CASE \E i \in BOOLEAN : StartServer(i)
  <2>1. PICK i \in BOOLEAN : StartServer(i)  BY <1>5
  <2> DEFINE s == IF i THEN Fresh(Alice) ELSE Head(file)
  <2>2. party' = [party EXCEPT ![Alice] = s] /\ file' = file
    BY <2>1 DEF StartServer
  <2>3. VersionFits(s)
    <3>1. CASE i  BY <3>1 DEF VersionFits, Fresh
    <3>2. CASE ~ i
      <4>1. file # <<>> /\ file \in Seq(PartyStates)
        BY <1>1, <2>1, <3>2 DEF StartServer, HasState, NoState, TypeOK
      <4>2. Head(file) = file[1] /\ 1 \in DOMAIN file  BY <4>1
      <4> QED  BY <3>2, <4>2 DEF Versions
    <3> QED  BY <3>1, <3>2
  <2> HIDE DEF s
  <2>4. Kept(Alice) /\ party'[Bob] = party[Bob]
    BY <1>1, <2>2, <2>3, PartiesFacts DEF TypeOK
  <2> QED  BY <1>1, <2>2, <2>4 DEF Versions
<1>6. CASE Connect
  <2>1. party' = [party EXCEPT ![Bob] = Fresh(Bob)] /\ file' = file
    BY <1>6 DEF Connect
  <2>2. VersionFits(Fresh(Bob))  BY DEF VersionFits, Fresh
  <2>3. Kept(Bob) /\ party'[Alice] = party[Alice]
    BY <1>1, <2>1, <2>2, PartiesFacts DEF TypeOK
  <2> QED  BY <1>1, <2>1, <2>3 DEF Versions
<1>7. CASE Write
  <2>1. party' = party /\ file' = <<party[Alice]>>
    BY <1>7 DEF Write
  <2>2. DOMAIN file' = {1} /\ file'[1] = party[Alice]
    BY <2>1
  <2> QED  BY <1>1, <2>1, <2>2 DEF Versions
<1>8. CASE Truncate
  <2>1. party' = party /\ (file' = file \/ file' = <<>>)
    BY <1>8 DEF Truncate, NoState
  <2> QED  BY <2>1 DEF Versions
<1>9. CASE ServerSeesClose \/ ClientSeesClose \/ ServerKilled \/ ClientKilled \/ UNCHANGED vars
  BY <1>9 DEF ServerSeesClose, ClientSeesClose, ServerKilled, ClientKilled, vars, Versions
<1> QED  BY <1>2, <1>3, <1>4, <1>5, <1>6, <1>7, <1>8, <1>9 DEF Next, ServerStep, ClientStep

LEMMA BobStopsStep ==
  ASSUME RInv, BobStops, [Next]_vars
  PROVE  BobStops'
<1>1. /\ said[Bob] \in Seq(Texts \cup Answers) /\ heard[Bob] \in Seq(Texts \cup Answers)
      /\ said \in [Parties -> Seq(Texts \cup Answers)]
      /\ heard \in [Parties -> Seq(Texts \cup Answers)]
      /\ Len(said[Bob]) \in Nat /\ Len(heard[Bob]) \in Nat
      /\ Rounds \in Nat /\ Rounds > 0
  BY PartiesFacts, RatchetAssumption DEF RInv, TypeOK
<1>2. CASE ClientSend
  <2>1. PICK t \in Texts : Send(Bob, t, client', "wait")
    BY <1>2 DEF ClientSend
  <2>2. client = "send" /\ heard' = heard /\ client' \in {"wait", "down"}
    BY <1>2, <2>1, SendKeepsTypes, PartiesFacts DEF ClientSend, RInv
  <2>3. CASE Signs(Bob)
    <3>1. said'[Bob] = Append(said[Bob], t)
      BY <1>1, <2>1, <2>3, PartiesFacts DEF Send
    <3>2. Len(said'[Bob]) = Len(said[Bob]) + 1
      BY <1>1, <3>1
    <3> QED  BY <1>1, <2>2, <3>2 DEF BobStops
  <2>4. CASE ~ Signs(Bob)
    <3>1. said' = said /\ client' = "down"  BY <2>1, <2>4 DEF Send
    <3> QED  BY <2>2, <3>1 DEF BobStops
  <2> QED  BY <2>3, <2>4
<1>3. CASE ClientRecv
  <2>1. PICK t \in Outcomes(Bob) :
           /\ Receive(Bob, t)
           /\ client' = IF Raises(t) \/ Len(heard'[Bob]) = Rounds THEN "down" ELSE "send"
    BY <1>3 DEF ClientRecv
  <2>2. client = "wait" /\ said' = said  BY <1>3 DEF ClientRecv
  <2>3. CASE Raises(t)
    BY <2>1, <2>2, <2>3 DEF BobStops
  <2>4. CASE ~ Raises(t)
    <3>1. heard'[Bob] = Append(heard[Bob], t)
      BY <1>1, <2>1, <2>4, PartiesFacts DEF Receive
    <3>2. Len(heard'[Bob]) = Len(heard[Bob]) + 1
      BY <1>1, <3>1
    <3>3. client' # "down" => client' = "send" /\ Len(heard'[Bob]) # Rounds
      BY <2>1
    <3>4. Len(heard[Bob]) < Rounds /\ Len(said[Bob]) = Len(heard[Bob]) + 1
          /\ Len(said[Bob]) <= Rounds
      BY <2>2 DEF BobStops
    <3>5. client' \in {"down", "send"}  BY <2>1
    <3> QED  BY <1>1, <2>2, <3>2, <3>3, <3>4, <3>5 DEF BobStops
  <2> QED  BY <2>3, <2>4
<1>4. CASE Connect
  <2>1. said'[Bob] = <<>> /\ heard'[Bob] = <<>> /\ client' = "send"
    BY <1>4, PartiesFacts DEF Connect, Silence
  <2> QED  BY <1>1, <2>1 DEF BobStops
<1>5. CASE ServerRecv
  <2>1. PICK t \in Outcomes(Alice) : Receive(Alice, t)  BY <1>5 DEF ServerRecv
  <2>2. heard'[Bob] = heard[Bob]
    BY <1>1, <2>1, PartiesFacts DEF Receive
  <2> QED  BY <1>5, <2>2 DEF ServerRecv, BobStops
<1>6. CASE ServerReply
  <2>1. PICK t \in Answers : Send(Alice, t, server', "wait")  BY <1>6 DEF ServerReply
  <2>2. said'[Bob] = said[Bob]
    BY <1>1, <2>1, PartiesFacts DEF Send
  <2> QED  BY <1>6, <2>2 DEF ServerReply, BobStops
<1>7. CASE ClientSeesClose \/ ClientKilled
  BY <1>7 DEF ClientSeesClose, ClientKilled, BobStops
<1>8. CASE (\E i \in BOOLEAN : StartServer(i)) \/ ServerSeesClose \/ Truncate \/ Write
           \/ ServerKilled \/ UNCHANGED vars
  BY <1>8 DEF StartServer, ServerSeesClose, Truncate, Write, ServerKilled, vars, BobStops
<1> QED  BY <1>2, <1>3, <1>4, <1>5, <1>6, <1>7, <1>8 DEF Next, ServerStep, ClientStep

(* Both keys last: Bob sends Rounds messages and no more, Alice answers    *)
(* messages of this connection only, and has signed nothing else when she  *)
(* does.                                                                   *)
THEOREM KeysAlwaysLast == Spec => []KeysLast
<1>1. Init => Versions /\ BobStops
  <2> SUFFICES ASSUME Init PROVE Versions /\ BobStops
    OBVIOUS
  <2>1. \A p \in Parties : VersionFits(party[p])
    BY DEF Init, Fresh, VersionFits
  <2>2. said[Bob] = <<>> /\ heard[Bob] = <<>> /\ client = "down" /\ file = <<>>
    BY PartiesFacts DEF Init, Silence, NoState
  <2> QED  BY <2>1, <2>2, RatchetAssumption DEF Versions, BobStops
<1>2. RInv /\ Versions /\ BobStops /\ [Next]_vars => (Versions /\ BobStops)'
  BY VersionsStep, BobStopsStep
<1>3. RInv /\ Versions /\ BobStops => KeysLast
  <2> SUFFICES ASSUME RInv, Versions, BobStops PROVE KeysLast
    OBVIOUS
  <2>1. /\ Rounds \in Nat /\ MaxVersion \in Nat /\ Rounds <= MaxVersion
        /\ Len(party[Alice].signed) \in Nat /\ Len(party[Bob].signed) \in Nat
        /\ Len(said[Bob]) \in Nat /\ Len(heard[Bob]) \in Nat
        /\ VersionFits(party[Alice]) /\ VersionFits(party[Bob])
    <3>1. /\ party \in [Parties -> PartyStates]
          /\ said \in [Parties -> Seq(Texts \union Answers)]
          /\ heard \in [Parties -> Seq(Texts \union Answers)]
      BY DEF RInv, TypeOK
    <3>2. /\ Alice \in Parties /\ Bob \in Parties
          /\ party[Alice] \in PartyStates /\ party[Bob] \in PartyStates
      BY <3>1, PartiesFacts
    <3>3. Len(party[Alice].signed) \in Nat /\ Len(party[Bob].signed) \in Nat
      BY <3>2, PartyFields
    <3>4. Len(said[Bob]) \in Nat /\ Len(heard[Bob]) \in Nat
      BY <3>1, <3>2
    <3>5. VersionFits(party[Alice]) /\ VersionFits(party[Bob])
      BY <3>2 DEF Versions
    <3> QED  BY <3>3, <3>4, <3>5, RatchetAssumption
  <2>2. ASSUME server = "reply" PROVE Signs(Alice)
    <3>1. /\ Len(party[Alice].received) = Len(party[Alice].signed) + 1
          /\ Len(party[Alice].received) = Len(heard[Alice])
          /\ Len(said[Bob]) = Len(heard[Alice])
          /\ Len(said[Bob]) <= Rounds
      BY <2>2 DEF RInv, Answered, Turns, InStep, BobStops
    <3>2. party[Alice].version = Len(said[Bob])
      BY <2>1, <3>1 DEF VersionFits
    <3> QED  BY <2>1, <3>1, <3>2 DEF Signs
  <2>3. ASSUME client = "send" PROVE Signs(Bob)
    <3>1. /\ Len(party[Bob].signed) = Len(said[Bob])
          /\ Len(said[Bob]) = Len(heard[Bob]) /\ Len(heard[Bob]) < Rounds
      BY <2>3 DEF RInv, BobCounts, BobStops
    <3>2. party[Bob].version = Len(heard[Bob]) + 1
      BY <2>1, <3>1 DEF VersionFits
    <3> QED  BY <2>1, <3>1, <3>2 DEF Signs
  <2> QED  BY <2>2, <2>3 DEF KeysLast
<1> QED  BY <1>1, <1>2, <1>3, ConversationInvariant, PTL DEF Spec

------------------------------------------------------------------------------
(* While the two are connected, one of them has a message to read or to    *)
(* send: they never both wait.                                             *)
NeverBothWait ==
  open => \/ client = "send" \/ server = "reply"
          \/ client = "wait" /\ wire[Bob] # <<>>
          \/ server = "wait" /\ wire[Alice] # <<>>

(* How many steps the two still take at most before they part: four in a   *)
(* round (send, recv, reply, recv).                                        *)
Stage == IF client = "send" THEN 0
         ELSE IF server = "reply" THEN 2
         ELSE IF wire[Bob] # <<>> THEN 3 ELSE 1
StepsToGo == 4 * (Rounds - Len(heard[Bob])) - Stage

(* Every step that leaves the two connected brings the end of their        *)
(* conversation nearer.                                                    *)
TalkAdvances ==
  [][open /\ open' => StepsToGo' \in Nat /\ StepsToGo' < StepsToGo]_vars

LEMMA AppendedTo ==
  ASSUME NEW S, NEW s \in Seq(S), NEW x
  PROVE  Append(s, x) # <<>>
<1> DEFINE T == S \union {x}
<1>1. x \in T /\ s \in Seq(T)
  <2>1. Len(s) \in Nat /\ s \in [1..Len(s) -> S]  OBVIOUS
  <2>2. s \in [1..Len(s) -> T]  BY <2>1
  <2> QED  BY <2>1, <2>2
<1> QED  BY <1>1, AppendProperties

LEMMA NeverBothWaitStep ==
  ASSUME RInv, NeverBothWait, [Next]_vars
  PROVE  NeverBothWait'
<1>1. /\ wire \in [Parties -> Seq(Messages)]
      /\ server \in ServerPhases /\ client \in ClientPhases
      /\ party \in [Parties -> PartyStates]
  BY DEF RInv, TypeOK
<1>2. CASE ClientSend
  <2>1. PICK t \in Texts : Send(Bob, t, client', "wait")
    BY <1>2 DEF ClientSend
  <2>2. SUFFICES ASSUME open' PROVE NeverBothWait'
    BY DEF NeverBothWait
  <2>3. client = "send" /\ open /\ client' # "down" /\ server' = server
    BY <1>2, <2>2 DEF ClientSend
  <2>4. wire' = [wire EXCEPT ![Peer(Bob)] = Append(@, Message(Bob, t))]
    BY <2>1, <2>3 DEF Send
  <2>5. wire'[Alice] = Append(wire[Alice], Message(Bob, t))
    BY <1>1, <2>4, PartiesFacts
  <2>6. wire'[Alice] # <<>>
    <3>1. wire[Alice] \in Seq(Messages)  BY <1>1, PartiesFacts
    <3> QED  BY <2>5, <3>1, AppendedTo
  <2>7. server \in {"wait", "reply"}
    BY <2>3 DEF RInv, OpenWhileBoth
  <2> QED  BY <2>3, <2>6, <2>7 DEF NeverBothWait
<1>3. CASE ServerReply
  <2>1. PICK t \in Answers : Send(Alice, t, server', "wait")
    BY <1>3 DEF ServerReply
  <2>2. SUFFICES ASSUME open' PROVE NeverBothWait'
    BY DEF NeverBothWait
  <2>3. server = "reply" /\ open /\ server' # "down" /\ client' = client
    BY <1>3, <2>2 DEF ServerReply
  <2>4. wire' = [wire EXCEPT ![Peer(Alice)] = Append(@, Message(Alice, t))]
    BY <2>1, <2>3 DEF Send
  <2>5. wire'[Bob] = Append(wire[Bob], Message(Alice, t))
    BY <1>1, <2>4, PartiesFacts
  <2>6. wire'[Bob] # <<>>
    <3>1. wire[Bob] \in Seq(Messages)  BY <1>1, PartiesFacts
    <3> QED  BY <2>5, <3>1, AppendedTo
  <2>7. client = "wait"
    BY <1>1, <2>3 DEF RInv, OpenWhileBoth, Turns, ClientPhases
  <2> QED  BY <2>3, <2>6, <2>7 DEF NeverBothWait
<1>4. CASE ServerRecv
  BY <1>4 DEF ServerRecv, NeverBothWait
<1>5. CASE ClientRecv
  <2>1. PICK t \in Outcomes(Bob) :
          client' = IF Raises(t) \/ Len(heard'[Bob]) = Rounds THEN "down" ELSE "send"
    BY <1>5 DEF ClientRecv
  <2>2. open' = (open /\ client' # "down")  BY <1>5 DEF ClientRecv
  <2> QED  BY <2>1, <2>2 DEF NeverBothWait
<1>6. CASE Connect
  BY <1>6 DEF Connect, NeverBothWait
<1>7. CASE ServerSeesClose \/ ClientSeesClose \/ ClientKilled
  BY <1>7 DEF ServerSeesClose, ClientSeesClose, ClientKilled, NeverBothWait
<1>8. CASE ServerKilled
  BY <1>8 DEF ServerKilled, NeverBothWait, RInv, OpenWhileBoth
<1>9. CASE (\E i \in BOOLEAN : StartServer(i)) \/ Truncate \/ Write
  BY <1>9 DEF StartServer, Truncate, Write, NeverBothWait, RInv, OpenWhileBoth
<1>10. CASE UNCHANGED vars
  BY <1>10 DEF vars, NeverBothWait
<1> QED
  BY <1>2, <1>3, <1>4, <1>5, <1>6, <1>7, <1>8, <1>9, <1>10
     DEF Next, ServerStep, ClientStep

(* Nobody waits for a message while the other waits too. *)
THEOREM NoMutualWait == Spec => []NeverBothWait
<1>1. Init => NeverBothWait  BY DEF Init, NeverBothWait
<1>2. RInv /\ NeverBothWait /\ [Next]_vars => NeverBothWait'
  BY NeverBothWaitStep
<1> QED  BY <1>1, <1>2, ConversationInvariant, PTL DEF Spec

(* Only these four steps leave the two connected. *)
LEMMA StepsOfTalk ==
  ASSUME RInv, Next, open, open'
  PROVE  ClientSend \/ ServerRecv \/ ServerReply \/ ClientRecv
<1>1. server \in {"wait", "reply"} /\ client # "down"
  BY DEF RInv, OpenWhileBoth
<1>2. ~(\E i \in BOOLEAN : StartServer(i)) /\ ~Connect
  BY <1>1 DEF StartServer, Connect
<1>3. ~Truncate /\ ~Write /\ ~ServerSeesClose /\ ~ClientSeesClose
  BY <1>1 DEF Truncate, Write, ServerSeesClose, ClientSeesClose
<1>4. ~ServerKilled /\ ~ClientKilled
  BY <1>1 DEF ServerKilled, ClientKilled
<1> QED  BY <1>2, <1>3, <1>4 DEF Next, ServerStep, ClientStep

LEMMA TalkStep ==
  ASSUME RInv, NeverBothWait, BobStops, BobStops', Next, open, open'
  PROVE  StepsToGo' \in Nat /\ StepsToGo' < StepsToGo
<1>1. /\ wire \in [Parties -> Seq(Messages)]
      /\ heard \in [Parties -> Seq(Texts \cup Answers)]
      /\ heard[Bob] \in Seq(Texts \cup Answers)
      /\ Len(heard[Bob]) \in Nat /\ Rounds \in Nat
      /\ wire[Alice] \in Seq(Messages) /\ wire[Bob] \in Seq(Messages)
      /\ client \in ClientPhases
  BY PartiesFacts, RatchetAssumption DEF RInv, TypeOK
<1>2. /\ server \in {"wait", "reply"} /\ client \in {"send", "wait"}
      /\ Len(heard[Bob]) < Rounds
  BY <1>1 DEF RInv, OpenWhileBoth, ClientPhases, BobStops
<1>3. CASE ClientSend
  <2>1. PICK t \in Texts : Send(Bob, t, client', "wait")
    BY <1>3 DEF ClientSend
  <2>2. client = "send" /\ client' # "down" /\ server' = server /\ heard' = heard
    BY <1>3 DEF ClientSend
  <2>3. /\ wire' = [wire EXCEPT ![Peer(Bob)] = Append(@, Message(Bob, t))]
        /\ client' = "wait"
    BY <2>1, <2>2 DEF Send
  <2>4. wire'[Bob] = wire[Bob]  BY <1>1, <2>3, PartiesFacts
  <2>5. server = "wait" /\ wire[Bob] = <<>>
    BY <1>2, <2>2 DEF RInv, Turns
  <2>6. Stage = 0 /\ Stage' = 1
    BY <2>2, <2>3, <2>4, <2>5 DEF Stage
  <2> QED  BY <1>1, <1>2, <2>2, <2>6 DEF StepsToGo
<1>4. CASE ServerRecv
  <2>1. PICK t \in Outcomes(Alice) :
          /\ Receive(Alice, t)
          /\ server' = IF Raises(t) THEN "break" ELSE IF t = Exit THEN "down" ELSE "reply"
          /\ open' = (open /\ server' = "reply")
    BY <1>4 DEF ServerRecv
  <2>2. /\ server = "wait" /\ wire[Alice] # <<>> /\ client' = client
        /\ server' = "reply"
    BY <1>4, <2>1 DEF ServerRecv
  <2>3. heard'[Bob] = heard[Bob]
    BY <1>1, <2>1, PartiesFacts DEF Receive
  <2>4. client # "send" /\ wire[Bob] = <<>>
    BY <2>2 DEF RInv, ToAlice
  <2>5. Stage = 1 /\ Stage' = 2
    BY <2>2, <2>4 DEF Stage
  <2> QED  BY <1>1, <1>2, <2>3, <2>5 DEF StepsToGo
<1>5. CASE ServerReply
  <2>1. PICK t \in Answers : Send(Alice, t, server', "wait")
    BY <1>5 DEF ServerReply
  <2>2. server = "reply" /\ server' # "down" /\ client' = client /\ heard' = heard
    BY <1>5 DEF ServerReply
  <2>3. /\ wire' = [wire EXCEPT ![Peer(Alice)] = Append(@, Message(Alice, t))]
        /\ server' = "wait"
    BY <2>1, <2>2 DEF Send
  <2>4. wire'[Bob] = Append(wire[Bob], Message(Alice, t))
    BY <1>1, <2>3, PartiesFacts
  <2>5. wire'[Bob] # <<>>  BY <1>1, <2>4, AppendedTo
  <2>6. client # "send"  BY <2>2 DEF RInv, Turns
  <2>7. Stage = 2 /\ Stage' = 3
    BY <2>2, <2>3, <2>5, <2>6 DEF Stage
  <2> QED  BY <1>1, <1>2, <2>2, <2>7 DEF StepsToGo
<1>6. CASE ClientRecv
  <2>1. PICK t \in Outcomes(Bob) :
          /\ Receive(Bob, t)
          /\ client' = IF Raises(t) \/ Len(heard'[Bob]) = Rounds THEN "down" ELSE "send"
    BY <1>6 DEF ClientRecv
  <2>2. client = "wait" /\ wire[Bob] # <<>> /\ client' # "down"
    BY <1>6 DEF ClientRecv
  <2>3. client' = "send" /\ ~Raises(t)  BY <2>1, <2>2
  <2>4. heard'[Bob] = Append(heard[Bob], t)
    BY <1>1, <2>1, <2>3, PartiesFacts DEF Receive
  <2>5. Len(heard'[Bob]) = Len(heard[Bob]) + 1
    BY <1>1, <2>4
  <2>6. Len(heard'[Bob]) < Rounds
    BY <2>2 DEF BobStops
  <2>7. server # "reply"  BY <2>2 DEF RInv, Turns
  <2>8. Stage = 3 /\ Stage' = 0
    BY <2>2, <2>3, <2>7 DEF Stage
  <2> QED  BY <1>1, <2>5, <2>6, <2>8 DEF StepsToGo
<1> QED  BY <1>3, <1>4, <1>5, <1>6, StepsOfTalk

(* A conversation of connected parties takes at most four steps a round.   *)
THEOREM ConversationAdvances == Spec => TalkAdvances
<1>1. Spec => [](RInv /\ NeverBothWait)
  BY ConversationInvariant, NoMutualWait, PTL
<1>2. Init => BobStops
  <2>1. Init => said[Bob] = <<>> /\ heard[Bob] = <<>> /\ client = "down"
    BY PartiesFacts DEF Init, Silence
  <2> QED  BY <2>1, RatchetAssumption DEF BobStops
<1>3. RInv /\ BobStops /\ [Next]_vars => BobStops'
  BY BobStopsStep
<1>4. Spec => []BobStops
  BY <1>1, <1>2, <1>3, PTL DEF Spec
<1>5. RInv /\ NeverBothWait /\ BobStops /\ BobStops' /\ [Next]_vars =>
        [open /\ open' => StepsToGo' \in Nat /\ StepsToGo' < StepsToGo]_vars
  BY TalkStep
<1> QED  BY <1>1, <1>4, <1>5, PTL DEF Spec, TalkAdvances

------------------------------------------------------------------------------
(* The conversation *)

LEMMA InitTalks == Init => Talk!Init
  BY DEF Init, Talk!Init, Silence, Talk!Silence

LEMMA ClientSendTalks ==
  ASSUME RInv, ClientSend
  PROVE  [Talk!Next]_<<said, heard>>
<1>1. PICK t \in Texts : Send(Bob, t, client', "wait")
  BY DEF ClientSend
<1>2. UNCHANGED heard
  BY DEF ClientSend
<1>3. CASE Signs(Bob)
  <2>1. said' = [said EXCEPT ![Bob] = Append(@, t)]
    BY <1>1, <1>3 DEF Send
  <2>2. Talk!Say(Bob)
    BY <1>2, <2>1 DEF Talk!Say
  <2>3. QED
    BY <2>2, PartiesFacts DEF Talk!Next
<1>4. CASE ~Signs(Bob)
  BY <1>1, <1>2, <1>4 DEF Send
<1>5. QED
  BY <1>3, <1>4

LEMMA ServerReplyTalks ==
  ASSUME RInv, ServerReply
  PROVE  [Talk!Next]_<<said, heard>>
<1>1. PICK t \in Answers : Send(Alice, t, server', "wait")
  BY DEF ServerReply
<1>2. UNCHANGED heard
  BY DEF ServerReply
<1>3. CASE Signs(Alice)
  <2>1. said' = [said EXCEPT ![Alice] = Append(@, t)]
    BY <1>1, <1>3 DEF Send
  <2>2. Talk!Say(Alice)
    BY <1>2, <2>1 DEF Talk!Say
  <2>3. QED
    BY <2>2, PartiesFacts DEF Talk!Next
<1>4. CASE ~Signs(Alice)
  BY <1>1, <1>2, <1>4 DEF Send
<1>5. QED
  BY <1>3, <1>4

LEMMA ServerRecvTalks ==
  ASSUME RInv, ServerRecv
  PROVE  [Talk!Next]_<<said, heard>>
<1>1. PICK t \in Outcomes(Alice) : Receive(Alice, t)
  BY DEF ServerRecv
<1>2. server = "wait" /\ wire[Alice] # <<>> /\ UNCHANGED said
  BY DEF ServerRecv
<1>3. CASE Raises(t)
  BY <1>1, <1>2, <1>3 DEF Receive
<1>4. CASE ~Raises(t)
  <2>1. /\ t = wire[Alice][1].data.text
        /\ heard' = [heard EXCEPT ![Alice] = Append(@, t)]
    BY <1>1, <1>2, <1>4, ServerReceiveEffect DEF Receive
  <2>2. t = said[Bob][Len(heard[Alice]) + 1] /\ Len(heard[Alice]) < Len(said[Bob])
    BY <1>2, <2>1, ServerReceives
  <2>3. Bob \in Parties \ {Alice}
    BY PartiesFacts
  <2>4. heard' = [heard EXCEPT ![Alice] = Append(@, said[Bob][Len(@) + 1])]
    BY <2>1, <2>2
  <2>5. Talk!Hear(Alice)
    BY <1>2, <2>2, <2>3, <2>4 DEF Talk!Hear
  <2>6. QED
    BY <2>5, PartiesFacts DEF Talk!Next
<1>5. QED
  BY <1>3, <1>4

LEMMA ClientRecvTalks ==
  ASSUME RInv, ClientRecv
  PROVE  [Talk!Next]_<<said, heard>>
<1>1. PICK t \in Outcomes(Bob) : Receive(Bob, t)
  BY DEF ClientRecv
<1>2. wire[Bob] # <<>> /\ UNCHANGED said
  BY DEF ClientRecv
<1>3. CASE Raises(t)
  BY <1>1, <1>2, <1>3 DEF Receive
<1>4. CASE ~Raises(t)
  <2>1. /\ wire[Bob][1].data.key = {wire[Bob][1].data.element, party[Bob].element}
        /\ wire[Bob][1].data.text \in Texts \cup Answers
        /\ wire[Bob][1].data.text = said[Alice][Len(heard[Bob]) + 1]
        /\ Len(heard[Bob]) < Len(said[Alice])
    BY <1>2, ClientReceives
  <2>2. t = wire[Bob][1].data.text
    BY <1>4, <2>1, OutcomesOfKey, PartiesFacts
  <2>3. heard' = [heard EXCEPT ![Bob] = Append(@, said[Alice][Len(@) + 1])]
    BY <1>1, <1>4, <2>1, <2>2 DEF Receive
  <2>4. Alice \in Parties \ {Bob}
    BY PartiesFacts
  <2>5. Talk!Hear(Bob)
    BY <1>2, <2>1, <2>3, <2>4 DEF Talk!Hear
  <2>6. QED
    BY <2>5, PartiesFacts DEF Talk!Next
<1>5. QED
  BY <1>3, <1>4

LEMMA NextTalks == RInv /\ [Next]_vars => [Talk!Next]_<<said, heard>>
<1>1. SUFFICES ASSUME RInv, [Next]_vars PROVE [Talk!Next]_<<said, heard>>
  OBVIOUS
<1>2. CASE \E i \in BOOLEAN : StartServer(i)
  BY <1>2 DEF StartServer
<1>3. CASE Connect
  BY <1>3 DEF Connect, Talk!Next, Talk!Reconnect, Silence, Talk!Silence
<1>4. CASE ServerStep
  <2>1. CASE ServerSeesClose \/ Truncate \/ Write
    BY <2>1 DEF ServerSeesClose, Truncate, Write
  <2>2. QED
    BY <1>1, <1>4, <2>1, ServerRecvTalks, ServerReplyTalks DEF ServerStep
<1>5. CASE ClientStep
  <2>1. CASE ClientSeesClose
    BY <2>1 DEF ClientSeesClose
  <2>2. QED
    BY <1>1, <1>5, <2>1, ClientSendTalks, ClientRecvTalks DEF ClientStep
<1>6. CASE ServerKilled \/ ClientKilled
  BY <1>6 DEF ServerKilled, ClientKilled
<1>7. CASE UNCHANGED vars
  BY <1>7 DEF vars
<1>8. QED
  BY <1>1, <1>2, <1>3, <1>4, <1>5, <1>6, <1>7 DEF Next

(* Over kills, lost connections and restarts from the file, each party     *)
(* reads exactly what the other has sent, in order: the keys and the       *)
(* signatures of the ratchet fit.                                          *)
THEOREM EachReadsTheOther == Spec => ImplementsConversation
<1>1. Init => Talk!Init
  BY InitTalks
<1>2. RInv /\ [Next]_vars => [Talk!Next]_(Talk!vars)
  BY NextTalks DEF Talk!vars
<1>3. QED
  BY <1>1, <1>2, ConversationInvariant, PTL DEF Spec, ImplementsConversation, Talk!Spec
==============================================================================
