------------------------------- MODULE Ratchet --------------------------------
(***************************************************************************)
(* The messaging of ccc/crypto/miner: Alice (server) and Bob (client) talk *)
(* over one connection at a time.  Each message is encrypted under a key   *)
(* made from a new element of the sender and the last element the sender   *)
(* knows of its peer (RatchetProtocol), and carries the product of the     *)
(* signatures of all messages so far (SignatureScheme).  Alice may keep    *)
(* her state in a file.                                                    *)
(*                                                                         *)
(* An element stands for its exponent as well; a key is the pair of        *)
(* elements it is made from.  A product of signatures is the sequence of   *)
(* the messages signed, under versions 1, 2, ...: this is what verify      *)
(* tests.  White Russian (ccc/crypto/white_russian) has the same protocol. *)
(***************************************************************************)
EXTENDS Naturals, Sequences

CONSTANTS Texts,        \* what Bob may say
          Answers,      \* get_random_message
          Exit,         \* "exit" or "quit", which Alice obeys
          Rounds,       \* messages Bob sends
          MaxVersion,   \* max_version
          MaxStarts     \* bound on the starts of Alice's process

(* What on_recv_message comes to when it does not return the text sent. *)
Garbage == "garbage"
Undecodable == "undecodable"
Rejected == "rejected"

ASSUME RatchetAssumption ==
  /\ Rounds \in Nat \ {0} /\ MaxVersion \in Nat /\ MaxStarts \in Nat
  /\ Rounds <= MaxVersion   \* 300 and 512
  /\ {Garbage, Undecodable, Rejected} \cap (Texts \cup Answers) = {}

Alice == "alice"
Bob == "bob"
Parties == {Alice, Bob}
Peer(p) == IF p = Alice THEN Bob ELSE Alice

VARIABLES
  party,    \* the RatchetProtocol object of each party
  server,   \* where Alice's process is: ServerPhases
  client,   \* where Bob's process is: ClientPhases
  init,     \* ctx.init of Alice's process
  open,     \* nobody has closed the connection
  wire,     \* messages under way to each party
  file,     \* STATE_FILE: the state in it, if any
  starts,   \* how often Alice was started
  said, heard   \* history: the plain texts of this connection

vars == <<party, server, client, init, open, wire, file, starts, said, heard>>

------------------------------------------------------------------------------
(* Parties *)

(* The n-th element p makes in a process; the 0-th is that of its .pe and  *)
(* .se files.                                                              *)
Element(p, process, n) == <<p, process, n>>
FileElement(p) == Element(p, 0, 0)

Fresh(p) == [element |-> FileElement(p), remote |-> FileElement(Peer(p)),
             version |-> 1, signed |-> <<>>,
             received |-> <<>>, received_ctr |-> 0]

(* prepare_send_message: a new element, the key, the signature, update.    *)
NewElement(p) == Element(p, starts, party[p].version)

SignedData(p, t) == [element |-> NewElement(p),
                     key |-> {NewElement(p), party[p].remote},
                     text |-> t]

Signs(p) == party[p].version <= MaxVersion

Sent(p, t) == [party[p] EXCEPT !.element = NewElement(p),
                               !.signed = Append(@, SignedData(p, t)),
                               !.version = @ + 1]

Message(p, t) == [data |-> SignedData(p, t), signature |-> Sent(p, t).signed]

(* A party whose key has passed max_version raises ValueError instead of   *)
(* sending; so may a send on a closed connection.  after is where the      *)
(* process goes on.                                                        *)
Send(p, t, phase, after) ==
  IF Signs(p)
  THEN /\ party' = [party EXCEPT ![p] = Sent(p, t)]
       /\ said' = [said EXCEPT ![p] = Append(@, t)]
       /\ wire' = IF open THEN [wire EXCEPT ![Peer(p)] = Append(@, Message(p, t))]
                  ELSE wire
       /\ phase \in IF open THEN {after} ELSE {after, "down"}
  ELSE /\ party' = [party EXCEPT ![p].element = NewElement(p)]
       /\ phase = "down"
       /\ UNCHANGED <<said, wire>>

(* on_recv_message.  received_messages has the ids 1, 2, ...; the one of   *)
(* this message is received_ctr + 1.                                       *)
Collected(p, m) == Append(SubSeq(party[p].received, 1, party[p].received_ctr), m.data)

(* Variant: the signature is only tested for the new message. *)
VerifiesLast(p, m) == m.signature # <<>> /\ m.signature[Len(m.signature)] = m.data

Verifies(p, m) == Collected(p, m) = m.signature

(* Decrypting with another key gives some other text, or bytes that are no *)
(* text: then decode raises.                                               *)
Plain(p, m) == IF m.data.key = {m.data.element, party[p].element}
               THEN {m.data.text} ELSE {Garbage, Undecodable}

(* Variant: the answer goes to the element of the first message. *)
ReadKeepsRemote(p, m, t) == [party[p] EXCEPT !.received = Collected(p, m),
                                             !.received_ctr = @ + 1]

Read(p, m, t) ==
  [party[p] EXCEPT !.received = Collected(p, m),
                   !.remote = m.data.element,
                   !.received_ctr = IF t = Undecodable THEN @ ELSE @ + 1]

(* The next message for p is taken off the wire; on_recv_message returns t *)
(* or raises (t = Rejected, t = Undecodable).                              *)
Raises(t) == t \in {Rejected, Undecodable}

Outcomes(p) == LET m == Head(wire[p])
               IN IF Verifies(p, m) THEN Plain(p, m) ELSE {Rejected}

Receive(p, t) ==
  /\ wire' = [wire EXCEPT ![p] = Tail(@)]
  /\ party' = IF t = Rejected THEN party
              ELSE [party EXCEPT ![p] = Read(p, Head(wire[p]), t)]
  /\ heard' = IF Raises(t) THEN heard ELSE [heard EXCEPT ![p] = Append(@, t)]

------------------------------------------------------------------------------
ServerPhases == {"down", "listen", "wait", "reply", "break", "write"}
ClientPhases == {"down", "send", "wait"}

NoWire == [p \in Parties |-> <<>>]
Silence == [p \in Parties |-> <<>>]

(* A file that is absent and one that open(STATE_FILE, 'wb') has truncated *)
(* are alike: load raises.                                                 *)
NoState == <<>>
HasState == file # NoState

Init == /\ party = [p \in Parties |-> Fresh(p)]
        /\ server = "down" /\ client = "down"
        /\ init = FALSE /\ open = FALSE
        /\ wire = NoWire /\ file = NoState /\ starts = 0
        /\ said = Silence /\ heard = Silence

------------------------------------------------------------------------------
(* Alice's process: server *)

(* Without --init the state is that of the file; when there is none the    *)
(* process ends at once.                                                   *)
StartServer(i) ==
  /\ server = "down" /\ starts < MaxStarts
  /\ i \/ HasState
  /\ server' = "listen" /\ init' = i /\ starts' = starts + 1
  /\ party' = [party EXCEPT ![Alice] = IF i THEN Fresh(Alice) ELSE Head(file)]
  /\ UNCHANGED <<client, open, wire, file, said, heard>>

(* Variant: "exit" leaves the loop as an exception does. *)
ServerRecvExitBreaks ==
  /\ server = "wait" /\ wire[Alice] # <<>>
  /\ \E t \in Outcomes(Alice) :
       /\ Receive(Alice, t)
       /\ server' = IF Raises(t) \/ t = Exit THEN "break" ELSE "reply"
       /\ open' = (open /\ server' = "reply")
  /\ UNCHANGED <<client, init, file, starts, said>>

(* Variant: a message that is refused does not leave the loop. *)
ServerRecvGoesOn ==
  /\ server = "wait" /\ wire[Alice] # <<>>
  /\ \E t \in Outcomes(Alice) :
       /\ Receive(Alice, t)
       /\ server' = IF Raises(t) THEN "wait" ELSE IF t = Exit THEN "down" ELSE "reply"
       /\ open' = (open /\ server' # "down")
  /\ UNCHANGED <<client, init, file, starts, said>>

(* The loop is left: the connection is closed.  exit(0) and an exception   *)
(* of prepare_send_message or of send end the process instead.             *)
ServerRecv ==
  /\ server = "wait" /\ wire[Alice] # <<>>
  /\ \E t \in Outcomes(Alice) :
       /\ Receive(Alice, t)
       /\ server' = IF Raises(t) THEN "break" ELSE IF t = Exit THEN "down" ELSE "reply"
       /\ open' = (open /\ server' = "reply")
  /\ UNCHANGED <<client, init, file, starts, said>>

ServerReply ==
  /\ server = "reply"
  /\ \E t \in Answers : Send(Alice, t, server', "wait")
  /\ open' = (open /\ server' # "down")
  /\ UNCHANGED <<client, init, file, starts, heard>>

(* A reset connection may lose what is still under way. *)
ServerSeesClose ==
  /\ server = "wait" /\ ~open
  /\ server' = "break"
  /\ UNCHANGED <<party, client, init, open, wire, file, starts, said, heard>>

(* dump(alices_state, open(STATE_FILE, 'wb')): truncate, then write. *)
Truncate ==
  /\ server = "break"
  /\ IF init THEN server' = "write" /\ file' = NoState
     ELSE server' = "down" /\ UNCHANGED file
  /\ UNCHANGED <<party, client, init, open, wire, starts, said, heard>>

Write ==
  /\ server = "write"
  /\ server' = "down" /\ file' = <<party[Alice]>>
  /\ UNCHANGED <<party, client, init, open, wire, starts, said, heard>>

ServerKilled ==
  /\ server # "down"
  /\ server' = "down"
  /\ open' = (open /\ server \notin {"wait", "reply"})
  /\ UNCHANGED <<party, client, init, wire, file, starts, said, heard>>

------------------------------------------------------------------------------
(* Bob's process: client *)

Connect ==
  /\ client = "down" /\ server = "listen"
  /\ client' = "send" /\ server' = "wait"
  /\ party' = [party EXCEPT ![Bob] = Fresh(Bob)]
  /\ open' = TRUE /\ wire' = NoWire
  /\ said' = Silence /\ heard' = Silence
  /\ UNCHANGED <<init, file, starts>>

ClientSend ==
  /\ client = "send"
  /\ \E t \in Texts : Send(Bob, t, client', "wait")
  /\ open' = (open /\ client' # "down")
  /\ UNCHANGED <<server, init, file, starts, heard>>

ClientRecv ==
  /\ client = "wait" /\ wire[Bob] # <<>>
  /\ \E t \in Outcomes(Bob) :
       /\ Receive(Bob, t)
       /\ client' = IF Raises(t) \/ Len(heard'[Bob]) = Rounds THEN "down" ELSE "send"
  /\ open' = (open /\ client' # "down")
  /\ UNCHANGED <<server, init, file, starts, said>>

ClientSeesClose ==
  /\ client = "wait" /\ ~open
  /\ client' = "down"
  /\ UNCHANGED <<party, server, init, open, wire, file, starts, said, heard>>

ClientKilled ==
  /\ client # "down"
  /\ client' = "down" /\ open' = FALSE
  /\ UNCHANGED <<party, server, init, wire, file, starts, said, heard>>

------------------------------------------------------------------------------
ServerStep == ServerRecv \/ ServerReply \/ ServerSeesClose \/ Truncate \/ Write
ClientStep == ClientSend \/ ClientRecv \/ ClientSeesClose

Next == \/ \E i \in BOOLEAN : StartServer(i)
        \/ Connect
        \/ ServerStep \/ ClientStep
        \/ ServerKilled \/ ClientKilled

Spec == Init /\ [][Next]_vars

(* A process that runs takes its next step; nobody has to start one. *)
FairSpec == Spec /\ WF_vars(ServerStep) /\ WF_vars(ClientStep)

------------------------------------------------------------------------------
(* Properties *)

Elements == Parties \X (0..MaxStarts) \X (0..MaxVersion + 1)
SignedDatas == [element : Elements, key : SUBSET Elements, text : Texts \cup Answers]

Messages == [data : SignedDatas, signature : Seq(SignedDatas)]

PartyStates == [element : Elements, remote : Elements,
                version : 1..MaxVersion + 1, signed : Seq(SignedDatas),
                received : Seq(SignedDatas), received_ctr : Nat]

(* Every variable has its type. *)
TypeOK ==
  /\ party \in [Parties -> PartyStates]
  /\ server \in ServerPhases /\ client \in ClientPhases
  /\ init \in BOOLEAN /\ open \in BOOLEAN
  /\ wire \in [Parties -> Seq(Messages)]
  /\ file \in Seq(PartyStates) /\ Len(file) <= 1
  /\ starts \in 0..MaxStarts
  /\ said \in [Parties -> Seq(Texts \cup Answers)]
  /\ heard \in [Parties -> Seq(Texts \cup Answers)]

(* The state file never holds a message that was read and not answered:    *)
(* the loop of server is only left for the dump before a message counts    *)
(* or after its answer was signed.                                         *)
FileBalanced ==
  \A i \in DOMAIN file : /\ Len(file[i].received) = Len(file[i].signed)
                         /\ file[i].received_ctr = Len(file[i].received)

(* client always starts from the key files, so that a server started from  *)
(* the state of an earlier conversation reads nothing from it: whatever    *)
(* Alice reads, she has read all she knows of in this connection.          *)
NothingResumed ==
  open /\ heard[Alice] # <<>> => Len(party[Alice].received) = Len(heard[Alice])

(* A party that is to send finds that its secret key, which deletes itself *)
(* after MaxVersion signatures (SecretKey.update), still signs: the file   *)
(* carries the version of Alice's key over restarts, but a server that     *)
(* goes on from it is never asked for an answer.                           *)
KeysLast == /\ server = "reply" => Signs(Alice)
            /\ client = "send" => Signs(Bob)

(* Each party reads what the other has sent, in order: the new element of  *)
(* every message and the one that its key was made with are the same on    *)
(* both sides, over kills, lost connections and restarts.                  *)
Talk == INSTANCE Conversation WITH Texts <- Texts \cup Answers
ImplementsConversation == Talk!Spec

(* Neither process waits for ever for a message that nobody will send,     *)
(* once the two are connected.                                             *)
EveryoneEnds ==
  /\ client # "down" ~> client = "down"
  /\ server \notin {"down", "listen"} ~> server \in {"down", "listen"}
==============================================================================
