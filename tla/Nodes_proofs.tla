----------------------------- MODULE Nodes_proofs -----------------------------
(***************************************************************************)
(* What holds of the nodes' own code: of how a node registers, of the      *)
(* gateway that retransmits the computer's frames, and of the modules that *)
(* drive the wheels.                                                       *)
(*                                                                         *)
(* Registration, for any number of topics, of other nodes and of stale     *)
(* responses, whatever headers collide: whatever is on its way to the node *)
(* answers a request it has made, in the node id it was given, or another  *)
(* node's; the promise in the buffer expects the header of the response to *)
(* the current request; so a match brings an id that came with that        *)
(* header, and once matched the promise is out of the buffer and its       *)
(* message stays as it is until the task has read it.                      *)
(***************************************************************************)
EXTENDS Registration, Retransmitter, Locomotion, FiniteSetTheorems, TLAPS

\* What was asked so far and what answers it, with the node id the node was given.
Asked     == {q \in Request : q <= request}
Questions == {[head |-> HeaderOf(q, answer[1]), id |-> Assigned[q]] : q \in Asked}
Answers   == {Response(q) : q \in Asked}
Arrivals  == Answers \cup Strangers

\* What is in the buffer, on the bus and in the ring.
Contents ==
  /\ promise = [mask |-> promise.mask, signal |-> promise.signal, msg |-> promise.msg]
  /\ occupied \in BOOLEAN /\ signal \in BOOLEAN
  /\ request \in Nat \ {0}
  /\ bus \subseteq Questions /\ strangers \subseteq Strangers
  /\ ring \in Seq(Arrivals) /\ handled \subseteq Arrivals
  /\ DOMAIN answer = Request

\* Where the application task is, against what the promise has seen.
Waiting == pc \in {"send", "then", "wait", "blocked", "run"}

Progress ==
  /\ pc \in {"match", "send", "then", "wait", "blocked", "run"}
  /\ Waiting => request \in Request
  /\ occupied => Waiting /\ pc # "run" /\ promise.mask = Response(request).head
  /\ Waiting /\ ~occupied => \E arrival \in Alike(request) : promise.msg.id = arrival.id
  /\ signal => ~occupied /\ pc \in {"wait", "blocked"}
  /\ promise.signal => pc \in {"wait", "blocked", "run"}

RegistrationInv == Contents /\ Progress /\ OwnAnswer /\ FilterFollowsPromise

\* A header has its four fields.
Fields(h) == h = [ctrl |-> h.ctrl, node_id |-> h.node_id, step |-> h.step, hash |-> h.hash]

LEMMA HeadersHaveFields ==
  /\ \A h \in Header : Fields(h)
  /\ \A q \in Request : Fields(Response(q).head)
<1>1. ASSUME NEW h \in Header PROVE Fields(h)
  BY DEF Header, NodeHeader, TopicHeader, Fields
<1>2. ASSUME NEW q \in Request PROVE Fields(Response(q).head)
  <2>1. \E c, n, x :
          HeaderOf(q, answer[1]) = [ctrl |-> c, node_id |-> n, step |-> 0, hash |-> x]
    BY DEF HeaderOf, RegisterHeader, SubscribeHeader, AdvertiseHeader
  <2>2. \E c, n, x :
          Response(q).head = [ctrl |-> c, node_id |-> n, step |-> 1, hash |-> x]
    BY <2>1 DEF Response, ResponseTo
  <2> QED
    BY <2>2 DEF Fields
<1> QED
  BY <1>1, <1>2

\* A response that agrees with the one waited for has its header: the fields that
\* are compared are all there are.
LEMMA HeaderTells ==
  ASSUME request \in Request,
         NEW arrival \in Arrivals, Agree(arrival.head, Response(request).head)
  PROVE  arrival \in Alike(request)
<1>1. Fields(arrival.head)
  <2>1. CASE arrival \in Answers
    BY <2>1, HeadersHaveFields DEF Answers, Asked
  <2>2. CASE arrival \in Strangers
    <3>1. arrival.head \in Header
      BY <2>2, RegistrationAssumption DEF Frame
    <3> QED
      BY <3>1, HeadersHaveFields
  <2> QED
    BY <2>1, <2>2 DEF Arrivals
<1>2. Fields(Response(request).head)
  BY HeadersHaveFields
<1>3. arrival.head = Response(request).head
  BY <1>1, <1>2 DEF Agree, Fields
<1>4. arrival \in Strangers \cup {Response(q) : q \in 1 .. request}
  BY DEF Arrivals, Answers, Asked, Request
<1> QED
  BY <1>3, <1>4 DEF Alike

\* The registration of the node does not depend on an id of the node.
LEMMA FirstHeader == \A m, n : HeaderOf(1, m) = HeaderOf(1, n)
BY DEF HeaderOf

\* The node's id changes only while the node's own registration is the last, so no
\* header of a request made so far changes.
LEMMA HeadersStay ==
  ASSUME NEW q \in Request, (answer'[1] = answer[1]) \/ q = 1
  PROVE  /\ HeaderOf(q, answer'[1]) = HeaderOf(q, answer[1])
         /\ Response(q)' = Response(q)
<1>1. HeaderOf(q, answer'[1]) = HeaderOf(q, answer[1])
  BY FirstHeader
<1> QED
  BY <1>1 DEF Response

LEMMA AlikeStays ==
  ASSUME NEW r \in Request, (answer'[1] = answer[1]) \/ r = 1
  PROVE  Alike(r)' = Alike(r)
<1>1. ASSUME NEW q \in 1 .. r PROVE Response(q)' = Response(q)
  <2>1. q \in Request /\ (r = 1 => q = 1)
    BY DEF Request
  <2> QED
    BY <2>1, HeadersStay
<1>2. Response(r)' = Response(r)
  BY HeadersStay
<1> QED
  BY <1>1, <1>2 DEF Alike

LEMMA AskedStay ==
  ASSUME request \in Nat \ {0}, request' \in Nat, request <= request',
         (answer'[1] = answer[1]) \/ request = 1
  PROVE  Questions \subseteq Questions' /\ Arrivals \subseteq Arrivals'
<1>1. Asked \subseteq Asked' /\ Asked \subseteq Request
  BY DEF Asked, Request
<1>2. ASSUME NEW q \in Asked PROVE (answer'[1] = answer[1]) \/ q = 1
  BY DEF Asked, Request
<1>3. ASSUME NEW q \in Asked
      PROVE  /\ HeaderOf(q, answer'[1]) = HeaderOf(q, answer[1])
             /\ Response(q)' = Response(q)
  BY <1>1, <1>2, HeadersStay
<1>4. ASSUME NEW x \in Questions PROVE x \in Questions'
  BY <1>1, <1>3 DEF Questions
<1>5. ASSUME NEW x \in Answers PROVE x \in Answers'
  BY <1>1, <1>3 DEF Answers
<1> QED
  BY <1>4, <1>5 DEF Arrivals

\* A step that answers nothing leaves what OwnAnswer speaks of.
LEMMA NothingAnswered ==
  ASSUME OwnAnswer, UNCHANGED <<request, answer>>
  PROVE  /\ OwnAnswer' /\ Questions' = Questions /\ Arrivals' = Arrivals
         /\ \A r \in Request : Alike(r)' = Alike(r) /\ Response(r)' = Response(r)
<1>1. \A r \in Request : Alike(r)' = Alike(r) /\ Response(r)' = Response(r)
  BY AlikeStays, HeadersStay
<1>2. OwnAnswer'
  BY <1>1 DEF OwnAnswer
<1>3. Questions' = Questions
  BY DEF Questions, Asked
<1>4. Arrivals' = Arrivals
  BY <1>1 DEF Arrivals, Answers, Asked
<1> QED
  BY <1>1, <1>2, <1>3, <1>4

\* A message taken from a sequence of frames leaves a sequence of them.
LEMMA FramesStay ==
  ASSUME NEW S, NEW T, S \subseteq T, NEW s \in Seq(S)
  PROVE  s \in Seq(T)
OBVIOUS

LEMMA InitInvariant == Init => RegistrationInv
<1> SUFFICES ASSUME Init PROVE RegistrationInv
  OBVIOUS
<1>1. Contents
  <2>1. /\ occupied = FALSE /\ signal = FALSE /\ request = 1 /\ bus = {} /\ handled = {}
        /\ strangers = Strangers /\ ring = <<>>
        /\ promise = [mask |-> NoHeader, signal |-> FALSE, msg |-> NoFrame]
        /\ answer = [r \in Request |-> None]
    BY DEF Init, Zero
  <2>2. ring \in Seq(Arrivals)
    BY <2>1
  <2>3. DOMAIN answer = Request
    BY <2>1
  <2>4. promise = [mask |-> promise.mask, signal |-> promise.signal, msg |-> promise.msg]
    BY <2>1
  <2>5. request \in Nat \ {0}
    BY <2>1
  <2>6. /\ bus \subseteq Questions /\ strangers \subseteq Strangers
        /\ handled \subseteq Arrivals /\ occupied \in BOOLEAN /\ signal \in BOOLEAN
    BY <2>1, Zenon
  <2> QED
    BY <2>2, <2>3, <2>4, <2>5, <2>6, Zenon DEF Contents
<1>2. Progress
  BY DEF Init, Progress, Waiting, Zero
<1>3. OwnAnswer
  BY DEF Init, OwnAnswer, Request
<1>4. FilterFollowsPromise
  BY DEF Init, FilterFollowsPromise
<1> QED
  BY <1>1, <1>2, <1>3, <1>4 DEF RegistrationInv

\* Every step keeps the invariant.
LEMMA NextInvariant ==
  ASSUME RegistrationInv, [Next]_vars
  PROVE  RegistrationInv'
<1> USE DEF RegistrationInv
<1>0. UNCHANGED <<request, answer>> =>
        /\ OwnAnswer' /\ Questions' = Questions /\ Arrivals' = Arrivals
        /\ \A r \in Request : Alike(r)' = Alike(r) /\ Response(r)' = Response(r)
  BY NothingAnswered
<1>a. UNCHANGED <<request, answer, promise, occupied, pc, signal>> => Progress'
  <2> SUFFICES ASSUME UNCHANGED <<request, answer, promise, occupied, pc, signal>>
               PROVE  Progress'
    OBVIOUS
  <2>1. request \in Request =>
          Alike(request)' = Alike(request) /\ Response(request)' = Response(request)
    BY <1>0
  <2>2. Waiting' = Waiting
    BY DEF Waiting
  <2> QED
    BY <2>1, <2>2, <1>0 DEF Progress
<1>1. CASE Match
  <2> USE <1>1
  <2>1. request \in Request /\ ~occupied
    BY DEF Match, Progress, Waiting
  <2>2. ResponseTo(RequestHeader) = Response(request).head
    BY DEF Response, RequestHeader
  <2>3. /\ occupied' = TRUE /\ accepts' = {Response(request).head} /\ pc' = "send"
        /\ promise' = [promise EXCEPT !.mask = Response(request).head]
        /\ UNCHANGED <<request, signal, network, answer>>
    BY <2>1, <2>2, Zenon DEF Match
  <2>5. /\ promise'.mask = Response(request).head /\ promise'.signal = promise.signal
        /\ promise' = [mask |-> promise'.mask, signal |-> promise'.signal, msg |-> promise'.msg]
    BY <2>3 DEF Contents
  <2>4. Contents'
    BY <2>1, <2>3, <2>5, <1>0 DEF Contents, network
  <2>6. Progress'
    <3>1. ~signal /\ ~promise.signal /\ pc' = "send"
      BY <2>1, <2>3 DEF Match, Progress, Waiting
    <3>2. ~signal' /\ ~promise'.signal /\ occupied' /\ request' = request
      BY <2>3, <2>5, <3>1
    <3>3. promise'.mask = Response(request)'.head
      BY <2>1, <2>3, <2>5, <1>0
    <3> QED
      BY <2>1, <3>1, <3>2, <3>3 DEF Progress, Waiting
  <2>8. FilterFollowsPromise'
    BY <2>3, <2>5 DEF FilterFollowsPromise
  <2> QED
    BY <2>3, <2>4, <2>6, <2>8, <1>0
<1>2. CASE SendRequest
  <2> USE <1>2
  <2>1. request \in Asked
    BY DEF SendRequest, Progress, Waiting, Asked, Contents
  <2>3. bus' \subseteq Questions
    BY <2>1 DEF SendRequest, Questions, Contents, RequestHeader
  <2>2. UNCHANGED <<request, manager, signal, strangers, ring, handled, replays, answer>>
    BY DEF SendRequest
  <2>4. Contents'
    BY <2>2, <2>3, <1>0 DEF Contents, manager
  <2>5. Progress'
    <3>1. request \in Request /\ Alike(request)' = Alike(request)
          /\ Response(request)' = Response(request)
      BY <2>1, <2>2, <1>0 DEF Asked
    <3>2. pc = "send" /\ pc' = "then"
      BY DEF SendRequest
    <3> QED
      BY <2>2, <3>1, <3>2 DEF Progress, Waiting, manager
  <2>6. FilterFollowsPromise'
    BY DEF SendRequest, FilterFollowsPromise, manager
  <2> QED
    BY <2>2, <2>4, <2>5, <2>6, <1>0
<1>3. CASE StoreSignal
  <2> USE <1>3
  <2>1. /\ promise'.mask = promise.mask /\ promise'.msg = promise.msg
        /\ promise' = [mask |-> promise'.mask, signal |-> promise'.signal, msg |-> promise'.msg]
        /\ pc = "then" /\ pc' = "wait"
        /\ UNCHANGED <<request, occupied, accepts, signal, network, answer>>
    BY DEF StoreSignal, Contents
  <2>2. Contents'
    BY <2>1, <1>0 DEF Contents, network
  <2>3. Progress'
    <3>1. request \in Request /\ Alike(request)' = Alike(request)
          /\ Response(request)' = Response(request)
      BY <2>1, <1>0 DEF Progress, Waiting
    <3> QED
      BY <2>1, <3>1 DEF Progress, Waiting
  <2>4. FilterFollowsPromise'
    BY <2>1 DEF FilterFollowsPromise
  <2> QED
    BY <2>1, <2>2, <2>3, <2>4, <1>0
<1>4. CASE SignalWait
  <2> USE <1>4
  <2>1. /\ UNCHANGED <<request, manager, network, answer>>
        /\ signal' \in BOOLEAN
        /\ pc \in {"wait", "blocked"} /\ pc' \in {"wait", "blocked", "run"}
        /\ pc' = "run" => signal /\ ~signal'
        /\ signal' => signal
    BY DEF SignalWait, Contents
  <2>2. Contents'
    BY <2>1, <1>0 DEF Contents, manager, network
  <2>3. Progress'
    <3>1. request \in Request /\ Alike(request)' = Alike(request)
          /\ Response(request)' = Response(request)
      BY <2>1, <1>0 DEF Progress, Waiting
    <3> QED
      BY <2>1, <3>1 DEF Progress, Waiting, manager
  <2>4. FilterFollowsPromise'
    BY <2>1 DEF FilterFollowsPromise, manager
  <2> QED
    BY <2>1, <2>2, <2>3, <2>4, <1>0
<1>5. CASE RunCallback
  <2> USE <1>5
  <2>1. /\ request \in Request /\ ~occupied /\ ~signal
        /\ \E arrival \in Alike(request) : promise.msg.id = arrival.id
    BY DEF RunCallback, Progress, Waiting
  <2>2. /\ answer' = [answer EXCEPT ![request] = promise.msg.id]
        /\ promise' = Zero /\ request' = request + 1 /\ pc' = "match"
        /\ UNCHANGED <<occupied, accepts, signal, network>>
    BY DEF RunCallback
  <2>a. request \in Nat \ {0} /\ request' \in Nat \ {0} /\ request <= request'
    BY <2>2 DEF Contents
  <2>b. DOMAIN answer' = Request /\ answer'[request] = promise.msg.id
        /\ \A r \in Request : r # request => answer'[r] = answer[r]
    BY <2>1, <2>2 DEF Contents
  <2>c. (answer'[1] = answer[1]) \/ request = 1
    <3>1. 1 \in Request
      BY <2>1 DEF Request
    <3> QED
      BY <2>b, <3>1
  <2>d. Questions \subseteq Questions' /\ Arrivals \subseteq Arrivals'
    BY <2>a, <2>c, AskedStay
  <2>3. Contents'
    <3>1. ring' \in Seq(Arrivals')
      <4>1. ring' = ring /\ ring \in Seq(Arrivals)
        BY <2>2 DEF Contents, network
      <4> QED
        BY <4>1, <2>d, FramesStay
    <3>2. bus' \subseteq Questions' /\ handled' \subseteq Arrivals'
          /\ strangers' \subseteq Strangers
      BY <2>2, <2>d DEF Contents, network
    <3>3. promise' = [mask |-> promise'.mask, signal |-> promise'.signal, msg |-> promise'.msg]
      BY <2>2 DEF Zero
    <3> QED
      BY <2>2, <2>a, <2>b, <3>1, <3>2, <3>3 DEF Contents
  <2>4. Progress'
    <3>1. ~promise'.signal
      BY <2>2 DEF Zero
    <3> QED
      BY <2>1, <2>2, <3>1 DEF Progress, Waiting
  <2>5. OwnAnswer'
    <3> SUFFICES ASSUME NEW r \in Request, r < request'
                 PROVE  \E arrival \in Alike(r)' : answer'[r] = arrival.id
      BY DEF OwnAnswer
    <3>1. r = request \/ (r # request /\ r < request)
      BY <2>2, <2>a DEF Request
    <3>2. (answer'[1] = answer[1]) \/ r = 1
      BY <2>c, <2>a, <3>1 DEF Request
    <3>3. Alike(r)' = Alike(r)
      BY <3>2, AlikeStays
    <3>4. CASE r = request
      BY <2>1, <2>b, <3>3, <3>4
    <3>5. CASE r # request /\ r < request
      BY <2>b, <3>3, <3>5 DEF OwnAnswer
    <3> QED
      BY <3>1, <3>4, <3>5
  <2>6. FilterFollowsPromise'
    BY <2>1, <2>2 DEF FilterFollowsPromise
  <2> QED
    BY <2>3, <2>4, <2>5, <2>6
<1>6. ASSUME NEW arrival \in Arrivals, Receive(arrival)
      PROVE  ring' \in Seq(Arrivals)
  BY <1>6 DEF Receive, Contents
<1>7. CASE Respond
  <2> USE <1>7
  <2>1. PICK q \in bus : /\ bus' = bus \ {q}
                         /\ Receive([q EXCEPT !.head = ResponseTo(q.head)])
                         /\ UNCHANGED <<application, manager, signal, strangers, handled,
                                        replays, answer>>
    BY DEF Respond
  <2>2. PICK r \in Asked : q = [head |-> HeaderOf(r, answer[1]), id |-> Assigned[r]]
    BY <2>1 DEF Contents, Questions
  <2>3. [q EXCEPT !.head = ResponseTo(q.head)] = Response(r)
    BY <2>2 DEF Response
  <2>4. [q EXCEPT !.head = ResponseTo(q.head)] \in Arrivals
    BY <2>3 DEF Arrivals, Answers
  <2>5. ring' \in Seq(Arrivals)
    BY <2>1, <2>4, <1>6
  <2>a. UNCHANGED <<request, pc, occupied, promise, accepts, signal, strangers, handled, answer>>
    BY <2>1 DEF application, manager
  <2>6. Contents'
    BY <2>1, <2>5, <2>a, <1>0 DEF Contents
  <2>7. Progress' /\ FilterFollowsPromise'
    BY <2>a, <1>a DEF FilterFollowsPromise
  <2> QED
    BY <2>6, <2>7, <2>a, <1>0
<1>8. CASE RespondToStranger
  <2> USE <1>8
  <2>1. PICK arrival \in strangers :
          /\ strangers' = strangers \ {arrival}
          /\ Receive(arrival)
          /\ UNCHANGED <<application, manager, signal, bus, handled, replays, answer>>
    BY DEF RespondToStranger
  <2>2. arrival \in Arrivals
    BY DEF Contents, Arrivals
  <2>3. ring' \in Seq(Arrivals)
    BY <2>1, <2>2, <1>6
  <2>a. UNCHANGED <<request, pc, occupied, promise, accepts, signal, bus, handled, answer>>
    BY <2>1 DEF application, manager
  <2>4. Contents'
    BY <2>1, <2>3, <2>a, <1>0 DEF Contents
  <2>5. Progress' /\ FilterFollowsPromise'
    BY <2>a, <1>a DEF FilterFollowsPromise
  <2> QED
    BY <2>4, <2>5, <2>a, <1>0
<1>9. CASE Replay
  <2> USE <1>9
  <2>1. PICK arrival \in handled : ring' = <<arrival>>
    BY DEF Replay
  <2>2. ring' \in Seq(Arrivals)
    BY <2>1 DEF Contents
  <2>a. UNCHANGED <<request, pc, occupied, promise, accepts, signal, bus, strangers, handled,
                    answer>>
    BY DEF Replay, application, manager
  <2>3. Contents'
    BY <2>2, <2>a, <1>0 DEF Contents
  <2>4. Progress' /\ FilterFollowsPromise'
    BY <2>a, <1>a DEF FilterFollowsPromise
  <2> QED
    BY <2>3, <2>4, <2>a, <1>0
<1>10. CASE HandleFrame
  <2> USE <1>10
  <2> DEFINE arrival == Head(ring)
  <2>1. arrival \in Arrivals /\ ring' \in Seq(Arrivals) /\ handled' \subseteq Arrivals
    BY DEF HandleFrame, Contents
  <2>2. UNCHANGED <<request, pc, bus, strangers, replays, answer>>
    BY DEF HandleFrame, application
  <2>4. CASE Matches(arrival)
    <3>1. /\ occupied /\ occupied' = FALSE /\ accepts' = {}
          /\ promise' = [promise EXCEPT !.msg = arrival]
          /\ signal' = (signal \/ promise.signal)
      BY <2>4 DEF HandleFrame, Matches, Trigger
    <3>2. request \in Request /\ pc # "run" /\ Waiting
      BY <3>1 DEF Progress
    <3>3. arrival \in Alike(request)
      <4>1. Agree(arrival.head, Response(request).head)
        BY <2>4, <3>1 DEF Matches, Progress
      <4> QED
        BY <4>1, <2>1, <3>2, HeaderTells
    <3>4. /\ promise'.msg = arrival /\ promise'.signal = promise.signal
          /\ promise' = [mask |-> promise'.mask, signal |-> promise'.signal, msg |-> promise'.msg]
      BY <3>1 DEF Contents
    <3>a. signal' \in BOOLEAN
      BY <3>1
    <3>5. Contents'
      BY <2>1, <2>2, <3>1, <3>4, <3>a, <1>0 DEF Contents
    <3>b. Alike(request)' = Alike(request)
      BY <2>2, <3>2, <1>0
    <3>6. Progress'
      <4>1. \E f \in Alike(request)' : promise'.msg.id = f.id
        BY <3>3, <3>4, <3>b
      <4> HIDE DEF arrival
      <4> QED
        BY <2>2, <3>1, <3>2, <3>4, <4>1 DEF Progress, Waiting
    <3>7. FilterFollowsPromise'
      BY <3>1 DEF FilterFollowsPromise
    <3> QED
      BY <2>2, <3>5, <3>6, <3>7, <1>0
  <2>5. CASE ~Matches(arrival)
    <3>1. UNCHANGED <<occupied, promise, accepts, signal>>
      BY <2>5 DEF HandleFrame, manager
    <3>2. Contents'
      BY <2>1, <2>2, <3>1, <1>0 DEF Contents
    <3>3. Progress' /\ FilterFollowsPromise'
      BY <2>2, <3>1, <1>a DEF FilterFollowsPromise
    <3> QED
      BY <2>2, <3>2, <3>3, <1>0
  <2> QED
    BY <2>4, <2>5
<1>11. CASE UNCHANGED vars
  <2>1. UNCHANGED <<request, pc, occupied, promise, accepts, signal, bus, strangers, ring,
                    handled, answer>>
    BY <1>11 DEF vars, application, manager, network
  <2>2. Contents' /\ FilterFollowsPromise'
    BY <2>1, <1>0 DEF Contents, FilterFollowsPromise
  <2> QED
    BY <2>1, <2>2, <1>0, <1>a
<1> QED
  BY <1>1, <1>2, <1>3, <1>4, <1>5, <1>7, <1>8, <1>9, <1>10, <1>11 DEF Next, Application

THEOREM RegistrationHolds == Spec => []RegistrationInv
<1>1. RegistrationInv /\ [Next]_vars => RegistrationInv'
  BY NextInvariant
<1> QED
  BY <1>1, InitInvariant, PTL DEF Spec

\* However responses, stale responses and responses to other nodes interleave
\* with the application task, every completed registration was given the id of a
\* response with its own header, whichever headers collide (do_register_node,
\* register_topic).
THEOREM AnswersAreOwn == Spec => []OwnAnswer
<1>1. RegistrationInv => OwnAnswer
  BY DEF RegistrationInv
<1> QED
  BY <1>1, RegistrationHolds, PTL

\* match always finds the one place of the promise buffer that its loop looks at.
THEOREM PlaceStaysFree == Spec => []PlaceIsFree
<1>1. RegistrationInv => PlaceIsFree
  BY DEF RegistrationInv, Progress, Waiting, PlaceIsFree
<1> QED
  BY <1>1, RegistrationHolds, PTL

\* match and match_message keep the control object's filter equal to the promise.
THEOREM FilterFollows == Spec => []FilterFollowsPromise
<1>1. RegistrationInv => FilterFollowsPromise
  BY DEF RegistrationInv
<1> QED
  BY <1>1, RegistrationHolds, PTL

----------------------------------------------------------------------------
(***************************************************************************)
(* The gateway, for any number of wheels, any numbers, size of the FIFO,   *)
(* number of frames and losses.                                            *)
(*                                                                         *)
(* Bytes are read in the order they were sent, so a body that ends as far  *)
(* behind its start as it is long has lost nothing; and after a body that  *)
(* was as sent the bytes are the next frame's, whose magic comes first, as *)
(* long as none was lost (AfterTheLast).  For the frames that are lost     *)
(* without being hit there is an account.  Between the last byte read and  *)
(* those held, and behind the last of them, there are holes where bytes    *)
(* were lost.  A body falls out of step only by stepping over a hole or by *)
(* beginning where no frame does (misled), and then it owes the frame      *)
(* whose bytes it swallows, and the one in which it began besides, if that *)
(* lost nothing (Trailing); a frame is missed when that debt falls due, or *)
(* when the search for the magic steps over a hole.  So the frames missed, *)
(* the debt and the holes never outnumber the runs of lost bytes and the   *)
(* false starts together.                                                  *)
(***************************************************************************)

Octets == Value \cup {"EF", "BE", "ED", "FE", "AD", "DE"}

\* A byte as it was sent.
Byte ==
  {b \in [value : Octets, frame : Nat \ {0}, at : 1 .. FrameSize] :
     /\ b.at <= 4 => b.value = startMagic[b.at]
     /\ b.at = FrameSize => b.value = "DE"}

\* The lengths of the magics, of a body and of a frame.
LEMMA Sizes ==
  /\ NUM_MSG \in Nat \ {0} /\ Data = 1 .. NUM_MSG
  /\ Len(startMagic) = 4 /\ Len(endMagic) = 4
  /\ BodySize \in Nat /\ BodySize > 4 /\ BodySize = NUM_MSG + 4
  /\ FrameSize \in Nat /\ FrameSize = BodySize + 4
BY RetransmitterAssumption DEF NUM_MSG, Data, startMagic, endMagic, BodySize, FrameSize

\* What is in the concatenation of two sequences, and where.
LEMMA Concatenation ==
  ASSUME NEW S, NEW s \in Seq(S), NEW t \in Seq(S)
  PROVE  /\ s \o t \in Seq(S) /\ Len(s \o t) = Len(s) + Len(t)
         /\ \A k \in 1 .. Len(s) : (s \o t)[k] = s[k]
         /\ \A k \in Len(s) + 1 .. Len(s) + Len(t) : (s \o t)[k] = t[k - Len(s)]
OBVIOUS

\* A frame begins with the magic and ends with DE.
LEMMA FrameBytes ==
  ASSUME NEW s \in Frames
  PROVE  /\ Len(s) = FrameSize /\ s \in Seq(Octets)
         /\ \A k \in 1 .. 4 : s[k] = startMagic[k]
         /\ s[FrameSize] = "DE"
<1>1. PICK data \in [Data -> Value] : s = startMagic \o data \o endMagic
  BY NumbersAssumption DEF Frames, FrameOf
<1>2. data \in Seq(Octets) /\ Len(data) = NUM_MSG
  BY Sizes DEF Octets
<1>3. startMagic \in Seq(Octets) /\ endMagic \in Seq(Octets)
  BY DEF startMagic, endMagic, Octets
<1> DEFINE front == startMagic \o data
<1>4. /\ front \in Seq(Octets) /\ Len(front) = 4 + NUM_MSG
      /\ \A k \in 1 .. 4 : front[k] = startMagic[k]
      /\ \A k \in 5 .. 4 + NUM_MSG : front[k] = data[k - 4]
  <2>1. /\ front \in Seq(Octets) /\ Len(front) = Len(startMagic) + Len(data)
        /\ \A k \in 1 .. Len(startMagic) : front[k] = startMagic[k]
        /\ \A k \in Len(startMagic) + 1 .. Len(startMagic) + Len(data) :
             front[k] = data[k - Len(startMagic)]
    BY <1>2, <1>3, Concatenation
  <2>2. Len(startMagic) = 4 /\ Len(data) = NUM_MSG
    BY <1>2, Sizes
  <2> HIDE DEF front
  <2> QED
    BY <2>1, <2>2
<1> HIDE DEF front
<1>5. /\ s \in Seq(Octets) /\ Len(s) = FrameSize
      /\ \A k \in 1 .. 4 + NUM_MSG : s[k] = front[k]
      /\ \A k \in 5 + NUM_MSG .. FrameSize : s[k] = endMagic[k - 4 - NUM_MSG]
  BY <1>1, <1>3, <1>4, Sizes DEF front
<1>6. \A k \in 1 .. 4 : s[k] = startMagic[k]
  BY <1>4, <1>5, Sizes
<1>10. s[FrameSize] = "DE"
  BY <1>5, Sizes DEF endMagic
<1> QED
  BY <1>5, <1>6, <1>10, Sizes

----------------------------------------------------------------------------
PositionOf(f, a) == (f - 1) * FrameSize + a

\* Positions are ordered like frames, and in a frame like places.
LEMMA Places ==
  ASSUME NEW f \in Nat \ {0}, NEW g \in Nat \ {0},
         NEW a \in 1 .. FrameSize, NEW c \in 1 .. FrameSize
  PROVE  /\ PositionOf(f, a) \in Nat \ {0}
         /\ f < g => PositionOf(f, a) < PositionOf(g, c)
         /\ f = g => PositionOf(g, c) - PositionOf(f, a) = c - a
         /\ g = f + 1 => PositionOf(g, c) - PositionOf(f, a) = FrameSize + c - a
<1>1. (f - 1) * FrameSize \in Nat /\ (g - 1) * FrameSize \in Nat
  BY Sizes
<1>2. ASSUME f < g PROVE (f - 1) * FrameSize + FrameSize <= (g - 1) * FrameSize
  <2>1. (g - 1 - f) * FrameSize \in Nat
    BY <1>2, Sizes
  <2>2. (g - 1) * FrameSize = (f - 1) * FrameSize + FrameSize + (g - 1 - f) * FrameSize
    BY Sizes
  <2> QED
    BY <1>1, <2>1, <2>2, Sizes
<1>3. g = f + 1 => (g - 1) * FrameSize = (f - 1) * FrameSize + FrameSize
  BY Sizes
<1> QED
  BY <1>1, <1>2, <1>3, Sizes DEF PositionOf

\* A position is that of one place of one frame.
LEMMA OnePlace ==
  \A f, g \in Nat \ {0}, a, c \in 1 .. FrameSize :
    /\ PositionOf(f, a) = PositionOf(g, c) => f = g /\ a = c
    /\ PositionOf(f, a) <= PositionOf(g, c) => f <= g
    /\ PositionOf(f, a) < PositionOf(g, c) => f < g \/ (f = g /\ a < c)
<1> SUFFICES ASSUME NEW f \in Nat \ {0}, NEW g \in Nat \ {0},
                    NEW a \in 1 .. FrameSize, NEW c \in 1 .. FrameSize
             PROVE  /\ PositionOf(f, a) = PositionOf(g, c) => f = g /\ a = c
                    /\ PositionOf(f, a) <= PositionOf(g, c) => f <= g
                    /\ PositionOf(f, a) < PositionOf(g, c) => f < g \/ (f = g /\ a < c)
  OBVIOUS
<1>1. PositionOf(f, a) \in Nat /\ PositionOf(g, c) \in Nat
  BY Places
<1>2. CASE f < g
  <2>1. PositionOf(f, a) < PositionOf(g, c)
    BY <1>2, Places
  <2> QED
    BY <1>1, <1>2, <2>1
<1>3. CASE g < f
  <2>1. PositionOf(g, c) < PositionOf(f, a)
    BY <1>3, Places
  <2> QED
    BY <1>1, <1>3, <2>1
<1>4. CASE f = g
  <2>1. PositionOf(g, c) - PositionOf(f, a) = c - a
    BY <1>4, Places
  <2> QED
    BY <1>1, <1>4, <2>1, Sizes
<1> QED
  BY <1>2, <1>3, <1>4

\* The position of a byte that was sent.
LEMMA BytePosition ==
  ASSUME NEW b \in Byte
  PROVE  /\ b.frame \in Nat \ {0} /\ b.at \in 1 .. FrameSize
         /\ Position(b) = PositionOf(b.frame, b.at)
         /\ Position(b) \in Nat \ {0}
<1>1. b.frame \in Nat \ {0} /\ b.at \in 1 .. FrameSize
  BY DEF Byte
<1> QED
  BY <1>1, Places DEF Position, PositionOf

----------------------------------------------------------------------------
\* The end of what was sent, and the last byte the task has read.
End == PositionOf(frame, at)
LastRead == IF serial = <<>> THEN start ELSE serial[Len(serial)]

RetransmitterTypes ==
  /\ sending \in Frames /\ frame \in Nat \ {0} /\ at \in 0 .. FrameSize
  /\ fifo \in Seq(Byte)
  /\ matched \in 0 .. 4 /\ (matched > 0 => start \in Byte)
  /\ serial \in Seq(Byte) /\ Len(serial) <= BodySize
  /\ serial # <<>> => matched = 4
  /\ delivered \subseteq Nat /\ hit \subseteq Nat
  /\ misled \in Nat /\ gaps \in Nat /\ gap \in BOOLEAN

Stream ==
  /\ \A k \in DOMAIN fifo : Position(fifo[k]) <= End
  /\ \A j, k \in DOMAIN fifo : j < k => Position(fifo[j]) < Position(fifo[k])
  /\ matched > 0 =>
       /\ start.value = startMagic[matched]
       /\ Position(LastRead) <= End
       /\ \A k \in DOMAIN fifo : Position(LastRead) < Position(fifo[k])
  /\ \A k \in DOMAIN serial : k <= Position(serial[k]) - Position(start)
  /\ \A j, k \in DOMAIN serial :
       j <= k => k - j <= Position(serial[k]) - Position(serial[j])

InOrderOfSending == RetransmitterTypes /\ Stream

\* Before the first byte.
LEMMA InitStream == ASSUME RetransmitterInit PROVE InOrderOfSending
<1>1. at \in 0 .. FrameSize
  BY Sizes DEF RetransmitterInit
<1>2. /\ sending \in Frames /\ frame = 1 /\ fifo = <<>> /\ matched = 0 /\ serial = <<>>
      /\ delivered = {} /\ misled = 0 /\ gaps = 0 /\ gap = FALSE /\ hit = {}
  BY DEF RetransmitterInit
<1>3. RetransmitterTypes
  <2>1. <<>> \in Seq(Byte) /\ Len(<<>>) = 0
    OBVIOUS
  <2>2. 0 <= BodySize /\ FALSE \in BOOLEAN /\ {} \subseteq Nat
    BY Sizes
  <2>3. gap \in BOOLEAN /\ hit \subseteq Nat /\ delivered \subseteq Nat
    BY <1>2, Zenon
  <2> QED
    BY <1>1, <1>2, <2>1, <2>2, <2>3 DEF RetransmitterTypes
<1>4. Stream
  BY <1>2 DEF Stream
<1> QED
  BY <1>3, <1>4 DEF InOrderOfSending

\* A byte that comes in is behind all that came before.
LEMMA ArriveStream ==
  ASSUME InOrderOfSending, Arrive PROVE InOrderOfSending'
<1> USE DEF InOrderOfSending
<1> DEFINE b == [value |-> sending[at + 1], frame |-> frame, at |-> at + 1]
<1>0. /\ at \in 0 .. FrameSize - 1 /\ at' = at + 1 /\ at' \in 1 .. FrameSize
      /\ frame \in Nat \ {0} /\ frame' = frame
      /\ UNCHANGED <<sending, matched, serial, start, delivered, misled>>
  BY Sizes DEF Arrive, bodies, RetransmitterTypes
<1>1. b \in Byte
  <2>1. /\ Len(sending) = FrameSize /\ sending \in Seq(Octets)
        /\ \A k \in 1 .. 4 : sending[k] = startMagic[k]
        /\ sending[FrameSize] = "DE"
    BY FrameBytes DEF RetransmitterTypes
  <2>2. sending[at + 1] \in Octets
    BY <2>1, <1>0
  <2>3. b \in [value : Octets, frame : Nat \ {0}, at : 1 .. FrameSize]
    BY <1>0, <2>2
  <2> QED
    BY <1>0, <2>1, <2>3, Sizes DEF Byte
<1>2. End' = End + 1 /\ Position(b) = End + 1 /\ End \in Int
  <2>1. (frame - 1) * FrameSize \in Int
    BY <1>0, Sizes
  <2> QED
    BY <1>0, <2>1 DEF End, PositionOf, Position
<1> HIDE DEF b
<1>3. LastRead' = LastRead
  BY <1>0 DEF LastRead
<1>4. /\ gaps' \in Nat /\ gap' \in BOOLEAN /\ hit' \subseteq Nat
      /\ fifo' = fifo \/ fifo' = Append(fifo, b)
  <2>1. {frame} \subseteq Nat /\ gaps \in Nat /\ gap \in BOOLEAN /\ hit \subseteq Nat
    BY <1>0 DEF RetransmitterTypes
  <2>2. CASE Len(fifo) < FifoSize
    <3>1. fifo' = Append(fifo, b) /\ gap' = FALSE /\ UNCHANGED <<gaps, hit>>
      BY <2>2 DEF Arrive, b
    <3>2. gap' \in BOOLEAN
      BY <3>1, Zenon
    <3> QED
      BY <2>1, <3>1, <3>2
  <2>3. CASE ~(Len(fifo) < FifoSize)
    <3>1. /\ gaps' = (IF gap THEN gaps ELSE gaps + 1) /\ gap' = TRUE
          /\ hit' = hit \cup {frame} /\ UNCHANGED fifo
      BY <2>3 DEF Arrive
    <3>2. gap' \in BOOLEAN
      BY <3>1, Zenon
    <3>3. gaps' \in Nat
      BY <2>1, <3>1
    <3> QED
      BY <2>1, <3>1, <3>2, <3>3
  <2> QED
    BY <2>2, <2>3
<1>5. \A k \in DOMAIN fifo : Position(fifo[k]) \in Nat
  BY BytePosition DEF RetransmitterTypes
<1>6. matched > 0 => LastRead \in Byte /\ Position(LastRead) \in Nat
  BY BytePosition DEF RetransmitterTypes, LastRead
<1>7. /\ fifo' \in Seq(Byte)
      /\ \A k \in DOMAIN fifo' :
           \/ k \in DOMAIN fifo /\ fifo'[k] = fifo[k]
           \/ k = Len(fifo) + 1 /\ fifo'[k] = b
  <2>0. fifo \in Seq(Byte) /\ DOMAIN fifo = 1 .. Len(fifo) /\ Len(fifo) \in Nat
    BY DEF RetransmitterTypes
  <2>1. CASE fifo' = fifo
    BY <2>0, <2>1
  <2>2. CASE fifo' = Append(fifo, b)
    <3>1. /\ fifo' \in Seq(Byte) /\ Len(fifo') = Len(fifo) + 1
          /\ DOMAIN fifo' = 1 .. Len(fifo) + 1
          /\ \A k \in 1 .. Len(fifo) : fifo'[k] = fifo[k]
          /\ fifo'[Len(fifo) + 1] = b
      BY <2>0, <2>2, <1>1
    <3> QED
      BY <2>0, <3>1
  <2> QED
    BY <2>1, <2>2, <1>4
<1>8. RetransmitterTypes'
  BY <1>0, <1>4, <1>7 DEF RetransmitterTypes
<1>9. /\ \A k \in DOMAIN fifo' : Position(fifo'[k]) <= End'
      /\ \A j, k \in DOMAIN fifo' : j < k => Position(fifo'[j]) < Position(fifo'[k])
      /\ matched > 0 => \A k \in DOMAIN fifo' : Position(LastRead) < Position(fifo'[k])
  <2>0. fifo \in Seq(Byte) /\ DOMAIN fifo = 1 .. Len(fifo) /\ Len(fifo) \in Nat
    BY DEF RetransmitterTypes
  <2>1. \A k \in DOMAIN fifo' : Position(fifo'[k]) <= End'
    BY <1>2, <1>5, <1>7 DEF Stream
  <2>2. \A j, k \in DOMAIN fifo' : j < k => Position(fifo'[j]) < Position(fifo'[k])
    <3> TAKE j, k \in DOMAIN fifo'
    <3> HAVE j < k
    <3>1. j \in DOMAIN fifo /\ fifo'[j] = fifo[j]
      BY <1>7, <2>0
    <3>2. CASE k \in DOMAIN fifo /\ fifo'[k] = fifo[k]
      BY <3>1, <3>2 DEF Stream
    <3>3. CASE fifo'[k] = b
      BY <1>2, <1>5, <3>1, <3>3 DEF Stream
    <3> QED
      BY <1>7, <3>2, <3>3
  <2>3. matched > 0 => \A k \in DOMAIN fifo' : Position(LastRead) < Position(fifo'[k])
    BY <1>2, <1>5, <1>6, <1>7 DEF Stream
  <2> QED
    BY <2>1, <2>2, <2>3
<1>10. Stream'
  BY <1>0, <1>2, <1>3, <1>6, <1>9 DEF Stream
<1> QED
  BY <1>8, <1>10

\* The head and the tail of the FIFO.
LEMMA Queue ==
  ASSUME NEW S, NEW q \in Seq(S), q # <<>>
  PROVE  /\ Len(q) \in Nat /\ Len(q) > 0 /\ DOMAIN q = 1 .. Len(q)
         /\ Head(q) = q[1] /\ Head(q) \in S
         /\ Tail(q) \in Seq(S) /\ Len(Tail(q)) = Len(q) - 1
         /\ DOMAIN Tail(q) = 1 .. Len(q) - 1
         /\ \A k \in 1 .. Len(q) - 1 : Tail(q)[k] = q[k + 1]
OBVIOUS

\* Taking the oldest byte leaves only later ones.
LEMMA TakeStream ==
  ASSUME InOrderOfSending, fifo # <<>>, fifo' = Tail(fifo)
  PROVE  /\ Head(fifo) \in Byte /\ fifo' \in Seq(Byte)
         /\ Position(Head(fifo)) <= End
         /\ matched > 0 => Position(LastRead) < Position(Head(fifo))
         /\ \A k \in DOMAIN fifo' : Position(Head(fifo)) < Position(fifo'[k])
         /\ \A k \in DOMAIN fifo' : Position(fifo'[k]) <= End
         /\ \A j, k \in DOMAIN fifo' : j < k => Position(fifo'[j]) < Position(fifo'[k])
<1>1. /\ Len(fifo) \in Nat /\ Len(fifo) > 0 /\ DOMAIN fifo = 1 .. Len(fifo)
      /\ Head(fifo) = fifo[1] /\ Head(fifo) \in Byte
      /\ fifo' \in Seq(Byte)
      /\ DOMAIN fifo' = 1 .. Len(fifo) - 1
      /\ \A k \in 1 .. Len(fifo) - 1 : fifo'[k] = fifo[k + 1]
  BY Queue DEF InOrderOfSending, RetransmitterTypes
<1>2. \A k \in DOMAIN fifo' : k + 1 \in DOMAIN fifo /\ 1 < k + 1
  BY <1>1
<1>3. 1 \in DOMAIN fifo
  BY <1>1
<1>4. \A k \in DOMAIN fifo' : Position(Head(fifo)) < Position(fifo'[k])
  BY <1>1, <1>2, <1>3 DEF InOrderOfSending, Stream
<1>5. \A k \in DOMAIN fifo' : Position(fifo'[k]) <= End
  BY <1>1, <1>2 DEF InOrderOfSending, Stream
<1>6. \A j, k \in DOMAIN fifo' : j < k => Position(fifo'[j]) < Position(fifo'[k])
  <2> TAKE j, k \in DOMAIN fifo'
  <2> HAVE j < k
  <2>1. j + 1 < k + 1
    BY <1>1
  <2> QED
    BY <1>1, <1>2, <2>1 DEF InOrderOfSending, Stream
<1>7. Position(Head(fifo)) <= End
  BY <1>1, <1>3 DEF InOrderOfSending, Stream
<1>8. matched > 0 => Position(LastRead) < Position(Head(fifo))
  BY <1>1, <1>3 DEF InOrderOfSending, Stream
<1> QED
  BY <1>1, <1>4, <1>5, <1>6, <1>7, <1>8

\* A byte read in search of the magic.
LEMMA WaitStream == ASSUME InOrderOfSending, WaitForMsg PROVE InOrderOfSending'
<1> USE DEF InOrderOfSending
<1> DEFINE b == Head(fifo)
<1>1. /\ matched \in 0 .. 3 /\ serial = <<>> /\ fifo # <<>>
      /\ matched' = (IF b.value = startMagic[matched + 1] THEN matched + 1 ELSE 0)
      /\ start' = b /\ fifo' = Tail(fifo) /\ serial' = <<>>
      /\ misled' \in {misled, misled + 1}
      /\ UNCHANGED <<host, delivered, losses>>
  BY Sizes DEF WaitForMsg, Matched, RetransmitterTypes
<1>2. /\ b \in Byte /\ fifo' \in Seq(Byte)
      /\ Position(b) <= End
      /\ \A k \in DOMAIN fifo' : Position(b) < Position(fifo'[k])
      /\ \A k \in DOMAIN fifo' : Position(fifo'[k]) <= End
      /\ \A j, k \in DOMAIN fifo' : j < k => Position(fifo'[j]) < Position(fifo'[k])
  BY <1>1, TakeStream
<1> HIDE DEF b
<1>3. matched' \in 0 .. 4 /\ (matched' > 0 => b.value = startMagic[matched'])
  BY <1>1
<1>4. End' = End /\ LastRead' = b
  BY <1>1 DEF host, End, LastRead
<1>5. RetransmitterTypes'
  <2>1. UNCHANGED <<sending, frame, at, delivered, gaps, gap, hit>>
    BY <1>1 DEF host, losses
  <2>2. serial' \in Seq(Byte) /\ Len(serial') <= BodySize /\ serial' = <<>>
    BY <1>1 DEF RetransmitterTypes
  <2>3. matched' > 0 => start' \in Byte
    BY <1>1, <1>2
  <2>4. misled' \in Nat
    BY <1>1 DEF RetransmitterTypes
  <2> QED
    BY <1>2, <1>3, <2>1, <2>2, <2>3, <2>4 DEF RetransmitterTypes
<1>6. Stream'
  <2>1. DOMAIN serial' = {}
    BY <1>1
  <2> QED
    BY <1>1, <1>2, <1>3, <1>4, <2>1 DEF Stream
<1> QED
  BY <1>5, <1>6

\* A byte read into the body.
LEMMA BodyStream == ASSUME InOrderOfSending, ReadBody PROVE InOrderOfSending'
<1> USE DEF InOrderOfSending
<1> DEFINE b == Head(fifo)  n == Len(serial)
<1>1. /\ matched = 4 /\ n < BodySize /\ fifo # <<>>
      /\ serial' = Append(serial, b) /\ fifo' = Tail(fifo)
      /\ UNCHANGED <<host, matched, start, bodies, losses>>
  BY Sizes DEF ReadBody
<1>2. /\ b \in Byte /\ fifo' \in Seq(Byte)
      /\ Position(b) <= End
      /\ Position(LastRead) < Position(b)
      /\ \A k \in DOMAIN fifo' : Position(b) < Position(fifo'[k])
      /\ \A k \in DOMAIN fifo' : Position(fifo'[k]) <= End
      /\ \A j, k \in DOMAIN fifo' : j < k => Position(fifo'[j]) < Position(fifo'[k])
  BY <1>1, TakeStream
<1>3. serial \in Seq(Byte) /\ n \in Nat /\ start \in Byte
  BY <1>1 DEF RetransmitterTypes
<1> HIDE DEF b
<1>4. /\ serial' \in Seq(Byte) /\ Len(serial') = n + 1 /\ DOMAIN serial' = 1 .. n + 1
      /\ \A k \in 1 .. n : serial'[k] = serial[k]
      /\ serial'[n + 1] = b /\ serial' # <<>>
  BY <1>1, <1>2, <1>3
<1>5. /\ Position(start) \in Nat /\ Position(b) \in Nat /\ Position(LastRead) \in Nat
      /\ \A k \in 1 .. n : Position(serial[k]) \in Nat
  <2>1. LastRead \in Byte
    BY <1>3 DEF LastRead
  <2> QED
    BY <1>2, <1>3, <2>1, BytePosition
<1>6. End' = End /\ LastRead' = b
  BY <1>1, <1>4 DEF host, End, LastRead
<1>7. n <= Position(LastRead) - Position(start)
  BY <1>3, <1>5 DEF LastRead, Stream
<1>8. \A k \in 1 .. n : n - k <= Position(LastRead) - Position(serial[k])
  BY <1>3, <1>5 DEF LastRead, Stream
<1>9. \A k \in DOMAIN serial' : k <= Position(serial'[k]) - Position(start)
  <2> TAKE k \in DOMAIN serial'
  <2>1. CASE k \in 1 .. n
    BY <1>3, <1>4, <2>1 DEF Stream
  <2>2. CASE k = n + 1
    BY <1>2, <1>3, <1>4, <1>5, <1>7, <2>2
  <2> QED
    BY <1>3, <1>4, <2>1, <2>2
<1>10. \A j, k \in DOMAIN serial' :
         j <= k => k - j <= Position(serial'[k]) - Position(serial'[j])
  <2> TAKE j, k \in DOMAIN serial'
  <2> HAVE j <= k
  <2>1. CASE k \in 1 .. n
    BY <1>3, <1>4, <2>1 DEF Stream
  <2>2. CASE k = n + 1 /\ j \in 1 .. n
    BY <1>2, <1>3, <1>4, <1>5, <1>8, <2>2
  <2>3. CASE k = n + 1 /\ j = n + 1
    BY <1>3, <1>4, <1>5, <2>3
  <2> QED
    BY <1>3, <1>4, <2>1, <2>2, <2>3
<1>11. RetransmitterTypes'
  <2>1. UNCHANGED <<sending, frame, at, delivered, misled, gaps, gap, hit>>
    BY <1>1 DEF host, bodies, losses
  <2>2. Len(serial') <= BodySize
    BY <1>1, <1>3, <1>4, Sizes
  <2> QED
    BY <1>1, <1>2, <1>4, <2>1, <2>2 DEF RetransmitterTypes
<1>12. Stream'
  BY <1>1, <1>2, <1>6, <1>9, <1>10 DEF Stream
<1> QED
  BY <1>11, <1>12

\* The computer begins another frame.
LEMMA NextFrameStream == ASSUME InOrderOfSending, NextFrame PROVE InOrderOfSending' /\ End' = End
<1> USE DEF InOrderOfSending
<1>1. /\ at = FrameSize /\ sending' \in Frames /\ frame' = frame + 1 /\ at' = 0
      /\ frame \in Nat \ {0}
      /\ UNCHANGED <<fifo, matched, serial, start, delivered, misled, losses>>
  BY DEF NextFrame, bodies, RetransmitterTypes
<1>2. End' = End
  BY <1>1, Sizes DEF End, PositionOf
<1>3. RetransmitterTypes'
  <2>1. frame' \in Nat \ {0} /\ at' \in 0 .. FrameSize
    BY <1>1, Sizes
  <2>2. UNCHANGED <<gaps, gap, hit>>
    BY <1>1 DEF losses
  <2> QED
    BY <1>1, <2>1, <2>2 DEF RetransmitterTypes
<1>4. Stream'
  BY <1>1, <1>2 DEF Stream, LastRead
<1> QED
  BY <1>2, <1>3, <1>4

\* The body is published and forgotten.
LEMMA PublishStream == ASSUME InOrderOfSending, Publish PROVE InOrderOfSending'
<1> USE DEF InOrderOfSending
<1>1. /\ Len(serial) = BodySize /\ serial' = <<>> /\ matched' = 0
      /\ delivered' = (IF Exact THEN delivered \cup {start.frame} ELSE delivered)
      /\ UNCHANGED <<host, fifo, start, misled, losses>>
  BY DEF Publish, FromTheStart
<1>2. matched = 4 /\ start \in Byte
  BY <1>1, Sizes DEF RetransmitterTypes
<1>3. start.frame \in Nat
  BY <1>2, BytePosition
<1>4. RetransmitterTypes'
  <2>1. UNCHANGED <<sending, frame, at, misled, gaps, gap, hit>>
    BY <1>1 DEF host, losses
  <2>2. serial' \in Seq(Byte) /\ Len(serial') <= BodySize
    BY <1>1, Sizes
  <2>3. delivered' \subseteq Nat
    BY <1>1, <1>3 DEF RetransmitterTypes
  <2> QED
    BY <1>1, <2>1, <2>2, <2>3 DEF RetransmitterTypes
<1>5. Stream'
  <2>1. End' = End /\ DOMAIN serial' = {} /\ fifo' = fifo
    BY <1>1 DEF host, End
  <2> QED
    BY <1>1, <2>1 DEF Stream
<1> QED
  BY <1>4, <1>5

\* No step disturbs the order of sending.
LEMMA StreamIsKept ==
  ASSUME InOrderOfSending, [RetransmitterNext]_retransmitter_vars
  PROVE  InOrderOfSending'
<1>1. CASE NextFrame
  BY <1>1, NextFrameStream
<1>2. CASE Arrive
  BY <1>2, ArriveStream
<1>3. CASE WaitForMsg
  BY <1>3, WaitStream
<1>4. CASE ReadBody
  BY <1>4, BodyStream
<1>5. CASE Publish
  BY <1>5, PublishStream
<1>6. CASE UNCHANGED retransmitter_vars
  BY <1>6 DEF retransmitter_vars, host, bodies, losses, InOrderOfSending, RetransmitterTypes,
       Stream, End, LastRead
<1> QED
  BY <1>1, <1>2, <1>3, <1>4, <1>5, <1>6 DEF RetransmitterNext

\* Bytes are held and read in the order they were sent.
LEMMA InStreamOrder == RetransmitterSpec => []InOrderOfSending
<1>1. RetransmitterInit => InOrderOfSending
  BY InitStream
<1>2. InOrderOfSending /\ [RetransmitterNext]_retransmitter_vars => InOrderOfSending'
  BY StreamIsKept
<1> QED
  BY <1>1, <1>2, PTL DEF RetransmitterSpec

\* An FE is none of a frame's first three bytes, and not its last.
LEMMA MagicEnds ==
  ASSUME NEW b \in Byte, b.value = "FE"
  PROVE  b.at \in 4 .. FrameSize - 1
<1>1. b.at \in 1 .. FrameSize
  BY BytePosition
<1>2. b.at # FrameSize
  BY DEF Byte
<1>3. ASSUME b.at \in 1 .. 3 PROVE FALSE
  <2>1. b.value = startMagic[b.at]
    BY <1>3 DEF Byte
  <2> QED
    BY <1>3, <2>1 DEF startMagic
<1> QED
  BY <1>1, <1>2, <1>3, Sizes

\* What wait_for_msg takes for a start ends no earlier in its frame than a start.
LEMMA StartIsByte ==
  ASSUME InOrderOfSending, matched = 4
  PROVE  start \in Byte /\ start.at \in 4 .. FrameSize - 1
<1>1. start \in Byte /\ start.value = "FE"
  BY DEF InOrderOfSending, RetransmitterTypes, Stream, startMagic
<1> QED
  BY <1>1, MagicEnds

\* A byte that came as far behind the start as it was sent is the frame's.
LEMMA SameFrame ==
  ASSUME NEW s \in Byte, s.at = 4, NEW b \in Byte, NEW k \in 1 .. BodySize,
         Position(b) = Position(s) + k
  PROVE  b.frame = s.frame /\ b.at = s.at + k
<1>1. /\ s.frame \in Nat \ {0} /\ Position(s) = PositionOf(s.frame, 4)
      /\ b.frame \in Nat \ {0} /\ b.at \in 1 .. FrameSize
      /\ Position(b) = PositionOf(b.frame, b.at)
  BY BytePosition
<1>2. 4 \in 1 .. FrameSize /\ 4 + k \in 1 .. FrameSize
  BY Sizes
<1> DEFINE f == s.frame
<1>3. PositionOf(f, 4 + k) = PositionOf(b.frame, b.at)
  <2>1. PositionOf(f, 4 + k) - PositionOf(f, 4) = k
    <3>1. (f - 1) * FrameSize \in Int
      BY <1>1, Sizes
    <3> QED
      BY <3>1 DEF PositionOf
  <2>2. PositionOf(f, 4) \in Nat /\ PositionOf(f, 4 + k) \in Nat
    BY <1>1, <1>2, Places
  <2> QED
    BY <1>1, <2>1, <2>2
<1> QED
  BY <1>1, <1>2, <1>3, OnePlace

\* A body that ends as far behind its start as it is long is the frame's own.
LEMMA BodiesAreTrue ==
  ASSUME InOrderOfSending, Len(serial) = BodySize
  PROVE  /\ start \in Byte /\ matched = 4
         /\ start.at = 4 /\ Position(LastRead) = Position(start) + BodySize => Exact
         /\ Position(start) + BodySize <= Position(LastRead)
         /\ LastRead = serial[BodySize]
<1>1. /\ serial \in Seq(Byte) /\ DOMAIN serial = 1 .. BodySize /\ serial # <<>>
      /\ BodySize \in Nat /\ BodySize > 4 /\ matched = 4
  BY Sizes DEF InOrderOfSending, RetransmitterTypes
<1>2. start \in Byte
  BY <1>1, StartIsByte
<1>3. LastRead = serial[BodySize]
  BY <1>1 DEF LastRead
<1>4. Position(start) \in Nat /\ \A k \in 1 .. BodySize : Position(serial[k]) \in Nat
  BY <1>1, <1>2, BytePosition
<1>5. Position(start) + BodySize <= Position(LastRead)
  BY <1>1, <1>3, <1>4 DEF InOrderOfSending, Stream
<1>6. ASSUME start.at = 4, Position(LastRead) = Position(start) + BodySize, NEW k \in 1 .. BodySize
      PROVE  serial[k].frame = start.frame /\ serial[k].at = start.at + k
  <2>1. k <= Position(serial[k]) - Position(start)
    BY <1>1 DEF InOrderOfSending, Stream
  <2>2. BodySize - k <= Position(LastRead) - Position(serial[k])
    BY <1>1, <1>3 DEF InOrderOfSending, Stream
  <2>3. Position(serial[k]) = Position(start) + k
    <3>1. Position(start) \in Nat /\ Position(serial[k]) \in Nat /\ BodySize \in Nat
      BY <1>1, <1>4
    <3> QED
      BY <3>1, <1>6, <2>1, <2>2
  <2> QED
    BY <1>1, <1>2, <1>6, <2>3, SameFrame
<1> QED
  BY <1>1, <1>2, <1>3, <1>5, <1>6, Sizes DEF Exact

\* While the last body was as sent, what is read and held comes after it.
AfterTheLast ==
  upto # Unknown =>
    /\ upto \in Nat /\ \E f \in Nat : upto = f * FrameSize
    /\ upto <= End
    /\ \A k \in DOMAIN fifo : upto < Position(fifo[k])
    /\ matched > 0 => upto + matched <= Position(start)

\* Before the first body there is nothing to follow.
LEMMA InitAfter == ASSUME RetransmitterInit PROVE AfterTheLast
<1>1. upto = 0 /\ frame = 1 /\ at = 0 /\ fifo = <<>> /\ matched = 0
  BY DEF RetransmitterInit
<1>2. End = 0 /\ 0 * FrameSize = 0
  BY <1>1, Sizes DEF End, PositionOf
<1> QED
  BY <1>1, <1>2 DEF AfterTheLast

\* A byte that comes in comes after the last body.
LEMMA ArriveAfter ==
  ASSUME InOrderOfSending, AfterTheLast, Arrive PROVE AfterTheLast'
<1> SUFFICES ASSUME upto # Unknown PROVE AfterTheLast'
  BY DEF Arrive, bodies, AfterTheLast
<1> DEFINE b == [value |-> sending[at + 1], frame |-> frame, at |-> at + 1]
<1>1. /\ UNCHANGED <<upto, matched, start>> /\ frame' = frame /\ at' = at + 1
      /\ frame \in Nat \ {0} /\ at \in 0 .. FrameSize
      /\ fifo \in Seq(Byte) /\ (fifo' = fifo \/ fifo' = Append(fifo, b))
  BY DEF Arrive, bodies, InOrderOfSending, RetransmitterTypes
<1>2. End' = End + 1 /\ Position(b) = End + 1 /\ End \in Int
  <2>1. (frame - 1) * FrameSize \in Int
    BY <1>1, Sizes
  <2> QED
    BY <1>1, <2>1, Sizes DEF End, PositionOf, Position
<1> HIDE DEF b
<1>3. /\ upto \in Nat /\ upto <= End
      /\ \A k \in DOMAIN fifo : upto < Position(fifo[k])
  BY DEF AfterTheLast
<1>4. ASSUME NEW k \in DOMAIN fifo' PROVE upto < Position(fifo'[k])
  <2>1. CASE fifo' = fifo
    BY <1>3, <1>4, <2>1
  <2>2. CASE fifo' = Append(fifo, b)
    <3>1. (k \in DOMAIN fifo /\ fifo'[k] = fifo[k]) \/ fifo'[k] = b
      BY <1>1, <1>4, <2>2
    <3> QED
      BY <1>2, <1>3, <3>1
  <2> QED
    BY <1>1, <2>1, <2>2
<1>5. upto <= End'
  BY <1>2, <1>3
<1> QED
  BY <1>1, <1>4, <1>5 DEF AfterTheLast, Position

\* A byte read in search of the magic, after a body that was as sent.
LEMMA WaitAfter ==
  ASSUME InOrderOfSending, AfterTheLast, WaitForMsg PROVE AfterTheLast'
<1> SUFFICES ASSUME upto # Unknown PROVE AfterTheLast'
  BY DEF WaitForMsg, AfterTheLast
<1> DEFINE b == Head(fifo)
<1>1. /\ matched \in 0 .. 3 /\ serial = <<>> /\ fifo # <<>>
      /\ matched' \in {matched + 1, 0}
      /\ start' = b /\ fifo' = Tail(fifo) /\ UNCHANGED <<host, upto>>
      /\ fifo \in Seq(Byte)
  BY Sizes DEF WaitForMsg, Matched, InOrderOfSending, RetransmitterTypes
<1>2. b = fifo[1] /\ 1 \in DOMAIN fifo /\ b \in Byte
  BY <1>1, Queue
<1>3. upto \in Nat /\ upto < Position(b) /\ Position(b) \in Nat /\ upto <= End
  BY <1>2, BytePosition DEF AfterTheLast
<1>4. matched > 0 => /\ Position(start) < Position(b) /\ Position(start) \in Nat
                     /\ upto + matched <= Position(start)
  <2>1. matched > 0 => start \in Byte /\ LastRead = start
    BY <1>1 DEF LastRead, InOrderOfSending, RetransmitterTypes
  <2> QED
    BY <1>1, <2>1, TakeStream, BytePosition DEF AfterTheLast
<1>5. \A k \in DOMAIN fifo' : upto < Position(fifo'[k])
  <2> TAKE k \in DOMAIN fifo'
  <2>1. k + 1 \in DOMAIN fifo /\ fifo'[k] = fifo[k + 1]
    BY <1>1, Queue
  <2> QED
    BY <2>1 DEF AfterTheLast
<1> HIDE DEF b
<1>6. matched' > 0 => upto + matched' <= Position(b)
  BY <1>1, <1>3, <1>4
<1>7. End' = End
  BY <1>1 DEF host, End
<1> QED
  BY <1>1, <1>3, <1>5, <1>6, <1>7 DEF AfterTheLast, Position

\* A byte read into the body.
LEMMA BodyAfter ==
  ASSUME InOrderOfSending, AfterTheLast, ReadBody PROVE AfterTheLast'
<1> SUFFICES ASSUME upto # Unknown PROVE AfterTheLast'
  BY DEF ReadBody, bodies, AfterTheLast
<1>1. /\ fifo # <<>> /\ fifo' = Tail(fifo) /\ fifo \in Seq(Byte)
      /\ UNCHANGED <<host, upto, matched, start>>
  BY DEF ReadBody, bodies, InOrderOfSending, RetransmitterTypes
<1>2. \A k \in DOMAIN fifo' : upto < Position(fifo'[k])
  <2> TAKE k \in DOMAIN fifo'
  <2>1. k + 1 \in DOMAIN fifo /\ fifo'[k] = fifo[k + 1]
    BY <1>1, Queue
  <2> QED
    BY <2>1 DEF AfterTheLast
<1>3. End' = End
  BY <1>1 DEF host, End
<1> QED
  BY <1>1, <1>2, <1>3 DEF AfterTheLast, Position

\* A body that is published is the one to follow.
LEMMA PublishAfter ==
  ASSUME InOrderOfSending, Publish PROVE AfterTheLast'
<1> SUFFICES ASSUME Exact PROVE AfterTheLast'
  BY DEF Publish, AfterTheLast
<1>1. /\ Len(serial) = BodySize /\ upto' = Position(Last(serial))
      /\ matched' = 0 /\ UNCHANGED <<host, fifo>>
  BY DEF Publish, FromTheStart
<1>2. /\ start \in Byte /\ matched = 4 /\ LastRead = serial[BodySize]
      /\ Last(serial) = LastRead /\ LastRead \in Byte
  BY <1>1, BodiesAreTrue, Sizes DEF Last, InOrderOfSending, RetransmitterTypes
<1>3. LastRead.at = FrameSize
  BY <1>2, Sizes DEF Exact
<1> DEFINE f == LastRead.frame
<1>4. f \in Nat /\ Position(LastRead) = f * FrameSize /\ Position(LastRead) \in Nat
  <2>1. f \in Nat \ {0} /\ Position(LastRead) \in Nat
    BY <1>2, BytePosition
  <2>2. (f - 1) * FrameSize + FrameSize = f * FrameSize
    BY <2>1, Sizes
  <2> QED
    BY <1>3, <2>1, <2>2 DEF Position
<1>5. /\ Position(LastRead) <= End
      /\ \A k \in DOMAIN fifo : Position(LastRead) < Position(fifo[k])
  BY <1>2 DEF InOrderOfSending, Stream
<1>6. End' = End
  BY <1>1 DEF host, End
<1>7. upto' = Position(LastRead)
  BY <1>1, <1>2
<1> HIDE DEF f
<1> QED
  BY <1>1, <1>4, <1>5, <1>6, <1>7 DEF AfterTheLast, Position

\* No step disturbs what follows a body that was as sent.
LEMMA AfterIsKept ==
  ASSUME InOrderOfSending, AfterTheLast, [RetransmitterNext]_retransmitter_vars
  PROVE  AfterTheLast'
<1>1. CASE NextFrame
  <2>1. UNCHANGED <<fifo, matched, start, upto>> /\ End' = End
    BY <1>1, NextFrameStream DEF NextFrame, bodies
  <2> QED
    BY <2>1 DEF AfterTheLast, Position
<1>2. CASE Arrive
  BY <1>2, ArriveAfter
<1>3. CASE WaitForMsg
  BY <1>3, WaitAfter
<1>4. CASE ReadBody
  BY <1>4, BodyAfter
<1>5. CASE Publish
  BY <1>5, PublishAfter
<1>6. CASE UNCHANGED retransmitter_vars
  BY <1>6 DEF retransmitter_vars, host, bodies, AfterTheLast, Position, End
<1> QED
  BY <1>1, <1>2, <1>3, <1>4, <1>5, <1>6 DEF RetransmitterNext

\* Whatever the numbers are and whatever is lost: only a body that lost bytes is garbled
\* after a frame's start, and none is after a body that was as sent (wait_for_msg).
THEOREM NoFalseStart == RetransmitterSpec => []GarbledOnlyByLoss
<1>1. RetransmitterInit => InOrderOfSending /\ AfterTheLast
  BY InitStream, InitAfter
<1>2. InOrderOfSending /\ AfterTheLast /\ [RetransmitterNext]_retransmitter_vars
        => InOrderOfSending' /\ AfterTheLast'
  BY StreamIsKept, AfterIsKept
<1>3. InOrderOfSending /\ AfterTheLast => GarbledOnlyByLoss
  <2> SUFFICES ASSUME InOrderOfSending, AfterTheLast, Len(serial) = BodySize
               PROVE  /\ start.at = Len(startMagic) =>
                           Exact \/ Position(Last(serial)) > Position(start) + BodySize
                      /\ upto # Unknown =>
                           Exact \/ Position(Last(serial)) > upto + FrameSize
    BY DEF GarbledOnlyByLoss
  <2>1. Last(serial) = LastRead /\ matched = 4 /\ start \in Byte
    BY BodiesAreTrue DEF Last
  <2>2. /\ Position(start) \in Nat /\ Position(LastRead) \in Nat
        /\ Position(start) + BodySize <= Position(LastRead)
    <3>1. LastRead \in Byte
      BY BodiesAreTrue, Sizes DEF InOrderOfSending, RetransmitterTypes
    <3> QED
      BY <3>1, BodiesAreTrue, BytePosition
  <2>3. start.at = 4 => Exact \/ Position(LastRead) > Position(start) + BodySize
    BY <2>2, BodiesAreTrue, Sizes
  <2>4. ASSUME upto # Unknown, ~(Position(LastRead) > upto + FrameSize) PROVE Exact
    <3>1. PICK f \in Nat : upto = f * FrameSize
      BY <2>4 DEF AfterTheLast
    <3>2. upto \in Nat /\ upto + 4 <= Position(start)
      BY <2>1, <2>4 DEF AfterTheLast
    <3>3. Position(start) = upto + 4
      BY <2>2, <2>4, <3>2, Sizes
    <3>4. /\ start.frame \in Nat \ {0} /\ start.at \in 1 .. FrameSize
          /\ Position(start) = PositionOf(start.frame, start.at)
      BY <2>1, BytePosition
    <3>5. PositionOf(f + 1, 4) = upto + 4
      BY <3>1, <3>2 DEF PositionOf
    <3>6. start.at = 4
      <4> DEFINE g == start.frame  a == start.at  h == f + 1
      <4>1. /\ h \in Nat \ {0} /\ 4 \in 1 .. FrameSize
            /\ g \in Nat \ {0} /\ a \in 1 .. FrameSize
            /\ PositionOf(g, a) = PositionOf(h, 4)
        BY <3>3, <3>4, <3>5, Sizes
      <4> HIDE DEF g, a, h
      <4>2. a = 4
        BY <4>1, OnePlace
      <4> QED
        BY <4>2 DEF a
    <3> QED
      BY <2>2, <2>3, <2>4, <3>2, <3>3, <3>6, Sizes
  <2> QED
    BY <2>1, <2>3, <2>4, Sizes
<1> QED
  BY <1>1, <1>2, <1>3, PTL DEF RetransmitterSpec
----------------------------------------------------------------------------
(* Accounts. *)

\* Sets of numbers: a part has no more members, one more member counts one, and one less as well.
LEMMA CountAtMost ==
  ASSUME NEW S, NEW T, IsFiniteSet(T), S \subseteq T
  PROVE  /\ IsFiniteSet(S) /\ Cardinality(S) \in Nat /\ Cardinality(T) \in Nat
         /\ Cardinality(S) <= Cardinality(T)
BY FS_Subset, FS_CardinalityType

LEMMA CountOneMore ==
  ASSUME NEW S, NEW T, NEW x, IsFiniteSet(T), S \subseteq T \cup {x}
  PROVE  /\ IsFiniteSet(S) /\ Cardinality(S) \in Nat /\ Cardinality(T) \in Nat
         /\ Cardinality(S) <= Cardinality(T) + 1
<1>1. /\ IsFiniteSet(T \cup {x})
      /\ Cardinality(T \cup {x}) = Cardinality(T) \/ Cardinality(T \cup {x}) = Cardinality(T) + 1
  BY FS_AddElement
<1>2. Cardinality(T) \in Nat
  BY FS_CardinalityType
<1> QED
  BY <1>1, <1>2, CountAtMost

LEMMA CountOneLess ==
  ASSUME NEW S, NEW T, NEW x \in T, IsFiniteSet(T), S \subseteq T, x \notin S
  PROVE  Cardinality(S) + 1 <= Cardinality(T)
<1>1. IsFiniteSet(T \ {x}) /\ Cardinality(T \ {x}) = Cardinality(T) - 1
  BY FS_RemoveElement
<1>2. S \subseteq T \ {x}
  OBVIOUS
<1>3. Cardinality(S) \in Nat /\ Cardinality(S) <= Cardinality(T \ {x}) /\ Cardinality(T) \in Nat
  BY <1>1, <1>2, CountAtMost, FS_CardinalityType
<1> QED
  BY <1>1, <1>3

Held == {Position(fifo[k]) : k \in DOMAIN fifo}
Before == IF matched = 0 THEN {} ELSE {Position(LastRead)}
Holes == {p \in 1 .. End : p \notin Held /\ p - 1 \in Held \cup Before}

Low == IF matched > 0 THEN Position(LastRead)
       ELSE IF fifo # <<>> THEN Position(Head(fifo)) ELSE End

LostIsHit ==
  \A f \in Nat \ {0}, a \in 1 .. FrameSize :
    Low < PositionOf(f, a) /\ PositionOf(f, a) <= End =>
      PositionOf(f, a) \in Held \/ f \in hit

GapAtEnd == gap => End \notin Held \cup Before

Coming == Past + 1
NextAt == IF fifo # <<>> THEN Head(fifo).at ELSE IF at = FrameSize THEN 1 ELSE at + 1

InStep == matched = 4 /\ start.at = 4 /\ Position(LastRead) = Position(start) + Len(serial)

\* The rest of a frame whose start was missed, after a false start in it.
Trailing == matched = 4 /\ start.at # 4 /\ start.frame = Coming /\ Coming \notin hit

Consumed ==
  matched = 4 /\ ~InStep /\ Coming \notin hit =>
    Trailing \/ (start.frame < Coming /\ NextAt <= Len(serial) + 1)

Kept == delivered \cup hit \cup (IF InStep THEN {start.frame} ELSE {})
Missed == (1 .. Past) \ Kept

Found == matched \in 1 .. 3 /\ start.frame = Coming /\ start.at = matched
Owed == IF matched = 4 /\ Len(serial) < BodySize THEN ~InStep
        ELSE NextAt > 1 /\ Coming \notin hit /\ ~Found
Debt == IF ~Owed THEN 0 ELSE IF Trailing THEN 2 ELSE 1

Paid == Cardinality(Missed) + Debt + Cardinality(Holes) <= gaps + misled

Accounts == LostIsHit /\ GapAtEnd /\ Consumed /\ Paid

\* The next byte to be read, or to be sent if none waits.
NextIsNext ==
  /\ Past \in Nat /\ Coming \in Nat \ {0} /\ NextAt \in 1 .. FrameSize
  /\ fifo # <<>> => PositionOf(Coming, NextAt) = Position(Head(fifo))
  /\ fifo = <<>> => PositionOf(Coming, NextAt) = End + 1

\* The next byte is where NextAt says, in the frame after the past ones.
LEMMA NextByte == InOrderOfSending => NextIsNext
<1> SUFFICES ASSUME InOrderOfSending PROVE NextIsNext
  OBVIOUS
<1>0. frame \in Nat \ {0} /\ at \in 0 .. FrameSize /\ FrameSize \in Nat \ {0}
  BY Sizes DEF InOrderOfSending, RetransmitterTypes
<1>1. CASE fifo # <<>>
  <2>1. Head(fifo) \in Byte
    BY <1>1, Queue DEF InOrderOfSending, RetransmitterTypes
  <2>2. Past = Head(fifo).frame - 1 /\ NextAt = Head(fifo).at
    BY <1>1 DEF Past, NextAt
  <2>3. Coming = Head(fifo).frame
    BY <2>1, <2>2, BytePosition DEF Coming
  <2> QED
    BY <1>1, <2>1, <2>2, <2>3, BytePosition DEF NextIsNext
<1>2. CASE fifo = <<>> /\ at = FrameSize
  <2>1. Past = frame /\ NextAt = 1 /\ Coming = frame + 1
    BY <1>2 DEF Past, NextAt, Coming
  <2>2. PositionOf(frame + 1, 1) = PositionOf(frame, FrameSize) + 1
    BY <1>0 DEF PositionOf
  <2> QED
    BY <1>0, <1>2, <2>1, <2>2 DEF NextIsNext, End
<1>3. CASE fifo = <<>> /\ at # FrameSize
  <2>1. Past = frame - 1 /\ NextAt = at + 1 /\ Coming = frame
    BY <1>0, <1>3 DEF Past, NextAt, Coming
  <2>2. PositionOf(frame, at + 1) = PositionOf(frame, at) + 1
    <3>1. (frame - 1) * FrameSize \in Int
      BY <1>0
    <3> QED
      BY <1>0, <3>1 DEF PositionOf
  <2> QED
    BY <1>0, <1>3, <2>1, <2>2 DEF NextIsNext, End
<1> QED
  BY <1>1, <1>2, <1>3

\* And after a step.
LEMMA NextByteLater == InOrderOfSending' => NextIsNext'
BY NextByte, PTL

\* The numbers that accounts are made of.
LEMMA Counted ==
  ASSUME InOrderOfSending
  PROVE  /\ End \in Int /\ IsFiniteSet(Holes) /\ Cardinality(Holes) \in Nat
         /\ IsFiniteSet(Missed) /\ Cardinality(Missed) \in Nat
         /\ Held \subseteq Nat \ {0} /\ \A p \in Held : p <= End
<1>1. End \in Int
  <2>1. frame \in Nat /\ at \in Nat
    BY Sizes DEF InOrderOfSending, RetransmitterTypes
  <2>2. (frame - 1) * FrameSize \in Int
    BY <2>1, Sizes
  <2> QED
    BY <2>1, <2>2 DEF End, PositionOf
<1>2. Past \in Int
  BY NextByte DEF NextIsNext
<1>3. IsFiniteSet(1 .. End) /\ IsFiniteSet(1 .. Past)
  BY <1>1, <1>2, FS_Interval
<1>4. Holes \subseteq 1 .. End /\ Missed \subseteq 1 .. Past
  BY DEF Holes, Missed
<1>5. Held \subseteq Nat \ {0} /\ \A p \in Held : p <= End
  BY BytePosition DEF Held, InOrderOfSending, RetransmitterTypes, Stream
<1> HIDE DEF Holes, Missed
<1> QED
  BY <1>1, <1>3, <1>4, <1>5, CountAtMost

----------------------------------------------------------------------------
(* A byte is read. *)

\* What is true of any byte that is read, b, and the next one.
Takes(b) ==
  /\ InOrderOfSending /\ InOrderOfSending' /\ LostIsHit
  /\ fifo # <<>> /\ b = Head(fifo) /\ fifo' = Tail(fifo)
  /\ UNCHANGED <<host, hit>>

\* Reading a byte of the FIFO makes it the last one read.
LEMMA TakeOne ==
  ASSUME NEW b, Takes(b)
  PROVE  /\ b \in Byte /\ Coming = b.frame /\ NextAt = b.at
         /\ Coming' \in Nat \ {0} /\ NextAt' \in 1 .. FrameSize /\ Past' = Coming' - 1
         /\ End' = End /\ Position(b) <= End
         /\ Held' = Held \ {Position(b)} /\ Position(b) \in Held
         /\ \A p \in Held' : Position(b) < p /\ PositionOf(Coming', NextAt') <= p
         /\ Position(b) < PositionOf(Coming', NextAt')
         /\ PositionOf(Coming', NextAt') <= End + 1
         /\ matched > 0 => LastRead \in Byte /\ Position(LastRead) < Position(b)
<1> USE DEF Takes
<1>1. b \in Byte /\ fifo \in Seq(Byte) /\ fifo' \in Seq(Byte)
  BY TakeStream DEF InOrderOfSending, RetransmitterTypes
<1>2. End' = End /\ End \in Int
  BY Counted DEF host, End
<1>3. Coming = b.frame /\ NextAt = b.at
  <2>1. b.frame \in Int
    BY <1>1, BytePosition
  <2> QED
    BY <2>1 DEF Coming, Past, NextAt
<1>4. NextIsNext'
  BY NextByteLater
<1>5. Coming' \in Nat \ {0} /\ NextAt' \in 1 .. FrameSize /\ Past' = Coming' - 1
  <2>1. Past' \in Nat /\ Coming' \in Nat \ {0} /\ NextAt' \in 1 .. FrameSize
    BY <1>4 DEF NextIsNext
  <2>2. Coming' = Past' + 1
    BY DEF Coming
  <2> DEFINE q == Past'  c == Coming'
  <2>3. q \in Nat /\ c = q + 1
    BY <2>1, <2>2
  <2> HIDE DEF q, c
  <2>4. q = c - 1
    BY <2>3
  <2> QED
    BY <2>1, <2>4 DEF q, c
<1>6. /\ Len(fifo) \in Nat /\ Len(fifo) > 0 /\ DOMAIN fifo = 1 .. Len(fifo)
      /\ Head(fifo) = fifo[1]
      /\ DOMAIN fifo' = 1 .. Len(fifo) - 1
      /\ \A k \in 1 .. Len(fifo) - 1 : fifo'[k] = fifo[k + 1]
  BY <1>1, Queue
<1>7. \A k \in DOMAIN fifo' : Position(b) < Position(fifo'[k]) /\ Position(fifo'[k]) \in Nat
  BY <1>1, TakeStream, BytePosition
<1>8. Position(b) \in Nat /\ Position(b) <= End
  BY <1>1, TakeStream, BytePosition
<1>9. Held' = Held \ {Position(b)} /\ Position(b) \in Held
  <2>1. Held' = {Position(fifo'[k]) : k \in DOMAIN fifo'}
    BY DEF Held, Position
  <2>2. Position(b) \in Held
    BY <1>6 DEF Held
  <2>3. ASSUME NEW p \in Held' PROVE p \in Held \ {Position(b)}
    <3>1. PICK k \in 1 .. Len(fifo) - 1 : p = Position(fifo'[k])
      BY <2>1, <2>3, <1>6
    <3>2. k + 1 \in DOMAIN fifo /\ fifo'[k] = fifo[k + 1]
      BY <1>6
    <3>3. p # Position(b)
      <4>1. k \in DOMAIN fifo'
        BY <1>6
      <4>2. Position(b) < Position(fifo'[k]) /\ Position(fifo'[k]) \in Nat
        BY <1>7, <4>1
      <4> QED
        BY <1>8, <3>1, <4>2
    <3> QED
      BY <3>1, <3>2, <3>3 DEF Held
  <2>4. ASSUME NEW p \in Held, p # Position(b) PROVE p \in Held'
    <3>1. PICK k \in DOMAIN fifo : p = Position(fifo[k])
      BY DEF Held
    <3>2. k # 1
      BY <1>6, <2>4, <3>1
    <3>3. k - 1 \in 1 .. Len(fifo) - 1 /\ fifo'[k - 1] = fifo[(k - 1) + 1]
      BY <1>6, <3>2
    <3>4. (k - 1) + 1 = k
      BY <1>6
    <3> QED
      BY <1>6, <2>1, <3>1, <3>3, <3>4
  <2> QED
    BY <2>2, <2>3, <2>4
<1>10. \A p \in Held' : Position(b) < p
  <2>1. Held' = {Position(fifo'[k]) : k \in DOMAIN fifo'}
    BY DEF Held, Position
  <2> QED
    BY <1>7, <2>1
<1>11. CASE fifo' # <<>>
  <2>1. /\ PositionOf(Coming', NextAt') = Position(Head(fifo'))
        /\ Head(fifo') = fifo'[1] /\ 1 \in DOMAIN fifo'
    <3>1. PositionOf(Coming', NextAt') = Position(Head(fifo'))
      BY <1>4, <1>11 DEF NextIsNext, PositionOf, Position
    <3> QED
      BY <1>1, <1>11, <3>1, Queue
  <2>2. /\ \A k \in DOMAIN fifo' : Position(fifo'[k]) <= End
        /\ \A j, k \in DOMAIN fifo' : j < k => Position(fifo'[j]) < Position(fifo'[k])
    BY TakeStream
  <2>3. \A k \in DOMAIN fifo' : Position(fifo'[1]) <= Position(fifo'[k])
    <3> TAKE k \in DOMAIN fifo'
    <3>1. k = 1 \/ 1 < k
      BY <1>6
    <3> QED
      BY <1>7, <2>1, <2>2, <3>1
  <2>4. Held' = {Position(fifo'[k]) : k \in DOMAIN fifo'}
    BY DEF Held, Position
  <2>5. \A p \in Held' : PositionOf(Coming', NextAt') <= p
    BY <2>1, <2>3, <2>4
  <2>6. PositionOf(Coming', NextAt') \in Nat /\ Position(b) < PositionOf(Coming', NextAt')
    BY <1>7, <2>1
  <2>7. PositionOf(Coming', NextAt') <= End + 1
    BY <1>2, <2>1, <2>2, <2>6
  <2>8. matched > 0 => LastRead \in Byte /\ Position(LastRead) < Position(b)
    BY TakeStream DEF InOrderOfSending, RetransmitterTypes, LastRead
  <2> QED
    BY <1>1, <1>2, <1>3, <1>5, <1>8, <1>9, <1>10, <2>5, <2>6, <2>7, <2>8
<1>12. CASE fifo' = <<>>
  <2>1. PositionOf(Coming', NextAt') = End + 1
    BY <1>2, <1>4, <1>12 DEF NextIsNext, PositionOf
  <2>2. \A p \in Held' : FALSE
    BY <1>12 DEF Held
  <2>3. matched > 0 => LastRead \in Byte /\ Position(LastRead) < Position(b)
    BY TakeStream DEF InOrderOfSending, RetransmitterTypes, LastRead
  <2>4. Position(b) < End + 1
    BY <1>2, <1>8
  <2> QED
    BY <1>1, <1>2, <1>3, <1>5, <1>8, <1>9, <2>1, <2>2, <2>3, <2>4
<1> QED
  BY <1>11, <1>12

\* Between b and the next byte all are lost, and before b back to the last.
LEMMA TakeBetween ==
  ASSUME NEW b, Takes(b), NEW f \in Nat \ {0}, NEW a \in 1 .. FrameSize,
         \/ Position(b) < PositionOf(f, a) /\ PositionOf(f, a) < PositionOf(Coming', NextAt')
         \/ /\ matched > 0
            /\ Position(LastRead) < PositionOf(f, a) /\ PositionOf(f, a) < Position(b)
  PROVE  f \in hit
<1> DEFINE p == PositionOf(f, a)
<1>1. p \in Nat /\ Position(b) \in Nat /\ End \in Int
  BY Places, TakeOne, BytePosition, Counted DEF Takes
<1>2. PositionOf(Coming', NextAt') \in Nat
  BY TakeOne, Places
<1>3. matched > 0 => Position(LastRead) \in Nat /\ Position(LastRead) < Position(b)
  BY TakeOne, BytePosition
<1>4. Low <= Position(b)
  BY <1>1, <1>3 DEF Low, Takes
<1>4a. Low \in Int
  BY <1>1, <1>3 DEF Low, Takes
<1>5. p <= End
  BY <1>1, <1>2, <1>3, TakeOne
<1>6. Low < p
  <2>1. CASE Position(b) < p
    BY <1>1, <1>4, <1>4a, <2>1
  <2>2. CASE matched > 0 /\ Position(LastRead) < p
    BY <2>2 DEF Low
  <2> QED
    BY <2>1, <2>2
<1>7. p \notin Held
  <2>1. p # Position(b)
    BY <1>1
  <2>2. ASSUME p \in Held PROVE FALSE
    <3>1. p \in Held'
      BY <2>1, <2>2, TakeOne
    <3>2. Position(b) < p /\ PositionOf(Coming', NextAt') <= p
      BY <3>1, TakeOne
    <3> QED
      BY <1>1, <1>2, <1>3, <3>2
  <2> QED
    BY <2>2
<1> QED
  BY <1>5, <1>6, <1>7 DEF LostIsHit, Takes

\* What the next byte says about the frames between.
LEMMA TakeNext ==
  ASSUME NEW b, Takes(b)
  PROVE  /\ b.frame <= Coming'
         /\ \A f \in b.frame + 1 .. Past' : f \in hit
         /\ b.frame <= Past' /\ b.at # FrameSize => b.frame \in hit
         /\ NextAt' > 1 /\ Coming' \notin hit => Coming' = b.frame
         /\ Coming' = b.frame /\ b.frame \notin hit => NextAt' = b.at + 1
         /\ Coming' = b.frame => b.at < FrameSize
<1>1. /\ b.frame \in Nat \ {0} /\ b.at \in 1 .. FrameSize
      /\ Position(b) = PositionOf(b.frame, b.at)
  BY TakeOne, BytePosition
<1>2. /\ Coming' \in Nat \ {0} /\ NextAt' \in 1 .. FrameSize /\ Past' = Coming' - 1
      /\ PositionOf(b.frame, b.at) < PositionOf(Coming', NextAt')
  BY <1>1, TakeOne
<1> DEFINE g == Coming'  c == NextAt'
<1>3. b.frame < g \/ (b.frame = g /\ b.at < c)
  BY <1>1, <1>2, OnePlace
<1> HIDE DEF g, c
<1>t. g \in Nat \ {0} /\ c \in 1 .. FrameSize /\ Past' = g - 1 /\ FrameSize \in Nat
  BY <1>2, Sizes DEF g, c
<1>4. ASSUME NEW f \in b.frame + 1 .. Past' PROVE f \in hit
  <2>1. f \in Nat \ {0} /\ 1 \in 1 .. FrameSize /\ b.frame < f /\ f < g
    BY <1>1, <1>t, <1>4, Sizes
  <2>2. PositionOf(b.frame, b.at) < PositionOf(f, 1) /\ PositionOf(f, 1) < PositionOf(g, c)
    BY <1>1, <1>t, <2>1, Places
  <2> QED
    BY <1>1, <2>1, <2>2, TakeBetween DEF g, c
<1>5. ASSUME b.frame <= Past', b.at # FrameSize PROVE b.frame \in hit
  <2>1. b.at + 1 \in 1 .. FrameSize /\ b.frame < g
    BY <1>1, <1>t, <1>5
  <2>2. PositionOf(b.frame, b.at) < PositionOf(b.frame, b.at + 1)
    <3>1. (b.frame - 1) * FrameSize \in Int
      BY <1>1, Sizes
    <3> QED
      BY <1>1, <3>1 DEF PositionOf
  <2>3. PositionOf(b.frame, b.at + 1) < PositionOf(g, c)
    BY <1>1, <1>t, <2>1, Places
  <2> QED
    BY <1>1, <2>1, <2>2, <2>3, TakeBetween DEF g, c
<1>6. ASSUME c > 1, g \notin hit PROVE g = b.frame
  <2> SUFFICES ASSUME b.frame < g PROVE FALSE
    BY <1>3
  <2>1. 1 \in 1 .. FrameSize
    BY Sizes
  <2>2. PositionOf(b.frame, b.at) < PositionOf(g, 1)
    BY <1>1, <1>t, <2>1, Places
  <2>3. PositionOf(g, 1) < PositionOf(g, c)
    <3>1. (g - 1) * FrameSize \in Int
      BY <1>t, Sizes
    <3> QED
      BY <1>6, <1>t, <3>1 DEF PositionOf
  <2> QED
    BY <1>1, <1>6, <1>t, <2>1, <2>2, <2>3, TakeBetween DEF g, c
<1>7. ASSUME g = b.frame, b.frame \notin hit PROVE c = b.at + 1
  <2> SUFFICES ASSUME b.at + 1 < c PROVE FALSE
    BY <1>1, <1>3, <1>7, <1>t
  <2>1. b.at + 1 \in 1 .. FrameSize
    BY <1>1, <1>t
  <2>2. /\ PositionOf(b.frame, b.at) < PositionOf(b.frame, b.at + 1)
        /\ PositionOf(b.frame, b.at + 1) < PositionOf(g, c)
    <3>1. (b.frame - 1) * FrameSize \in Int
      BY <1>1, Sizes
    <3> QED
      BY <1>1, <1>7, <1>t, <3>1 DEF PositionOf
  <2> QED
    BY <1>1, <1>7, <1>t, <2>1, <2>2, TakeBetween DEF g, c
<1>8. g = b.frame => b.at < FrameSize
  BY <1>1, <1>3, <1>t
<1>9. b.frame <= g
  BY <1>1, <1>3, <1>t
<1> QED
  BY <1>4, <1>5, <1>6, <1>7, <1>8, <1>9 DEF g, c

\* Reading opens no hole, and closes the one it steps over.
LEMMA HolesShrink ==
  ASSUME NEW b, Takes(b), Before' \subseteq {Position(b)}
  PROVE  /\ Cardinality(Holes') \in Nat /\ Cardinality(Holes) \in Nat
         /\ Cardinality(Holes') <= Cardinality(Holes)
         /\ matched > 0 /\ Position(LastRead) + 1 < Position(b) =>
              Cardinality(Holes') + 1 <= Cardinality(Holes)
<1>1. /\ End \in Int /\ IsFiniteSet(Holes) /\ Held \subseteq Nat \ {0}
  BY Counted DEF Takes
<1>2. /\ Held' = Held \ {Position(b)} /\ Position(b) \in Held /\ End' = End
      /\ \A p \in Held' : Position(b) < p
  BY TakeOne
<1>3. Position(b) \in Nat
  BY <1>1, <1>2
<1>4. Holes' = {p \in 1 .. End : p \notin Held' /\ p - 1 \in Held' \cup Before'}
  BY <1>2 DEF Holes
<1>5. ASSUME NEW p \in Holes' PROVE p \in Holes /\ Position(b) < p
  <2>1. p \in 1 .. End /\ p \notin Held' /\ p - 1 \in Held' \cup Before'
    BY <1>4, <1>5
  <2>2. p - 1 \in Held
    BY <1>2, <2>1
  <2>3. Position(b) <= p - 1
    BY <1>1, <1>2, <1>3, <2>1
  <2>4. Position(b) < p
    BY <1>1, <1>3, <2>1, <2>3
  <2>5. p \notin Held
    BY <1>1, <1>2, <1>3, <2>1, <2>4
  <2> QED
    BY <2>1, <2>2, <2>4, <2>5 DEF Holes
<1>6. Holes' \subseteq Holes
  BY <1>5
<1>7. Cardinality(Holes') \in Nat /\ Cardinality(Holes) \in Nat
      /\ Cardinality(Holes') <= Cardinality(Holes)
  BY <1>1, <1>6, CountAtMost
<1>8. ASSUME matched > 0, Position(LastRead) + 1 < Position(b)
      PROVE  Cardinality(Holes') + 1 <= Cardinality(Holes)
  <2> DEFINE h == Position(LastRead) + 1
  <2>1. Position(LastRead) \in Nat \ {0} /\ Position(b) <= End
    BY <1>8, TakeOne, BytePosition
  <2>2. h \in 1 .. End
    BY <1>1, <1>3, <1>8, <2>1
  <2>3. h \notin Held
    <3> SUFFICES ASSUME h \in Held PROVE FALSE
      OBVIOUS
    <3>1. h \in Held'
      BY <1>2, <1>3, <1>8, <2>1
    <3> QED
      BY <1>2, <1>3, <1>8, <2>1, <3>1
  <2>4. h - 1 \in Before
    BY <1>8, <2>1 DEF Before, Takes, InOrderOfSending, RetransmitterTypes
  <2>5. h \in Holes
    BY <2>2, <2>3, <2>4 DEF Holes
  <2>6. h \notin Holes'
    BY <1>3, <1>5, <1>8, <2>1
  <2> HIDE DEF h
  <2> QED
    BY <1>1, <1>6, <2>5, <2>6, CountOneLess
<1> QED
  BY <1>7, <1>8

\* Reading adds at most one frame to the missed ones.
LEMMA MissedGrows ==
  ASSUME NEW b, Takes(b), Kept \subseteq Kept'
  PROVE  /\ Cardinality(Missed') \in Nat /\ Cardinality(Missed) \in Nat
         /\ Cardinality(Missed') <= Cardinality(Missed) + 1
         /\ b.at # FrameSize \/ b.frame \in Kept' =>
              Cardinality(Missed') <= Cardinality(Missed)
<1>1. /\ b.frame \in Nat \ {0} /\ b.at \in 1 .. FrameSize /\ Coming = b.frame
      /\ Past' = Coming' - 1 /\ Coming' \in Nat \ {0}
  BY TakeOne, BytePosition
<1>2. Past = b.frame - 1
  <2>1. Past \in Nat
    BY NextByte DEF NextIsNext, Takes
  <2> QED
    BY <1>1, <2>1 DEF Coming
<1>3. /\ \A f \in b.frame + 1 .. Past' : f \in hit
      /\ b.frame <= Past' /\ b.at # FrameSize => b.frame \in hit
  BY TakeNext
<1>4. hit \subseteq Kept'
  BY DEF Kept, Takes
<1>5. IsFiniteSet(Missed)
  BY Counted DEF Takes
<1>6. ASSUME NEW f \in Missed', f # b.frame PROVE f \in Missed
  <2>1. f \in 1 .. Past' /\ f \notin Kept'
    BY <1>6 DEF Missed
  <2>2. ~(f \in b.frame + 1 .. Past')
    BY <1>3, <1>4, <2>1
  <2> DEFINE q == Past'
  <2>3. q \in Int /\ f \in 1 .. q /\ ~(f \in b.frame + 1 .. q)
    <3> DEFINE c == Coming'
    <3>1. q = c - 1 /\ c \in Nat
      BY <1>1
    <3>2. f \in 1 .. q /\ ~(f \in b.frame + 1 .. q)
      BY <2>1, <2>2
    <3> HIDE DEF q, c
    <3> QED
      BY <3>1, <3>2
  <2> HIDE DEF q
  <2>4. f \in 1 .. b.frame - 1
    BY <1>1, <1>6, <2>3
  <2> QED
    BY <1>2, <2>1, <2>4 DEF Missed
<1>7. ASSUME b.frame \in Missed' PROVE b.at = FrameSize /\ b.frame \notin Kept'
  <2>1. b.frame \in 1 .. Past' /\ b.frame \notin Kept'
    BY <1>7 DEF Missed
  <2>2. b.frame <= Past'
    BY <2>1
  <2> QED
    BY <1>3, <1>4, <2>1, <2>2
<1> HIDE DEF Missed
<1>8. Missed' \subseteq Missed \cup {b.frame}
  BY <1>6
<1>9. b.at # FrameSize \/ b.frame \in Kept' => Missed' \subseteq Missed
  BY <1>6, <1>7
<1> QED
  BY <1>5, <1>8, <1>9, CountAtMost, CountOneMore

\* What remains to be shown of a byte that is read.
LEMMA TakeBooks ==
  ASSUME NEW b, Takes(b), GapAtEnd, UNCHANGED gap, matched' > 0 => LastRead' = b
  PROVE  LostIsHit' /\ GapAtEnd' /\ Before' \subseteq {Position(b)}
<1>1. /\ End \in Int /\ Held \subseteq Nat \ {0}
  BY Counted DEF Takes
<1>2. /\ b \in Byte /\ Held' = Held \ {Position(b)} /\ Position(b) \in Held /\ End' = End
      /\ \A p \in Held' : Position(b) < p
      /\ matched > 0 => LastRead \in Byte /\ Position(LastRead) < Position(b)
  BY TakeOne
<1>3. Position(b) \in Nat
  BY <1>1, <1>2
<1>4. Before' \subseteq {Position(b)}
  <2>1. Before' = IF matched' = 0 THEN {} ELSE {Position(LastRead')}
    BY DEF Before, Position
  <2>2. matched' # 0 => matched' > 0
    BY DEF Takes, InOrderOfSending, RetransmitterTypes
  <2> QED
    BY <2>1, <2>2
<1>5. GapAtEnd'
  BY <1>2, <1>4 DEF GapAtEnd
<1>6. ASSUME NEW f \in Nat \ {0}, NEW a \in 1 .. FrameSize,
             Low' < PositionOf(f, a), PositionOf(f, a) <= End
      PROVE  PositionOf(f, a) \in Held' \/ f \in hit
  <2> DEFINE p == PositionOf(f, a)
  <2>1. p \in Nat
    BY Places
  <2>2. Position(b) < p
    <3>1. CASE matched' > 0
      <4>1. Low' = Position(b)
        BY <3>1 DEF Low, Position
      <4> QED
        BY <1>6, <4>1
    <3>2. CASE ~(matched' > 0) /\ fifo' # <<>>
      <4>1. Low' = Position(Head(fifo'))
        BY <3>2 DEF Low, Position
      <4>2. Head(fifo') = fifo'[1] /\ 1 \in DOMAIN fifo'
        BY <3>2, Queue DEF Takes, InOrderOfSending, RetransmitterTypes
      <4>3. Low' \in Held'
        BY <4>1, <4>2 DEF Held, Position
      <4> QED
        BY <1>1, <1>2, <1>3, <1>6, <2>1, <4>3
    <3>3. CASE ~(matched' > 0) /\ fifo' = <<>>
      <4>1. Low' = End
        BY <1>2, <3>3 DEF Low
      <4> QED
        BY <1>1, <1>6, <2>1, <4>1
    <3> QED
      BY <3>1, <3>2, <3>3
  <2>3. Low <= Position(b) /\ Low \in Int
    <3>1. matched > 0 => Position(LastRead) \in Nat
      BY <1>2, BytePosition
    <3> QED
      BY <1>2, <1>3, <3>1 DEF Low, Takes
  <2>4. Low < p
    BY <1>3, <2>1, <2>2, <2>3
  <2>5. p \in Held \/ f \in hit
    BY <1>6, <2>4 DEF LostIsHit, Takes
  <2>6. p # Position(b)
    BY <1>3, <2>1, <2>2
  <2> QED
    BY <1>2, <2>5, <2>6
<1>7. LostIsHit'
  <2>1. hit' = hit
    BY DEF Takes
  <2> QED
    BY <1>2, <1>6, <2>1 DEF LostIsHit, PositionOf
<1> QED
  BY <1>4, <1>5, <1>7

\* The account after a step that adds no more to one side than to the other.
LEMMA StillPaid ==
  ASSUME InOrderOfSending, InOrderOfSending', Paid,
         Cardinality(Missed) \in Nat, Cardinality(Holes) \in Nat,
         Cardinality(Missed') \in Nat, Cardinality(Holes') \in Nat,
         Cardinality(Missed') + Debt' + Cardinality(Holes') + gaps + misled
           <= Cardinality(Missed) + Debt + Cardinality(Holes) + gaps' + misled'
  PROVE  Paid'
<1> DEFINE d == Debt  e == Debt'
<1>1. d \in 0 .. 2 /\ e \in 0 .. 2
  BY DEF Debt
<1>2. gaps \in Nat /\ misled \in Nat /\ gaps' \in Nat /\ misled' \in Nat
  BY DEF InOrderOfSending, RetransmitterTypes
<1>3. Cardinality(Missed) + d + Cardinality(Holes) <= gaps + misled
  BY DEF Paid
<1>4. Cardinality(Missed') + e + Cardinality(Holes') + gaps + misled
        <= Cardinality(Missed) + d + Cardinality(Holes) + gaps' + misled'
  OBVIOUS
<1> HIDE DEF d, e
<1>5. Cardinality(Missed') + e + Cardinality(Holes') <= gaps' + misled'
  BY <1>1, <1>2, <1>3, <1>4
<1> QED
  BY <1>5 DEF Paid, d, e

\* The account of a byte read in search of the magic.
LEMMA WaitAccounts ==
  ASSUME InOrderOfSending, Accounts, WaitForMsg PROVE Accounts'
<1> DEFINE b == Head(fifo)
<1>1. /\ matched \in 0 .. 3 /\ serial = <<>> /\ fifo # <<>>
      /\ matched' = (IF b.value = startMagic[matched + 1] THEN matched + 1 ELSE 0)
      /\ start' = b /\ fifo' = Tail(fifo) /\ serial' = <<>>
      /\ misled' = (IF matched' = 4 /\ b.at # 4 THEN misled + 1 ELSE misled)
      /\ UNCHANGED <<host, delivered, losses>>
  BY Sizes DEF WaitForMsg, Matched, Misleading, InOrderOfSending, RetransmitterTypes
<1>2. Takes(b)
  BY <1>1, WaitStream DEF Takes, Accounts, losses
<1>3. b \in Byte /\ NextAt = b.at /\ Coming = b.frame
  BY <1>2, TakeOne
<1> HIDE DEF b
<1>4. /\ b.frame \in Nat \ {0} /\ b.at \in 1 .. FrameSize
      /\ Position(b) = PositionOf(b.frame, b.at) /\ Position(b) \in Nat
  BY <1>3, BytePosition
<1>5. UNCHANGED <<gaps, gap, hit, delivered>>
  BY <1>1 DEF losses
<1>6. LastRead' = b /\ LastRead = start
  BY <1>1 DEF LastRead
<1>7. LostIsHit' /\ GapAtEnd' /\ Before' \subseteq {Position(b)}
  BY <1>2, <1>5, <1>6, TakeBooks DEF Accounts
<1>8. ~InStep /\ (matched' = 4 => InStep' \/ b.at # 4) /\ start' = b
  <2>1. Len(<<>>) = 0
    OBVIOUS
  <2> QED
    BY <1>1, <1>4, <1>6, <2>1 DEF InStep, Position
<1>10. Kept \subseteq Kept'
  BY <1>5, <1>8 DEF Kept
<1>11. matched > 0 =>
         /\ start \in Byte /\ start.value = startMagic[matched]
         /\ Position(start) < Position(b) /\ Position(start) \in Nat
         /\ start.frame \in Nat \ {0} /\ start.at \in 1 .. FrameSize
         /\ Position(start) = PositionOf(start.frame, start.at)
  <2> SUFFICES ASSUME matched > 0
               PROVE  /\ start \in Byte /\ start.value = startMagic[matched]
                      /\ Position(start) < Position(b)
    BY BytePosition
  <2>1. start.value = startMagic[matched]
    BY DEF InOrderOfSending, Stream
  <2>2. start \in Byte /\ Position(start) < Position(b)
    BY <1>2, <1>6, TakeOne
  <2> QED
    BY <2>1, <2>2
<1>12. /\ Cardinality(Holes') \in Nat /\ Cardinality(Holes) \in Nat
       /\ Cardinality(Holes') <= Cardinality(Holes)
       /\ matched > 0 /\ Position(start) + 1 < Position(b) =>
            Cardinality(Holes') + 1 <= Cardinality(Holes)
  BY <1>2, <1>6, <1>7, HolesShrink
<1>13. /\ Cardinality(Missed') \in Nat /\ Cardinality(Missed) \in Nat
       /\ Cardinality(Missed') <= Cardinality(Missed) + 1
       /\ b.at # FrameSize \/ b.frame \in Kept' =>
            Cardinality(Missed') <= Cardinality(Missed)
  BY <1>2, <1>10, MissedGrows
<1>14. /\ Coming' = b.frame => b.at < FrameSize
       /\ NextAt' > 1 /\ Coming' \notin hit => Coming' = b.frame
  BY <1>2, TakeNext
<1>9. Consumed'
  <2> SUFFICES ASSUME matched' = 4, ~InStep', Coming' \notin hit
               PROVE  Trailing' \/ (b.frame < Coming' /\ NextAt' <= 1)
    <3>1. Len(serial') = 0 /\ hit' = hit
      BY <1>1, <1>5
    <3> QED
      BY <1>8, <3>1 DEF Consumed
  <2>1. NextAt' \in 1 .. FrameSize /\ Coming' \in Nat /\ b.frame <= Coming'
    BY <1>2, TakeNext, TakeOne
  <2>2. CASE Coming' = b.frame
    <3>1. b.at # 4 /\ start' = b
      BY <1>8
    <3>2. start'.at # 4 /\ start'.frame = Coming' /\ Coming' \notin hit'
      BY <1>5, <2>2, <3>1
    <3> QED
      BY <3>2 DEF Trailing
  <2>3. CASE Coming' # b.frame
    BY <1>4, <1>14, <2>1, <2>3
  <2> QED
    BY <2>2, <2>3
<1>15. hit \subseteq Kept'
  BY <1>5 DEF Kept
<1>16. Owed <=> NextAt > 1 /\ Coming \notin hit /\ ~Found
  BY <1>1 DEF Owed
<1>17. FrameSize \in Nat /\ FrameSize > 8
  BY Sizes
<1>18. ASSUME Found, b.frame \notin hit PROVE b.at = matched + 1
  <2>1. /\ matched \in 1 .. 3 /\ start.frame = b.frame /\ start.at = matched
    BY <1>3, <1>18 DEF Found
  <2>2. matched < b.at
    BY <1>4, <1>11, <2>1, OnePlace
  <2>3. ASSUME matched + 1 < b.at PROVE FALSE
    <3>1. matched + 1 \in 1 .. FrameSize
      BY <1>4, <1>17, <2>1, <2>3
    <3>2. /\ PositionOf(b.frame, matched) < PositionOf(b.frame, matched + 1)
          /\ PositionOf(b.frame, matched + 1) < PositionOf(b.frame, b.at)
      <4>1. (b.frame - 1) * FrameSize \in Int
        BY <1>4, <1>17
      <4> QED
        BY <1>4, <2>1, <2>3, <4>1 DEF PositionOf
    <3> QED
      BY <1>2, <1>4, <1>6, <1>11, <1>18, <2>1, <3>1, <3>2, TakeBetween
  <2> QED
    BY <1>4, <2>1, <2>2, <2>3
\* A frame's last byte passes, and the frame was neither kept nor hit.
<1>19. ASSUME b.at = FrameSize, b.frame \notin Kept' PROVE Owed /\ ~Owed'
  <2>1. b.frame \notin hit
    BY <1>15, <1>19
  <2>2. ~Found
    BY <1>1, <1>17, <1>18, <1>19, <2>1
  <2>3. Owed
    BY <1>3, <1>16, <1>17, <1>19, <2>1, <2>2
  <2>4. b.value = "DE"
    BY <1>3, <1>19 DEF Byte
  <2>5. startMagic[matched + 1] # "DE"
    BY <1>1 DEF startMagic
  <2>6. matched' = 0
    BY <1>1, <2>4, <2>5
  <2>7. ~(NextAt' > 1 /\ Coming' \notin hit)
    BY <1>14, <1>17, <1>19
  <2> QED
    BY <1>5, <2>3, <2>6, <2>7 DEF Owed
\* Reading falls out of step only behind a hole.
<1>20. ASSUME Owed', ~Owed, ~(matched' = 4 /\ b.at # 4)
       PROVE  matched > 0 /\ Position(start) + 1 < Position(b)
  <2>1. matched' # 4
    <3>1. Len(<<>>) = 0 /\ 0 < BodySize
      BY Sizes
    <3> QED
      BY <1>1, <1>8, <1>20, <3>1 DEF Owed
  <2>2. NextAt' > 1 /\ Coming' \notin hit /\ ~Found'
    BY <1>5, <1>20, <2>1 DEF Owed
  <2>3. Coming' = b.frame /\ b.frame \notin hit
    BY <1>14, <2>2
  <2>4. b.at = 1 \/ Found
    BY <1>3, <1>4, <1>16, <1>20, <2>3
  <2>5. ~(matched' \in 1 .. 3 /\ b.at = matched')
    BY <1>1, <2>2, <2>3 DEF Found
  <2>6. ASSUME Found PROVE FALSE
    <3>1. b.at = matched + 1 /\ matched \in 1 .. 3
      BY <1>18, <2>3, <2>6 DEF Found
    <3>2. b.value = startMagic[matched + 1]
      BY <1>3, <3>1 DEF Byte
    <3> QED
      BY <1>1, <2>1, <2>5, <3>1, <3>2
  <2>7. b.at = 1 /\ b.value = startMagic[1]
    <3>1. b.at = 1
      BY <2>4, <2>6
    <3> QED
      BY <1>3, <3>1 DEF Byte
  <2>8. matched # 0
    BY <1>1, <2>5, <2>7
  <2>9. ASSUME Position(start) + 1 = Position(b) PROVE FALSE
    <3>1. start.at = FrameSize
      <4> SUFFICES ASSUME start.at # FrameSize PROVE FALSE
        OBVIOUS
      <4>1. start.at + 1 \in 1 .. FrameSize
        BY <1>1, <1>11, <1>17, <2>8
      <4>2. PositionOf(start.frame, start.at + 1) = PositionOf(start.frame, start.at) + 1
        <5>1. (start.frame - 1) * FrameSize \in Int
          BY <1>1, <1>11, <1>17, <2>8
        <5> QED
          BY <1>1, <1>11, <2>8, <5>1 DEF PositionOf
      <4>3. PositionOf(start.frame, start.at + 1) = PositionOf(b.frame, 1)
        BY <1>1, <1>4, <1>11, <2>7, <2>8, <2>9, <4>2
      <4>4. start.at + 1 = 1
        <5> DEFINE f == start.frame  a == start.at + 1
        <5>1. f \in Nat \ {0} /\ a \in 1 .. FrameSize /\ 1 \in 1 .. FrameSize
          BY <1>1, <1>11, <1>17, <2>8, <4>1
        <5>2. PositionOf(f, a) = PositionOf(b.frame, 1)
          BY <4>3
        <5> HIDE DEF f, a
        <5>3. a = 1
          BY <1>4, <5>1, <5>2, OnePlace
        <5> QED
          BY <5>3 DEF a
      <4> QED
        BY <1>1, <1>11, <2>8, <4>4
    <3>2. start.value = "DE"
      BY <1>1, <1>11, <2>8, <3>1 DEF Byte
    <3>3. startMagic[matched] # "DE"
      BY <1>1, <2>8 DEF startMagic
    <3> QED
      BY <1>1, <1>11, <2>8, <3>2, <3>3
  <2> QED
    BY <1>1, <1>4, <1>11, <2>8, <2>9
<1>21. ASSUME ~(matched' = 4 /\ b.at # 4)
       PROVE  Cardinality(Missed') + Debt' + Cardinality(Holes')
                <= Cardinality(Missed) + Debt + Cardinality(Holes)
  <2> DEFINE d == Debt  e == Debt'
  <2>0. ~Trailing /\ ~Trailing'
    BY <1>1, <1>21 DEF Trailing
  <2>1. d \in 0 .. 1 /\ e \in 0 .. 1
    BY <2>0 DEF Debt
  <2>2. (Owed => d = 1) /\ (~Owed' => e = 0)
    BY <2>0 DEF Debt
  <2>3. (~Owed => d = 0) /\ (Owed' => e = 1)
    BY <2>0 DEF Debt
  <2> HIDE DEF d, e
  <2>4. CASE b.at = FrameSize /\ b.frame \notin Kept'
    <3>1. d = 1 /\ e = 0
      BY <1>19, <2>2, <2>4
    <3> QED
      BY <1>12, <1>13, <3>1 DEF d, e
  <2>5. CASE ~(b.at = FrameSize /\ b.frame \notin Kept')
    <3>1. Cardinality(Missed') <= Cardinality(Missed)
      BY <1>13, <2>5
    <3>2. e <= d \/ Cardinality(Holes') + 1 <= Cardinality(Holes)
      BY <1>12, <1>20, <1>21, <2>1, <2>2
    <3>3. e + Cardinality(Holes') <= d + Cardinality(Holes)
      BY <1>12, <2>1, <3>2
    <3> QED
      BY <1>12, <1>13, <2>1, <3>1, <3>3 DEF d, e
  <2> QED
    BY <2>4, <2>5
\* A start that is none pays for the frame in which its body will end.
<1>22. ASSUME matched' = 4 /\ b.at # 4
       PROVE  Cardinality(Missed') + Debt' + Cardinality(Holes')
                <= Cardinality(Missed) + Debt + Cardinality(Holes) + 1
  <2> DEFINE d == Debt  e == Debt'
  <2>1. b.at \in 5 .. FrameSize - 1 /\ matched = 3
    <3>1. matched = 3 /\ b.value = startMagic[4]
      BY <1>1, <1>22
    <3>2. b.at \in 4 .. FrameSize - 1
      BY <1>3, <3>1, MagicEnds DEF startMagic
    <3> QED
      BY <1>22, <3>1, <3>2
  <2>2. ~Trailing
    BY <1>1 DEF Trailing
  <2>3. Trailing' => Owed
    <3>1. SUFFICES ASSUME Trailing' PROVE Owed
      OBVIOUS
    <3>2. b.frame \notin hit
      BY <1>1, <1>5, <1>8, <3>1 DEF Trailing
    <3>3. ~Found
      BY <1>18, <2>1, <3>2
    <3> QED
      BY <1>3, <1>4, <1>16, <2>1, <3>2, <3>3
  <2>4. d \in 0 .. 1 /\ e \in 0 .. 2 /\ e <= d + 1
    BY <2>2, <2>3 DEF Debt
  <2>5. Cardinality(Missed') <= Cardinality(Missed)
    BY <1>13, <2>1
  <2> HIDE DEF d, e
  <2>6. Cardinality(Missed') + e + Cardinality(Holes')
          <= Cardinality(Missed) + d + Cardinality(Holes) + 1
    BY <1>12, <1>13, <2>4, <2>5
  <2> QED
    BY <2>6 DEF d, e
<1>23. Paid'
  <2>1. gaps' = gaps /\ gaps \in Nat /\ misled \in Nat
    BY <1>5 DEF InOrderOfSending, RetransmitterTypes
  <2> DEFINE d == Debt  e == Debt'
  <2>2. d \in 0 .. 2 /\ e \in 0 .. 2
    BY DEF Debt
  <2>3. \/ /\ misled' = misled
           /\ Cardinality(Missed') + e + Cardinality(Holes')
                <= Cardinality(Missed) + d + Cardinality(Holes)
        \/ /\ misled' = misled + 1
           /\ Cardinality(Missed') + e + Cardinality(Holes')
                <= Cardinality(Missed) + d + Cardinality(Holes) + 1
    BY <1>1, <1>21, <1>22
  <2> HIDE DEF d, e
  <2>4. Cardinality(Missed') + e + Cardinality(Holes') + gaps + misled
          <= Cardinality(Missed) + d + Cardinality(Holes) + gaps' + misled'
    BY <1>12, <1>13, <2>1, <2>2, <2>3
  <2> QED
    BY <1>2, <1>12, <1>13, <2>4, StillPaid DEF Takes, Accounts, d, e
<1> QED
  BY <1>7, <1>9, <1>23 DEF Accounts

\* The account of a byte read into the body.
LEMMA BodyAccounts ==
  ASSUME InOrderOfSending, Accounts, ReadBody PROVE Accounts'
<1> DEFINE b == Head(fifo)  n == Len(serial)
<1>1. /\ matched = 4 /\ n < BodySize /\ fifo # <<>>
      /\ serial' = Append(serial, b) /\ fifo' = Tail(fifo)
      /\ UNCHANGED <<host, matched, start, delivered, misled, losses>>
  BY Sizes DEF ReadBody, bodies
<1>2. Takes(b)
  BY <1>1, BodyStream DEF Takes, Accounts, losses
<1>3. b \in Byte /\ NextAt = b.at /\ Coming = b.frame
  BY <1>2, TakeOne
<1> HIDE DEF b
<1>4. /\ b.frame \in Nat \ {0} /\ b.at \in 1 .. FrameSize
      /\ Position(b) = PositionOf(b.frame, b.at) /\ Position(b) \in Nat
  BY <1>3, BytePosition
<1>5. UNCHANGED <<gaps, gap, hit, delivered, misled, start, matched>>
  BY <1>1 DEF losses
<1>6. n \in Nat /\ Len(serial') = n + 1 /\ LastRead' = b
  <2>1. serial \in Seq(Byte)
    BY DEF InOrderOfSending, RetransmitterTypes
  <2>2. n \in Nat /\ Len(serial') = n + 1 /\ serial'[n + 1] = b /\ serial' # <<>>
    BY <1>1, <1>3, <2>1
  <2> QED
    BY <2>2 DEF LastRead
<1>7. LostIsHit' /\ GapAtEnd' /\ Before' \subseteq {Position(b)}
  BY <1>2, <1>5, <1>6, TakeBooks DEF Accounts
<1>8. /\ start \in Byte /\ start.at \in 4 .. FrameSize - 1
      /\ start.frame \in Nat \ {0} /\ Position(start) = PositionOf(start.frame, start.at)
      /\ Position(start) \in Nat
  <2>1. start \in Byte /\ start.at \in 4 .. FrameSize - 1
    BY <1>1, StartIsByte
  <2> QED
    BY <2>1, BytePosition
<1>9. Position(LastRead) \in Nat /\ Position(LastRead) < Position(b) /\ LastRead \in Byte
  BY <1>1, <1>2, TakeOne, BytePosition
<1>10. n <= Position(LastRead) - Position(start)
  BY <1>6, <1>8, <1>9 DEF LastRead, InOrderOfSending, Stream
<1>11. FrameSize \in Nat /\ FrameSize = BodySize + 4 /\ BodySize \in Nat /\ BodySize > 4
  BY Sizes
<1>12. /\ InStep <=> start.at = 4 /\ Position(LastRead) = Position(start) + n
       /\ InStep' <=> start.at = 4 /\ Position(b) = Position(start) + n + 1
  <2>1. Position(start)' = Position(start) /\ Position(LastRead') = Position(b)
    BY <1>5, <1>6 DEF Position
  <2>2. InStep' <=> start.at = 4 /\ Position(b) = Position(start) + Len(serial')
    BY <1>1, <1>5, <1>6, <2>1 DEF InStep, Position
  <2>3. InStep <=> start.at = 4 /\ Position(LastRead) = Position(start) + Len(serial)
    BY <1>1 DEF InStep
  <2>4. Position(start) + Len(serial') = Position(start) + n + 1
    BY <1>6, <1>8
  <2> QED
    BY <2>2, <2>3, <2>4
<1>13. InStep' => InStep
  BY <1>4, <1>6, <1>8, <1>9, <1>10, <1>12
<1>14. /\ Cardinality(Holes') \in Nat /\ Cardinality(Holes) \in Nat
       /\ Cardinality(Holes') <= Cardinality(Holes)
       /\ Position(LastRead) + 1 < Position(b) =>
            Cardinality(Holes') + 1 <= Cardinality(Holes)
  BY <1>1, <1>2, <1>7, HolesShrink
<1>15. /\ b.frame <= Coming'
       /\ Coming' = b.frame => b.at < FrameSize
       /\ NextAt' > 1 /\ Coming' \notin hit => Coming' = b.frame
       /\ Coming' = b.frame /\ b.frame \notin hit => NextAt' = b.at + 1
       /\ Coming' \in Nat /\ NextAt' \in 1 .. FrameSize
  BY <1>2, TakeNext, TakeOne
<1>16. start.frame <= b.frame
  <2> DEFINE a == start.at
  <2>1. PositionOf(start.frame, a) <= PositionOf(b.frame, b.at)
    BY <1>4, <1>6, <1>8, <1>9, <1>10
  <2>2. a \in 1 .. FrameSize
    BY <1>8, <1>11
  <2> HIDE DEF a
  <2> QED
    BY <1>4, <1>8, <2>1, <2>2, OnePlace
\* A hole behind what has been read in step is in the start's frame.
<1>17. ASSUME InStep, ~InStep'
       PROVE  /\ start.frame \in hit /\ Position(LastRead) + 1 < Position(b)
              /\ b.frame # start.frame => b.at = 1 \/ b.frame \in hit
  <2>1. Position(LastRead) = Position(start) + n /\ start.at = 4
    BY <1>12, <1>17
  <2>2. Position(LastRead) + 1 < Position(b)
    BY <1>4, <1>6, <1>8, <1>9, <1>12, <1>17, <2>1
  <2>3. 4 + n + 1 \in 1 .. FrameSize
    BY <1>1, <1>6, <1>11
  <2>4. PositionOf(start.frame, 4 + n + 1) = Position(LastRead) + 1
    <3>1. (start.frame - 1) * FrameSize \in Int
      BY <1>8, <1>11
    <3> QED
      BY <1>6, <1>8, <2>1, <3>1 DEF PositionOf
  <2>5. start.frame \in hit
    BY <1>1, <1>2, <1>4, <1>8, <1>9, <2>2, <2>3, <2>4, TakeBetween
  <2>6. ASSUME b.frame # start.frame, b.at # 1 PROVE b.frame \in hit
    <3>1. start.frame < b.frame /\ 1 \in 1 .. FrameSize
      BY <1>4, <1>8, <1>11, <1>16, <2>6
    <3>2. PositionOf(start.frame, 4 + n + 1) < PositionOf(b.frame, 1)
      BY <1>4, <1>8, <2>3, <3>1, Places
    <3>3. PositionOf(b.frame, 1) < PositionOf(b.frame, b.at) /\ PositionOf(b.frame, 1) \in Nat
      <4>1. (b.frame - 1) * FrameSize \in Nat
        BY <1>4, <1>11
      <4> QED
        BY <1>4, <2>6, <4>1 DEF PositionOf
    <3>4. Position(LastRead) < PositionOf(b.frame, 1)
      BY <1>9, <2>4, <3>2, <3>3
    <3> QED
      BY <1>1, <1>2, <1>4, <3>1, <3>3, <3>4, TakeBetween
  <2> QED
    BY <2>2, <2>5, <2>6
<1>18. Consumed'
  <2> SUFFICES ASSUME ~InStep', Coming' \notin hit, ~Trailing'
               PROVE  start.frame < Coming' /\ NextAt' <= n + 2
    <3>1. Len(serial') + 1 = n + 2 /\ hit' = hit /\ start'.frame = start.frame
      BY <1>5, <1>6
    <3> QED
      BY <3>1 DEF Consumed
  <2>1. CASE InStep
    <3>1. start.frame < Coming'
      BY <1>4, <1>8, <1>15, <1>16, <1>17, <2>1
    <3>2. CASE Coming' = b.frame
      <4>1. b.frame \notin hit /\ b.frame # start.frame
        BY <1>17, <2>1, <3>2
      <4>2. b.at = 1
        BY <1>17, <2>1, <4>1
      <4>3. NextAt' = 2
        BY <1>15, <3>2, <4>1, <4>2
      <4> QED
        BY <1>6, <3>1, <4>3
    <3>3. CASE Coming' # b.frame
      <4>1. NextAt' = 1
        BY <1>15, <3>3
      <4> QED
        BY <1>6, <3>1, <4>1
    <3> QED
      BY <3>2, <3>3
  <2>2. CASE ~InStep
    <3>1. CASE Coming' = b.frame
      <4>1. b.frame \notin hit
        BY <3>1
      <4>2. ~Trailing
        BY <1>1, <1>3, <1>5, <3>1, <4>1 DEF Trailing
      <4>3. start.frame < b.frame /\ b.at <= n + 1
        BY <1>1, <1>3, <2>2, <4>1, <4>2 DEF Accounts, Consumed
      <4>4. NextAt' = b.at + 1
        BY <1>15, <3>1, <4>1
      <4> QED
        BY <1>4, <1>6, <3>1, <4>3, <4>4
    <3>2. CASE Coming' # b.frame
      <4>1. NextAt' = 1
        BY <1>15, <3>2
      <4>2. start.frame < Coming'
        BY <1>4, <1>8, <1>15, <1>16, <3>2
      <4> QED
        BY <1>6, <4>1, <4>2
    <3> QED
      BY <3>1, <3>2
  <2> QED
    BY <2>1, <2>2
<1>19. Kept \subseteq Kept'
  <2>1. InStep /\ ~InStep' => start.frame \in hit
    BY <1>17
  <2> QED
    BY <1>5, <2>1 DEF Kept
<1>20. /\ Cardinality(Missed') \in Nat /\ Cardinality(Missed) \in Nat
       /\ Cardinality(Missed') <= Cardinality(Missed) + 1
       /\ b.at # FrameSize \/ b.frame \in Kept' =>
            Cardinality(Missed') <= Cardinality(Missed)
  BY <1>2, <1>19, MissedGrows
<1>21. ASSUME InStep' PROVE b.frame = start.frame /\ b.at = 4 + n + 1
  <2> DEFINE k == n + 1
  <2>0. start.at = 4
    BY <1>12, <1>21
  <2>1. k \in 1 .. BodySize
    BY <1>1, <1>6, <1>11
  <2>2. Position(b) = Position(start) + k
    BY <1>6, <1>8, <1>12, <1>21
  <2> HIDE DEF k
  <2>3. b.frame = start.frame /\ b.at = start.at + k
    BY <1>3, <1>8, <2>0, <2>1, <2>2, SameFrame
  <2> QED
    BY <1>6, <1>8, <2>0, <2>3 DEF k
\* No frame passes in the middle of a body unless it is the body's, or hit, or
\* the body's start is false and lies in it.
<1>22. b.at # FrameSize \/ b.frame \in Kept' \/ Trailing
  <2> SUFFICES ASSUME b.at = FrameSize, b.frame \notin Kept', ~Trailing PROVE FALSE
    OBVIOUS
  <2>1. b.frame \notin hit
    BY <1>5 DEF Kept
  <2>2. CASE InStep'
    <3>1. b.frame \in Kept'
      BY <1>5, <1>21, <2>2 DEF Kept
    <3> QED
      BY <3>1
  <2>3. CASE InStep /\ ~InStep'
    <3>1. b.frame # start.frame
      BY <1>17, <2>1, <2>3
    <3> QED
      BY <1>11, <1>17, <2>1, <2>3, <3>1
  <2>4. CASE ~InStep
    <3>1. b.at <= n + 1
      BY <1>1, <1>3, <2>1, <2>4 DEF Accounts, Consumed
    <3> QED
      BY <1>1, <1>6, <1>11, <3>1
  <2> QED
    BY <2>2, <2>3, <2>4
<1>23. (Owed <=> ~InStep) /\ (Trailing => Owed)
  BY <1>1 DEF Owed, Trailing, InStep
<1>24. ASSUME Owed', ~Owed PROVE Position(LastRead) + 1 < Position(b)
  <2> SUFFICES ASSUME InStep' PROVE FALSE
    BY <1>17, <1>23, <1>24
  <2>1. ~(n + 1 < BodySize)
    BY <1>1, <1>5, <1>6, <1>24 DEF Owed
  <2>2. b.at = FrameSize
    BY <1>1, <1>6, <1>11, <1>21, <2>1
  <2>3. NextAt' > 1 /\ Coming' \notin hit
    BY <1>1, <1>5, <1>6, <1>24, <2>1 DEF Owed
  <2> QED
    BY <1>11, <1>15, <2>2, <2>3
\* The rest of the frame of a false start ends with the frame.
<1>25. Trailing' => Trailing /\ b.at # FrameSize
  <2> SUFFICES ASSUME Trailing' PROVE Trailing /\ b.at # FrameSize
    OBVIOUS
  <2>1. start.at # 4 /\ start.frame = Coming' /\ Coming' \notin hit
    BY <1>5 DEF Trailing
  <2>2. b.frame = Coming'
    BY <1>4, <1>8, <1>15, <1>16, <2>1
  <2> QED
    BY <1>1, <1>3, <1>4, <1>11, <1>15, <2>1, <2>2 DEF Trailing
<1>26. Paid'
  <2>1. gaps' = gaps /\ gaps \in Nat /\ misled' = misled /\ misled \in Nat
    BY <1>5 DEF InOrderOfSending, RetransmitterTypes
  <2> DEFINE d == Debt  e == Debt'
  <2>2. d \in 0 .. 2 /\ e \in 0 .. 2
    BY DEF Debt
  <2>3. /\ Trailing => d = 2
        /\ ~Trailing' => e <= 1
    BY <1>23 DEF Debt
  <2>4. e <= d \/ (e <= d + 1 /\ Cardinality(Holes') + 1 <= Cardinality(Holes))
    <3>1. CASE Trailing'
      BY <1>25, <2>2, <2>3, <3>1
    <3>2. CASE ~Trailing' /\ Owed
      BY <3>2 DEF Debt
    <3>3. CASE ~Trailing' /\ ~Owed
      <4>1. d = 0 /\ e \in 0 .. 1 /\ (~Owed' => e = 0)
        BY <3>3 DEF Debt
      <4> HIDE DEF d, e
      <4> QED
        BY <1>14, <1>24, <3>3, <4>1
    <3> QED
      BY <3>1, <3>2, <3>3
  <2>5. CASE b.at = FrameSize /\ b.frame \notin Kept'
    <3>1. d = 2 /\ e <= 1
      BY <1>22, <1>25, <2>3, <2>5
    <3> HIDE DEF d, e
    <3>2. Cardinality(Missed') + e + Cardinality(Holes') + gaps + misled
            <= Cardinality(Missed) + d + Cardinality(Holes) + gaps' + misled'
      BY <1>14, <1>20, <2>1, <2>2, <3>1
    <3> QED
      BY <1>2, <1>14, <1>20, <3>2, StillPaid DEF Takes, Accounts, d, e
  <2>6. CASE ~(b.at = FrameSize /\ b.frame \notin Kept')
    <3>1. Cardinality(Missed') <= Cardinality(Missed)
      BY <1>20, <2>6
    <3> HIDE DEF d, e
    <3>2. Cardinality(Missed') + e + Cardinality(Holes') + gaps + misled
            <= Cardinality(Missed) + d + Cardinality(Holes) + gaps' + misled'
      BY <1>14, <1>20, <2>1, <2>2, <2>4, <3>1
    <3> QED
      BY <1>2, <1>14, <1>20, <3>2, StillPaid DEF Takes, Accounts, d, e
  <2> QED
    BY <2>5, <2>6
<1> QED
  BY <1>7, <1>18, <1>26 DEF Accounts

\* The account of a body that is published: in step it is delivered, out of step its debt falls due.
LEMMA PublishAccounts ==
  ASSUME InOrderOfSending, Accounts, Publish PROVE Accounts'
<1>1. /\ Len(serial) = BodySize /\ serial' = <<>> /\ matched' = 0
      /\ delivered' = (IF Exact THEN delivered \cup {start.frame} ELSE delivered)
      /\ UNCHANGED <<host, fifo, start, misled, losses>>
  BY DEF Publish, FromTheStart
<1>2. UNCHANGED <<misled, gaps, gap, hit, fifo, frame, at>>
  BY <1>1 DEF losses, host
<1>3. matched = 4 /\ (start.at = 4 /\ Position(LastRead) = Position(start) + BodySize => Exact)
  BY <1>1, BodiesAreTrue
<1>4. /\ End' = End /\ Held' = Held /\ Past' = Past /\ Coming' = Coming /\ NextAt' = NextAt
      /\ Before' = {}
  BY <1>1, <1>2 DEF End, Held, Past, Coming, NextAt, Before
<1>5. LostIsHit'
  <2>0. End \in Int /\ Held \subseteq Nat
    BY Counted
  <2>1. Low' = IF fifo # <<>> THEN Position(Head(fifo)) ELSE End
    BY <1>1, <1>2, <1>4 DEF Low, Position
  <2>2. Low <= Low' /\ Low \in Int /\ Low' \in Int
    <3>1. Low = Position(LastRead) /\ LastRead \in Byte /\ Position(LastRead) <= End
      BY <1>3 DEF Low, InOrderOfSending, RetransmitterTypes, Stream, LastRead
    <3>2. Position(LastRead) \in Nat
      BY <3>1, BytePosition
    <3>3. CASE fifo # <<>>
      <4>1. Head(fifo) = fifo[1] /\ 1 \in DOMAIN fifo /\ Head(fifo) \in Byte
        BY <3>3, Queue DEF InOrderOfSending, RetransmitterTypes
      <4>2. Position(LastRead) < Position(Head(fifo)) /\ Position(Head(fifo)) \in Nat
        BY <1>3, <4>1, BytePosition DEF InOrderOfSending, Stream
      <4> QED
        BY <2>1, <3>1, <3>2, <3>3, <4>2
    <3>4. CASE fifo = <<>>
      BY <2>0, <2>1, <3>1, <3>2, <3>4
    <3> QED
      BY <3>3, <3>4
  <2> DEFINE l == Low'
  <2>3. ASSUME NEW f \in Nat \ {0}, NEW a \in 1 .. FrameSize,
               l < PositionOf(f, a), PositionOf(f, a) <= End
        PROVE  PositionOf(f, a) \in Held \/ f \in hit
    <3>1. PositionOf(f, a) \in Nat
      BY Places
    <3>2. l \in Int /\ Low <= l
      BY <2>2
    <3> HIDE DEF l
    <3>3. Low < PositionOf(f, a)
      BY <2>2, <2>3, <3>1, <3>2
    <3> QED
      BY <2>3, <3>3 DEF Accounts, LostIsHit
  <2> QED
    BY <1>2, <1>4, <2>3 DEF LostIsHit, PositionOf
<1>6. GapAtEnd'
  BY <1>2, <1>4 DEF Accounts, GapAtEnd
<1>7. ~InStep' /\ Consumed'
  BY <1>1 DEF InStep, Consumed
<1>8. Missed' \subseteq Missed
  <2>1. Kept \subseteq Kept'
    BY <1>1, <1>2, <1>3 DEF Kept, InStep
  <2> QED
    BY <1>4, <2>1 DEF Missed
<1>9. Holes' \subseteq Holes
  BY <1>4 DEF Holes
<1>10. Owed' => Owed
  <2>1. Owed' => NextAt > 1 /\ Coming \notin hit
    BY <1>1, <1>2, <1>4 DEF Owed
  <2>2. ~Found
    BY <1>3 DEF Found
  <2>3. ~(Len(serial) < BodySize)
    BY <1>1, Sizes
  <2> QED
    BY <2>1, <2>2, <2>3 DEF Owed
<1>11. Paid'
  <2>1. /\ Cardinality(Missed') \in Nat /\ Cardinality(Missed) \in Nat
        /\ Cardinality(Holes') \in Nat /\ Cardinality(Holes) \in Nat
        /\ Cardinality(Missed') <= Cardinality(Missed)
        /\ Cardinality(Holes') <= Cardinality(Holes)
    BY <1>8, <1>9, Counted, CountAtMost
  <2>2. gaps' = gaps /\ gaps \in Nat /\ misled' = misled /\ misled \in Nat
    BY <1>2 DEF InOrderOfSending, RetransmitterTypes
  <2> DEFINE d == Debt  e == Debt'
  <2>3. d \in 0 .. 2 /\ e \in 0 .. 2 /\ e <= d
    <3>1. ~Trailing'
      BY <1>1 DEF Trailing
    <3> QED
      BY <1>10, <3>1 DEF Debt
  <2> HIDE DEF d, e
  <2>4. Cardinality(Missed') + e + Cardinality(Holes') + gaps + misled
          <= Cardinality(Missed) + d + Cardinality(Holes) + gaps' + misled'
    BY <2>1, <2>2, <2>3
  <2> QED
    BY <1>1, <2>1, <2>4, PublishStream, StillPaid DEF Accounts, d, e
<1> QED
  BY <1>5, <1>6, <1>7, <1>11 DEF Accounts

\* A frame that begins changes no account.
LEMMA NextFrameAccounts ==
  ASSUME InOrderOfSending, Accounts, NextFrame PROVE Accounts'
<1>1. /\ at = FrameSize /\ frame' = frame + 1 /\ at' = 0
      /\ UNCHANGED <<fifo, matched, serial, start, delivered, misled, losses>>
      /\ End' = End
  BY NextFrameStream DEF NextFrame, bodies
<1>2. UNCHANGED <<gaps, gap, hit>>
  BY <1>1 DEF losses
<1>3. frame \in Nat /\ FrameSize \in Nat /\ FrameSize # 0
  BY Sizes DEF InOrderOfSending, RetransmitterTypes
<1>4. Past' = Past /\ Coming' = Coming /\ NextAt' = NextAt
  <2>1. Past' = Past
    BY <1>1, <1>3 DEF Past
  <2>2. NextAt' = NextAt
    BY <1>1, <1>3 DEF NextAt
  <2> QED
    BY <2>1, <2>2 DEF Coming
<1>5. /\ Held' = Held /\ Before' = Before /\ Low' = Low /\ InStep' = InStep
      /\ LastRead' = LastRead
  BY <1>1 DEF Held, Before, Low, InStep, LastRead, Position
<1>6. Found' = Found
  BY <1>1, <1>4 DEF Found
<1>7. Trailing' = Trailing
  BY <1>1, <1>2, <1>4 DEF Trailing
<1>8. Kept' = Kept /\ Missed' = Missed /\ Holes' = Holes /\ Owed' = Owed /\ Debt' = Debt
  BY <1>1, <1>2, <1>4, <1>5, <1>6, <1>7 DEF Kept, Missed, Holes, Owed, Debt
<1> QED
  BY <1>1, <1>2, <1>4, <1>5, <1>7, <1>8
     DEF Accounts, LostIsHit, GapAtEnd, Consumed, Paid, PositionOf

\* A byte that comes into the FIFO.
LEMMA StoredAccounts ==
  ASSUME InOrderOfSending, InOrderOfSending', Accounts, Arrive, Len(fifo) < FifoSize
  PROVE  Accounts'
<1> DEFINE b == [value |-> sending[at + 1], frame |-> frame, at |-> at + 1]
<1>0. /\ at \in 0 .. FrameSize - 1 /\ at' = at + 1 /\ frame \in Nat \ {0} /\ frame' = frame
      /\ UNCHANGED <<sending, matched, serial, start, delivered, misled, gaps, hit>>
      /\ gap' = FALSE /\ fifo' = Append(fifo, b)
  BY Sizes DEF Arrive, bodies, InOrderOfSending, RetransmitterTypes
<1>1. End' = End + 1 /\ Position(b) = End + 1 /\ End \in Int /\ b.frame = frame /\ b.at = at + 1
  <2>1. (frame - 1) * FrameSize \in Int
    BY <1>0, Sizes
  <2>2. End = (frame - 1) * FrameSize + at /\ End' = (frame - 1) * FrameSize + at'
    BY <1>0 DEF End, PositionOf
  <2>3. b.frame = frame /\ b.at = at + 1
    OBVIOUS
  <2>4. Position(b) = (frame - 1) * FrameSize + (at + 1)
    BY <2>3 DEF Position
  <2>5. at \in Int /\ at' = at + 1
    BY <1>0
  <2> HIDE DEF b
  <2>6. End \in Int
    BY <2>1, <2>2, <2>5
  <2>7. End' = End + 1
    BY <2>1, <2>2, <2>5
  <2>8. Position(b) = End + 1
    BY <2>1, <2>2, <2>4, <2>5
  <2> QED
    BY <2>3, <2>6, <2>7, <2>8
<1> HIDE DEF b
<1>2. /\ Held \subseteq Nat \ {0} /\ \A p \in Held : p <= End
      /\ fifo \in Seq(Byte)
  BY Counted DEF InOrderOfSending, RetransmitterTypes
<1>3. LastRead' = LastRead /\ Before' = Before /\ InStep' = InStep
  BY <1>0 DEF LastRead, Before, InStep, Position
<1>4. matched # 0 => matched > 0 /\ Position(LastRead) \in Nat /\ Position(LastRead) <= End
  <2>1. matched # 0 => matched > 0 /\ LastRead \in Byte
    BY DEF InOrderOfSending, RetransmitterTypes, LastRead
  <2> QED
    BY <2>1, BytePosition DEF InOrderOfSending, Stream
<1>5. /\ Len(fifo') = Len(fifo) + 1 /\ Len(fifo) \in Nat /\ fifo' # <<>>
      /\ DOMAIN fifo = 1 .. Len(fifo) /\ DOMAIN fifo' = 1 .. Len(fifo) + 1
      /\ \A k \in 1 .. Len(fifo) : fifo'[k] = fifo[k]
      /\ fifo'[Len(fifo) + 1] = b
      /\ Head(fifo') = fifo'[1] /\ (fifo # <<>> => Head(fifo) = fifo[1] /\ Len(fifo) > 0)
  <2>1. fifo \in Seq(Byte \cup {b})
    BY <1>2
  <2> QED
    BY <1>0, <2>1
<1>6. /\ fifo # <<>> => Head(fifo') = Head(fifo)
      /\ fifo = <<>> => Head(fifo') = b
  BY <1>5
<1>7. Held' = Held \cup {End + 1}
  <2>1. Held' = {Position(fifo'[k]) : k \in DOMAIN fifo'}
    BY DEF Held, Position
  <2>2. ASSUME NEW p \in Held' PROVE p \in Held \cup {End + 1}
    <3>1. PICK k \in DOMAIN fifo' : p = Position(fifo'[k])
      BY <2>1, <2>2
    <3>2. k = Len(fifo) + 1 \/ k \in 1 .. Len(fifo)
      BY <1>5
    <3> QED
      BY <1>1, <1>5, <3>1, <3>2 DEF Held
  <2>3. Held \subseteq Held'
    <3> SUFFICES ASSUME NEW k \in DOMAIN fifo PROVE Position(fifo[k]) \in Held'
      BY DEF Held
    <3>1. k \in DOMAIN fifo' /\ fifo'[k] = fifo[k]
      BY <1>5
    <3> QED
      BY <2>1, <3>1
  <2>4. End + 1 \in Held'
    <3>1. Len(fifo) + 1 \in DOMAIN fifo' /\ fifo'[Len(fifo) + 1] = b
      BY <1>5
    <3> QED
      BY <1>1, <2>1, <3>1
  <2> QED
    BY <2>2, <2>3, <2>4
<1>8. Past' = Past /\ Coming' = Coming /\ NextAt' = NextAt
  <2>1. CASE fifo # <<>>
    BY <1>5, <1>6, <2>1 DEF Past, Coming, NextAt
  <2>2. CASE fifo = <<>>
    <3>1. at # FrameSize
      BY <1>0, Sizes
    <3>2. Past' = Past
      BY <1>1, <1>5, <1>6, <2>2, <3>1 DEF Past
    <3>3. NextAt' = NextAt
      BY <1>1, <1>5, <1>6, <2>2, <3>1 DEF NextAt
    <3> QED
      BY <3>2, <3>3 DEF Coming
  <2> QED
    BY <2>1, <2>2
<1>9. LostIsHit'
  <2>1. ASSUME NEW f \in Nat \ {0}, NEW a \in 1 .. FrameSize,
               Low' < PositionOf(f, a), PositionOf(f, a) <= End + 1
        PROVE  PositionOf(f, a) \in Held' \/ f \in hit
    <3> DEFINE p == PositionOf(f, a)
    <3>1. p \in Nat
      BY Places
    <3>2. CASE p = End + 1
      BY <1>7, <3>2
    <3>3. CASE p # End + 1
      <4>1. p <= End
        BY <1>1, <2>1, <3>1, <3>3
      <4>2. Low' = Low
        <5>1. CASE fifo # <<>> \/ matched > 0
          BY <1>0, <1>3, <1>5, <1>6, <5>1 DEF Low, Position
        <5>2. CASE fifo = <<>> /\ ~(matched > 0)
          <6>1. Low' = End + 1
            BY <1>0, <1>1, <1>5, <1>6, <5>2 DEF Low, Position
          <6> QED
            BY <1>1, <2>1, <3>1, <6>1
        <5> QED
          BY <5>1, <5>2
      <4> QED
        BY <1>7, <2>1, <4>1, <4>2 DEF Accounts, LostIsHit
    <3> QED
      BY <3>2, <3>3
  <2> QED
    BY <1>0, <1>1, <2>1 DEF LostIsHit, PositionOf
<1>10. Trailing' = Trailing
  BY <1>0, <1>8 DEF Trailing
<1>14. GapAtEnd' /\ Consumed'
  BY <1>0, <1>3, <1>8, <1>10 DEF GapAtEnd, Accounts, Consumed
<1>11. Found' = Found
  BY <1>0, <1>8 DEF Found
<1>12. Kept' = Kept /\ Missed' = Missed /\ Owed' = Owed /\ Debt' = Debt
  BY <1>0, <1>3, <1>8, <1>10, <1>11 DEF Kept, Missed, Owed, Debt
<1>13. Holes' = Holes
  <2>1. Holes' = {p \in 1 .. End + 1 : p \notin Held' /\ p - 1 \in Held' \cup Before}
    BY <1>1, <1>3 DEF Holes
  <2>2. ASSUME NEW p \in 1 .. End + 1, p \notin Held', p - 1 \in Held' \cup Before PROVE p \in Holes
    <3>1. p # End + 1 /\ p \notin Held
      BY <1>7, <2>2
    <3>2. p \in 1 .. End /\ p - 1 # End + 1
      BY <1>1, <3>1
    <3>3. p - 1 \in Held \cup Before
      BY <1>7, <2>2, <3>2
    <3> QED
      BY <3>1, <3>2, <3>3 DEF Holes
  <2>3. ASSUME NEW p \in Holes PROVE p \in 1 .. End + 1 /\ p \notin Held' /\ p - 1 \in Held' \cup Before
    <3>1. p \in 1 .. End /\ p \notin Held /\ p - 1 \in Held \cup Before
      BY DEF Holes
    <3>2. p \in 1 .. End + 1 /\ p # End + 1
      BY <1>1, <3>1
    <3> QED
      BY <1>7, <3>1, <3>2
  <2> QED
    BY <2>1, <2>2, <2>3
<1> QED
  BY <1>0, <1>9, <1>12, <1>13, <1>14 DEF Accounts, Paid

\* A byte that is lost.
LEMMA LostAccounts ==
  ASSUME InOrderOfSending, InOrderOfSending', Accounts, Arrive, ~(Len(fifo) < FifoSize)
  PROVE  Accounts'
<1>0. /\ at \in 0 .. FrameSize - 1 /\ at' = at + 1 /\ frame \in Nat \ {0} /\ frame' = frame
      /\ at + 1 \in 1 .. FrameSize
      /\ UNCHANGED <<sending, matched, serial, start, delivered, misled, fifo>>
      /\ gap' = TRUE /\ hit' = hit \cup {frame}
      /\ gaps' = (IF gap THEN gaps ELSE gaps + 1)
  BY Sizes DEF Arrive, bodies, InOrderOfSending, RetransmitterTypes
<1>1. /\ End' = End + 1 /\ End \in Int
      /\ PositionOf(frame, at + 1) = End + 1
  <2>1. (frame - 1) * FrameSize \in Int
    BY <1>0, Sizes
  <2> QED
    BY <1>0, <2>1 DEF End, PositionOf
<1>2. /\ Held \subseteq Nat \ {0} /\ \A p \in Held : p <= End
      /\ gaps \in Nat /\ IsFiniteSet(Holes) /\ IsFiniteSet(Missed)
      /\ Cardinality(Missed) \in Nat
  BY Counted DEF InOrderOfSending, RetransmitterTypes
<1>3. /\ LastRead' = LastRead /\ Before' = Before /\ InStep' = InStep /\ Held' = Held
  BY <1>0 DEF LastRead, Before, InStep, Held, Position
<1>4. matched # 0 => matched > 0 /\ Position(LastRead) \in Nat /\ Position(LastRead) <= End
  <2>1. matched # 0 => matched > 0 /\ LastRead \in Byte
    BY DEF InOrderOfSending, RetransmitterTypes, LastRead
  <2> QED
    BY <2>1, BytePosition DEF InOrderOfSending, Stream
<1>5. fifo # <<>>
  BY RetransmitterAssumption
<1>6. Past' = Past /\ Coming' = Coming /\ NextAt' = NextAt /\ Low' = Low /\ Found' = Found
  <2>1. Past' = Past /\ NextAt' = NextAt
    BY <1>0, <1>5 DEF Past, NextAt
  <2>2. Coming' = Coming
    BY <2>1 DEF Coming
  <2>3. Low' = Low
    BY <1>0, <1>3, <1>5 DEF Low, Position
  <2> QED
    BY <1>0, <2>1, <2>2, <2>3 DEF Found
<1>7. LostIsHit'
  <2>1. ASSUME NEW f \in Nat \ {0}, NEW a \in 1 .. FrameSize,
               Low < PositionOf(f, a), PositionOf(f, a) <= End + 1
        PROVE  PositionOf(f, a) \in Held \/ f \in hit'
    <3>1. PositionOf(f, a) \in Nat
      BY Places
    <3>2. CASE PositionOf(f, a) = End + 1
      <4>1. PositionOf(f, a) = PositionOf(frame, at + 1)
        BY <1>1, <3>2
      <4>2. f = frame
        BY <1>0, <4>1, OnePlace
      <4> QED
        BY <1>0, <4>2
    <3>3. CASE PositionOf(f, a) # End + 1
      <4>1. PositionOf(f, a) <= End
        BY <1>1, <2>1, <3>1, <3>3
      <4> QED
        BY <1>0, <2>1, <4>1 DEF Accounts, LostIsHit
    <3> QED
      BY <3>2, <3>3
  <2> QED
    BY <1>1, <1>3, <1>6, <2>1 DEF LostIsHit, PositionOf
<1>8. End + 1 \notin Held /\ End + 1 \notin Before
  BY <1>1, <1>2, <1>4 DEF Before
<1>9. GapAtEnd'
  BY <1>1, <1>3, <1>8 DEF GapAtEnd
<1>10. Consumed' /\ (Trailing' => Trailing)
  <2>1. Trailing' => Trailing
    BY <1>0, <1>6 DEF Trailing
  <2>2. Coming \notin hit' /\ Trailing => Trailing'
    BY <1>0, <1>6 DEF Trailing
  <2> QED
    BY <1>0, <1>3, <1>6, <2>1, <2>2 DEF Accounts, Consumed
<1>11. Missed' \subseteq Missed
  <2>1. Kept \subseteq Kept'
    BY <1>0, <1>3 DEF Kept
  <2> QED
    BY <1>6, <2>1 DEF Missed
<1>12. Owed' => Owed
  <2>1. CASE matched = 4 /\ Len(serial) < BodySize
    BY <1>0, <1>3, <2>1 DEF Owed
  <2>2. CASE ~(matched = 4 /\ Len(serial) < BodySize)
    BY <1>0, <1>6, <2>2 DEF Owed
  <2> QED
    BY <2>1, <2>2
<1>13. Holes' = {p \in 1 .. End + 1 : p \notin Held /\ p - 1 \in Held \cup Before}
  BY <1>1, <1>3 DEF Holes
<1>14. Holes' \subseteq Holes \cup {End + 1}
  <2> SUFFICES ASSUME NEW p \in Holes', p # End + 1 PROVE p \in Holes
    OBVIOUS
  <2>1. p \in 1 .. End + 1 /\ p \notin Held /\ p - 1 \in Held \cup Before
    BY <1>13
  <2>2. p \in 1 .. End
    BY <1>1, <2>1
  <2> QED
    BY <2>1, <2>2 DEF Holes
<1>15. gap => Holes' \subseteq Holes
  <2> SUFFICES ASSUME gap PROVE End + 1 \notin Holes'
    BY <1>14
  <2>1. End \notin Held \cup Before
    BY DEF Accounts, GapAtEnd
  <2>2. (End + 1) - 1 = End
    BY <1>1
  <2> QED
    BY <1>13, <2>1, <2>2
<1>16. /\ Cardinality(Holes') \in Nat /\ Cardinality(Holes) \in Nat
       /\ Cardinality(Holes') <= Cardinality(Holes) + 1
       /\ gap => Cardinality(Holes') <= Cardinality(Holes)
  <2> HIDE DEF Holes
  <2> QED
    BY <1>2, <1>14, <1>15, CountOneMore, CountAtMost
<1>17. Cardinality(Missed') \in Nat /\ Cardinality(Missed') <= Cardinality(Missed)
  BY <1>2, <1>11, CountAtMost
<1>18. Cardinality(Holes') + gaps <= Cardinality(Holes) + gaps' /\ gaps' \in Nat
  <2>1. CASE gap
    BY <1>0, <1>2, <1>16, <2>1
  <2>2. CASE ~gap
    BY <1>0, <1>2, <1>16, <2>2
  <2> QED
    BY <2>1, <2>2
<1>19. Paid'
  <2> DEFINE d == Debt  e == Debt'
  <2>1. d \in 0 .. 2 /\ e \in 0 .. 2 /\ e <= d
    BY <1>10, <1>12 DEF Debt
  <2>2. misled' = misled /\ misled \in Nat
    BY <1>0 DEF InOrderOfSending, RetransmitterTypes
  <2> HIDE DEF d, e
  <2>3. Cardinality(Missed') + e + Cardinality(Holes') + gaps + misled
          <= Cardinality(Missed) + d + Cardinality(Holes) + gaps' + misled'
    <3>1. Cardinality(Missed') + e <= Cardinality(Missed) + d
      BY <1>2, <1>17, <2>1
    <3> DEFINE m == Cardinality(Missed)  n == Cardinality(Missed')
               h == Cardinality(Holes)  k == Cardinality(Holes')
               g == gaps  l == gaps'  w == misled
    <3>2. /\ m \in Nat /\ n \in Nat /\ h \in Nat /\ k \in Nat
      BY <1>2, <1>16, <1>17
    <3>3. g \in Nat /\ l \in Nat /\ w \in Nat
      BY <1>0, <1>2, <1>18, <2>2
    <3>4. n + e <= m + d /\ k + g <= h + l
      BY <1>18, <3>1
    <3> HIDE DEF m, n, h, k, g, l, w
    <3>5. n + e + k + g + w <= m + d + h + l + w
      BY <2>1, <3>2, <3>3, <3>4
    <3> QED
      BY <2>2, <3>5 DEF m, n, h, k, g, l, w
  <2> QED
    BY <1>2, <1>16, <1>17, <2>3, StillPaid DEF Accounts, d, e
<1> QED
  BY <1>7, <1>9, <1>10, <1>19 DEF Accounts

\* Before the first byte there is nothing to account for.
LEMMA InitAccounts == ASSUME RetransmitterInit PROVE Accounts
<1>1. /\ frame = 1 /\ at = 0 /\ fifo = <<>> /\ matched = 0 /\ serial = <<>>
      /\ delivered = {} /\ misled = 0 /\ gaps = 0 /\ gap = FALSE /\ hit = {}
  BY DEF RetransmitterInit
<1>2. FrameSize \in Nat /\ FrameSize # 0
  BY Sizes
<1>3. End = 0
  BY <1>1, <1>2 DEF End, PositionOf
<1>4. Held = {} /\ Before = {} /\ Low = 0 /\ ~InStep
  BY <1>1, <1>3 DEF Held, Before, Low, InStep
<1>5. Past = 0 /\ NextAt = 1
  BY <1>1, <1>2 DEF Past, NextAt
<1>6. LostIsHit
  <2> SUFFICES ASSUME NEW f \in Nat \ {0}, NEW a \in 1 .. FrameSize,
                      0 < PositionOf(f, a), PositionOf(f, a) <= 0
               PROVE  FALSE
    BY <1>3, <1>4 DEF LostIsHit
  <2>1. PositionOf(f, a) \in Nat
    BY Places
  <2> QED
    BY <2>1
<1>7. GapAtEnd /\ Consumed
  BY <1>1 DEF GapAtEnd, Consumed
<1>8. Missed = {} /\ Holes = {} /\ ~Owed
  <2>1. ~Owed
    BY <1>1, <1>5 DEF Owed
  <2> QED
    BY <1>3, <1>4, <1>5, <2>1 DEF Missed, Holes
<1>9. Paid
  <2>1. Debt = 0 /\ Cardinality(Missed) = 0 /\ Cardinality(Holes) = 0
    BY <1>8, FS_EmptySet DEF Debt
  <2> QED
    BY <1>1, <2>1 DEF Paid
<1> QED
  BY <1>6, <1>7, <1>9 DEF Accounts

\* No step spends more than the losses paid for.
LEMMA AccountsAreKept ==
  ASSUME InOrderOfSending, Accounts,
         [RetransmitterNext]_retransmitter_vars
  PROVE  Accounts'
<1>1. CASE NextFrame
  BY <1>1, NextFrameAccounts
<1>2. CASE Arrive
  BY <1>2, ArriveStream, StoredAccounts, LostAccounts
<1>3. CASE WaitForMsg
  BY <1>3, WaitAccounts
<1>4. CASE ReadBody
  BY <1>4, BodyAccounts
<1>5. CASE Publish
  BY <1>5, PublishAccounts
<1>6. CASE UNCHANGED retransmitter_vars
  <2>1. UNCHANGED <<sending, frame, at, fifo, matched, serial, start, delivered, misled, gaps, gap, hit>>
    BY <1>6 DEF retransmitter_vars, host, bodies, losses
  <2>2. /\ LastRead' = LastRead /\ End' = End /\ Held' = Held /\ Past' = Past
        /\ NextAt' = NextAt /\ Coming' = Coming
    BY <2>1 DEF LastRead, End, Held, Past, NextAt, Coming, Position, PositionOf
  <2>3. /\ Before' = Before /\ Low' = Low /\ InStep' = InStep /\ Found' = Found
    BY <2>1, <2>2 DEF Before, Low, InStep, Found, Position
  <2>4. Trailing' = Trailing
    BY <2>1, <2>2 DEF Trailing
  <2>5. Kept' = Kept /\ Missed' = Missed /\ Holes' = Holes /\ Owed' = Owed /\ Debt' = Debt
    BY <2>1, <2>2, <2>3, <2>4 DEF Kept, Missed, Holes, Owed, Debt
  <2> QED
    BY <2>1, <2>2, <2>3, <2>4, <2>5
       DEF Accounts, LostIsHit, GapAtEnd, Consumed, Paid, PositionOf
<1> QED
  BY <1>1, <1>2, <1>3, <1>4, <1>5, <1>6 DEF RetransmitterNext

\* A start whose frame has passed before its body is read lost a byte of it.
LEMMA CutShort ==
  ASSUME InOrderOfSending, Accounts, InStep, Len(serial) < BodySize,
         start.frame \in 1 .. Past
  PROVE  start.frame \in hit
<1> DEFINE n == Len(serial)  s == start.frame
<1>1. matched = 4 /\ Position(LastRead) = Position(start) + n
  BY DEF InStep
<1>2. /\ start \in Byte /\ start.at = 4
      /\ s \in Nat \ {0} /\ Position(start) = PositionOf(s, 4)
      /\ Position(start) \in Nat
  BY <1>1, StartIsByte, BytePosition DEF InStep
<1>3. n \in Nat
  BY DEF InOrderOfSending, RetransmitterTypes
<1>4. FrameSize = BodySize + 4 /\ BodySize \in Nat /\ FrameSize \in Nat
  BY Sizes
<1>5. 4 + n + 1 \in 1 .. FrameSize
  BY <1>3, <1>4
<1>6. PositionOf(s, 4 + n + 1) = Position(LastRead) + 1
  <2>1. (s - 1) * FrameSize \in Int
    BY <1>2, <1>4
  <2> QED
    BY <1>1, <1>2, <1>3, <2>1 DEF PositionOf
<1>7. NextIsNext
  BY NextByte
<1>8. s < Coming
  <2>1. Past \in Nat
    BY <1>7 DEF NextIsNext
  <2> QED
    BY <1>2, <2>1 DEF Coming
<1>9. PositionOf(s, 4 + n + 1) < PositionOf(Coming, NextAt)
  BY <1>2, <1>5, <1>7, <1>8, Places DEF NextIsNext
<1>10. End \in Int /\ Held \subseteq Nat \ {0} /\ PositionOf(s, 4 + n + 1) \in Nat
       /\ PositionOf(Coming, NextAt) \in Nat
  <2>1. End \in Int /\ Held \subseteq Nat \ {0}
    BY Counted
  <2>2. PositionOf(s, 4 + n + 1) \in Nat
    BY <1>2, <1>5, Places
  <2>3. PositionOf(Coming, NextAt) \in Nat
    BY <1>7, Places DEF NextIsNext
  <2> QED
    BY <2>1, <2>2, <2>3
<1>11. /\ \A p \in Held : PositionOf(Coming, NextAt) <= p
       /\ PositionOf(Coming, NextAt) <= End + 1
  <2>1. CASE fifo = <<>>
    BY <1>7, <1>10, <2>1 DEF NextIsNext, Held
  <2>2. CASE fifo # <<>>
    <3>1. /\ Head(fifo) = fifo[1] /\ DOMAIN fifo = 1 .. Len(fifo) /\ 1 \in DOMAIN fifo
          /\ Len(fifo) \in Nat
      BY <2>2, Queue DEF InOrderOfSending, RetransmitterTypes
    <3>2. PositionOf(Coming, NextAt) = Position(fifo[1])
      BY <1>7, <2>2, <3>1 DEF NextIsNext
    <3>3. \A k \in DOMAIN fifo : Position(fifo[1]) <= Position(fifo[k])
      <4> TAKE k \in DOMAIN fifo
      <4>1. Position(fifo[1]) \in Nat /\ Position(fifo[k]) \in Nat
        BY <3>1, BytePosition DEF InOrderOfSending, RetransmitterTypes
      <4>2. k = 1 \/ 1 < k
        BY <3>1
      <4>3. 1 < k => Position(fifo[1]) < Position(fifo[k])
        BY <3>1 DEF InOrderOfSending, Stream
      <4> QED
        BY <4>1, <4>2, <4>3
    <3>4. Position(fifo[1]) <= End
      BY <3>1 DEF InOrderOfSending, Stream
    <3> QED
      BY <1>10, <3>2, <3>3, <3>4 DEF Held
  <2> QED
    BY <2>1, <2>2
<1> DEFINE p == PositionOf(s, 4 + n + 1)
<1>12. p <= End /\ p \notin Held
  BY <1>9, <1>10, <1>11
<1>13. Low < p
  <2>1. Low = Position(LastRead)
    BY <1>1 DEF Low
  <2> QED
    BY <1>1, <1>2, <1>3, <1>6, <2>1
<1> QED
  BY <1>2, <1>5, <1>12, <1>13 DEF Accounts, LostIsHit

\* Whatever the numbers are: a run of bytes lost in the UART's FIFO, however long, costs
\* the frames it hits and at most one more, and one more for each start that was none.
THEOREM OneFramePerGap == RetransmitterSpec => []OneMorePerGap
<1>1. RetransmitterInit => InOrderOfSending /\ Accounts
  BY InitStream, InitAccounts
<1>2. InOrderOfSending /\ Accounts /\ [RetransmitterNext]_retransmitter_vars
        => InOrderOfSending' /\ Accounts'
  BY StreamIsKept, AccountsAreKept
<1>3. InOrderOfSending /\ Accounts => OneMorePerGap
  <2> SUFFICES ASSUME InOrderOfSending, Accounts, Len(serial) < BodySize
               PROVE  Cardinality((1 .. Past) \ (delivered \cup hit)) <= gaps + misled
    BY DEF OneMorePerGap
  <2>1. (1 .. Past) \ (delivered \cup hit) \subseteq Missed
    BY CutShort DEF Missed, Kept
  <2>2. /\ IsFiniteSet(Missed) /\ Cardinality(Missed) \in Nat /\ Cardinality(Holes) \in Nat
        /\ gaps \in Nat /\ misled \in Nat
    BY Counted DEF InOrderOfSending, RetransmitterTypes
  <2> DEFINE d == Debt
  <2>3. d \in 0 .. 2
    BY DEF Debt
  <2>4. Cardinality(Missed) + d + Cardinality(Holes) <= gaps + misled
    BY DEF Accounts, Paid
  <2> HIDE DEF d
  <2>5. Cardinality(Missed) <= gaps + misled
    BY <2>2, <2>3, <2>4
  <2>6. Cardinality((1 .. Past) \ (delivered \cup hit)) <= Cardinality(Missed)
        /\ Cardinality((1 .. Past) \ (delivered \cup hit)) \in Nat
    BY <2>1, <2>2, CountAtMost
  <2> QED
    BY <2>2, <2>5, <2>6
<1> QED
  BY <1>1, <1>2, <1>3, PTL DEF RetransmitterSpec

----------------------------------------------------------------------------
(***************************************************************************)
(* The wheels, for every clock up to MaxClock and any set of commands.     *)
(*                                                                         *)
(* The calls of the set-up come in an order in which each finds what it    *)
(* relies on: the divider before the periods, a period before the duties   *)
(* of its pins, a duty before its pin is enabled.  A period that is set    *)
(* again is the same one, and afterwards only duties change.               *)
(***************************************************************************)

\* Half of the period's counts, once the divider is 64.
HalfPeriod == (((Clock \div 64) * period) \div 1000) \div 2

Duties == {duty \in [num : Int, den : {1, 3, 100}] : InRange(duty)}

\* The calls that set a pin's first duty and that enable it.
DutyCall == [pin \in 0 .. 3 |-> IF pin = 0 THEN 14 ELSE IF pin = 1 THEN 15
                                ELSE IF pin = 2 THEN 4 ELSE 9]
EnableCall == [pin \in 0 .. 3 |-> IF pin = 0 THEN 16 ELSE IF pin = 1 THEN 17
                                  ELSE IF pin = 2 THEN 5 ELSE 10]

\* The registers as far as the set-up has come.
Registers ==
  /\ next_call \in 1 .. 18
  /\ prescale = IF next_call > 2 THEN 64 ELSE 1
  /\ load \in [0 .. 1 -> Nat]
  /\ load[1] = IF next_call > 3 THEN HalfPeriod ELSE 0
  /\ load[0] = IF next_call > 13 THEN HalfPeriod ELSE 0
  /\ width \in [0 .. 3 -> Nat] /\ asked \in [0 .. 3 -> Duties \cup {NONE}]
  /\ invert \in [0 .. 3 -> BOOLEAN] /\ output \in [0 .. 3 -> BOOLEAN]
  /\ \A pin \in 0 .. 3 : asked[pin] = NONE <=> next_call <= DutyCall[pin]
  /\ \A pin \in 0 .. 3 : output[pin] => next_call > EnableCall[pin]

\* The pulse of a pin is that of the duty it was given.
Pulse(pin) ==
  LET exact == Period(pin) * asked[pin].num
      unit  == 100 * asked[pin].den
  IN  /\ width[pin] <= load[pin \div 2]
      /\ unit * High(pin) <= exact /\ exact < unit * (High(pin) + 2)

Pulses ==
  \A pin \in 0 .. 3 :
    /\ asked[pin] = NONE => width[pin] = 0
    /\ asked[pin] # NONE => Pulse(pin)

AsSetUp == Registers /\ Pulses

\* The four pins and their two pairs.
LEMMA Pins == /\ Pin = 0 .. 3 /\ Pair = {0, 1} /\ Drive = {0, 1} /\ Rotate = {2, 3}
              /\ \A pin \in 0 .. 3 : pin \div 2 \in {0, 1}
              /\ NONE \notin Duties
<1>1. Pin = 0 .. 3
  BY LocomotionAssumption DEF Drive, Rotate
<1>2. \A pin \in 0 .. 3 : pin \div 2 \in {0, 1}
  OBVIOUS
<1>3. Pair = {0, 1}
  <2>1. 0 \div 2 = 0 /\ 2 \div 2 = 1
    OBVIOUS
  <2>2. Pair \subseteq {0, 1}
    BY <1>1, <1>2 DEF Pair
  <2>3. {0, 1} \subseteq Pair
    BY <1>1, <2>1 DEF Pair
  <2> QED
    BY <2>2, <2>3
<1> QED
  BY <1>1, <1>2, <1>3, PwmAssumption DEF Drive, Rotate, Duties

\* The counts of the period fit the counter.
LEMMA Fits ==
  /\ HalfPeriod \in Nat /\ MaxLoad \in Nat /\ HalfPeriod <= MaxLoad
  /\ ((Clock \div 64) * period) \div 1000 < 65536
<1>1. Clock \in 0 .. MaxClock
  BY PwmAssumption
<1> DEFINE c == Clock \div 64  counts == (c * period) \div 1000
<1>2. c \in Nat /\ c <= 1250 * 1000
  <2> HIDE DEF c
  <2>3. Clock \in Nat /\ Clock <= MaxClock
    <3>1. MaxClock \in Int
      BY DEF MaxClock
    <3> QED
      BY <1>1, <3>1
  <2>1. Clock \in Nat /\ Clock <= 80 * 1000 * 1000
    BY <2>3 DEF MaxClock
  <2>2. c \in Nat /\ 64 * c <= Clock
    BY <2>1 DEF c
  <2> QED
    BY <2>1, <2>2
<1>3. counts \in Nat /\ counts <= 12500
  <2> DEFINE d == c * 10
  <2> HIDE DEF c
  <2>1. d \in Nat /\ d <= 12500 * 1000
    BY <1>2
  <2>2. counts = d \div 1000
    BY DEF period
  <2> HIDE DEF d
  <2> QED
    BY <2>1, <2>2
<1>4. HalfPeriod = counts \div 2
  BY DEF HalfPeriod
<1> HIDE DEF counts
<1>5. HalfPeriod \in Nat /\ HalfPeriod <= 6250
  BY <1>3, <1>4
<1>6. 6250 <= MaxLoad /\ MaxLoad \in Nat
  BY DEF MaxLoad
<1>7. counts < 65536
  BY <1>3
<1> QED
  BY <1>5, <1>6, <1>7 DEF counts, c

\* Lists of calls.
LEMMA FiveCalls ==
  ASSUME NEW S, NEW a \in S, NEW b \in S, NEW c \in S, NEW d \in S, NEW e \in S
  PROVE  LET s == <<a, b, c, d, e>>
         IN  /\ s \in Seq(S) /\ Len(s) = 5
             /\ s[1] = a /\ s[2] = b /\ s[3] = c /\ s[4] = d /\ s[5] = e
OBVIOUS

\* Seven calls.
LEMMA SevenCalls ==
  ASSUME NEW S, NEW a \in S, NEW b \in S, NEW c \in S, NEW d \in S, NEW e \in S,
         NEW f \in S, NEW g \in S
  PROVE  LET s == <<a, b, c, d, e, f, g>>
         IN  /\ s \in Seq(S) /\ Len(s) = 7
             /\ s[1] = a /\ s[2] = b /\ s[3] = c /\ s[4] = d
             /\ s[5] = e /\ s[6] = f /\ s[7] = g
OBVIOUS

\* The set-up, call by call.
LEMMA SetUpCalls ==
  /\ Len(SetUp) = 17
  /\ \A k \in 1 .. 17 :
       \/ SetUp[k].call = "init" /\ SetUp[k].of \in 0 .. 3 /\ k \in {1, 6, 11, 12}
       \/ SetUp[k].call = "prescaler" /\ SetUp[k].of = 64 /\ k \in {2, 7}
       \/ SetUp[k].call = "period" /\ SetUp[k].of = 1 /\ k \in {3, 8}
       \/ SetUp[k].call = "period" /\ SetUp[k].of = 0 /\ k = 13
       \/ SetUp[k].call = "duty" /\ SetUp[k].of \in 0 .. 3 /\ k = DutyCall[SetUp[k].of]
       \/ SetUp[k].call = "enable" /\ SetUp[k].of \in 0 .. 3 /\ k = EnableCall[SetUp[k].of]
<1> DEFINE S == [call : {"init", "prescaler", "period", "duty", "enable"}, of : Int]
           a == servo_init(2)  b == servo_init(3)  c == drive_init
<1> HIDE DEF S
<1>14. 2 \div 2 = 1 /\ 3 \div 2 = 1
  OBVIOUS
<1>1. /\ a \in Seq(S) /\ Len(a) = 5
      /\ a[1] = [call |-> "init", of |-> 2]
      /\ a[2] = [call |-> "prescaler", of |-> 64]
      /\ a[3] = [call |-> "period", of |-> 1]
      /\ a[4] = [call |-> "duty", of |-> 2]
      /\ a[5] = [call |-> "enable", of |-> 2]
  <2> DEFINE i == [call |-> "init", of |-> 2]
             j == [call |-> "prescaler", of |-> 64]
             k == [call |-> "period", of |-> 1]
             l == [call |-> "duty", of |-> 2]
             m == [call |-> "enable", of |-> 2]
  <2>1. a = <<i, j, k, l, m>>
    BY <1>14 DEF servo_init
  <2>2. i \in S /\ j \in S /\ k \in S /\ l \in S /\ m \in S
    BY DEF S
  <2> HIDE DEF a, i, j, k, l, m
  <2>3. /\ a \in Seq(S) /\ Len(a) = 5
        /\ a[1] = i /\ a[2] = j /\ a[3] = k /\ a[4] = l /\ a[5] = m
    BY <2>1, <2>2, FiveCalls
  <2> QED
    BY <2>3 DEF i, j, k, l, m
<1>2. /\ b \in Seq(S) /\ Len(b) = 5
      /\ b[1] = [call |-> "init", of |-> 3]
      /\ b[2] = [call |-> "prescaler", of |-> 64]
      /\ b[3] = [call |-> "period", of |-> 1]
      /\ b[4] = [call |-> "duty", of |-> 3]
      /\ b[5] = [call |-> "enable", of |-> 3]
  <2> DEFINE i == [call |-> "init", of |-> 3]
             j == [call |-> "prescaler", of |-> 64]
             k == [call |-> "period", of |-> 1]
             l == [call |-> "duty", of |-> 3]
             m == [call |-> "enable", of |-> 3]
  <2>1. b = <<i, j, k, l, m>>
    BY <1>14 DEF servo_init
  <2>2. i \in S /\ j \in S /\ k \in S /\ l \in S /\ m \in S
    BY DEF S
  <2> HIDE DEF b, i, j, k, l, m
  <2>3. /\ b \in Seq(S) /\ Len(b) = 5
        /\ b[1] = i /\ b[2] = j /\ b[3] = k /\ b[4] = l /\ b[5] = m
    BY <2>1, <2>2, FiveCalls
  <2> QED
    BY <2>3 DEF i, j, k, l, m
<1>3. /\ c \in Seq(S) /\ Len(c) = 7
      /\ c[1] = [call |-> "init", of |-> 0]
      /\ c[2] = [call |-> "init", of |-> 1]
      /\ c[3] = [call |-> "period", of |-> 0]
      /\ c[4] = [call |-> "duty", of |-> 0]
      /\ c[5] = [call |-> "duty", of |-> 1]
      /\ c[6] = [call |-> "enable", of |-> 0]
      /\ c[7] = [call |-> "enable", of |-> 1]
  <2> DEFINE i == [call |-> "init", of |-> 0]
             j == [call |-> "init", of |-> 1]
             k == [call |-> "period", of |-> 0]
             l == [call |-> "duty", of |-> 0]
             m == [call |-> "duty", of |-> 1]
             n == [call |-> "enable", of |-> 0]
             o == [call |-> "enable", of |-> 1]
  <2>1. c = <<i, j, k, l, m, n, o>>
    BY <1>14 DEF drive_init
  <2>2. i \in S /\ j \in S /\ k \in S /\ l \in S /\ m \in S /\ n \in S /\ o \in S
    BY DEF S
  <2> HIDE DEF c, i, j, k, l, m, n, o
  <2>3. /\ c \in Seq(S) /\ Len(c) = 7
        /\ c[1] = i /\ c[2] = j /\ c[3] = k /\ c[4] = l /\ c[5] = m /\ c[6] = n /\ c[7] = o
    BY <2>1, <2>2, SevenCalls
  <2> QED
    BY <2>3 DEF i, j, k, l, m, n, o
<1> HIDE DEF a, b, c
<1>9. a \in Seq(S) /\ b \in Seq(S) /\ c \in Seq(S)
  BY <1>1, <1>2, <1>3
<1> DEFINE front == a \o b
<1>4. /\ front \in Seq(S) /\ Len(front) = 10
      /\ \A k \in 1 .. 5 : front[k] = a[k]
      /\ \A k \in 6 .. 10 : front[k] = b[k - 5]
  <2>1. /\ front \in Seq(S) /\ Len(front) = Len(a) + Len(b)
        /\ \A k \in 1 .. Len(a) : front[k] = a[k]
        /\ \A k \in Len(a) + 1 .. Len(a) + Len(b) : front[k] = b[k - Len(a)]
    BY <1>9, Concatenation
  <2>2. Len(a) = 5 /\ Len(b) = 5
    BY <1>1, <1>2
  <2> HIDE DEF front
  <2> QED
    BY <2>1, <2>2
<1> HIDE DEF front
<1>15. front \in Seq(S)
  BY <1>4
<1>5. SetUp = front \o c
  BY DEF SetUp, front, a, b, c
<1>6. /\ Len(SetUp) = 17
      /\ \A k \in 1 .. 10 : SetUp[k] = front[k]
      /\ \A k \in 11 .. 17 : SetUp[k] = c[k - 10]
  <2>1. /\ Len(front \o c) = Len(front) + Len(c)
        /\ \A k \in 1 .. Len(front) : (front \o c)[k] = front[k]
        /\ \A k \in Len(front) + 1 .. Len(front) + Len(c) : (front \o c)[k] = c[k - Len(front)]
    BY <1>9, <1>15, Concatenation
  <2>2. /\ Len(SetUp) = Len(front) + Len(c)
        /\ \A k \in 1 .. Len(front) : SetUp[k] = front[k]
        /\ \A k \in Len(front) + 1 .. Len(front) + Len(c) : SetUp[k] = c[k - Len(front)]
    BY <1>5, <2>1
  <2>3. Len(front) = 10 /\ Len(c) = 7
    BY <1>3, <1>4
  <2> QED
    BY <2>2, <2>3
<1>7. /\ Len(SetUp) = 17
      /\ \A k \in 1 .. 5 : SetUp[k] = a[k]
      /\ \A k \in 6 .. 10 : SetUp[k] = b[k - 5]
      /\ \A k \in 11 .. 17 : SetUp[k] = c[k - 10]
  BY <1>4, <1>6
<1>8. /\ DutyCall[0] = 14 /\ DutyCall[1] = 15 /\ DutyCall[2] = 4 /\ DutyCall[3] = 9
      /\ EnableCall[0] = 16 /\ EnableCall[1] = 17 /\ EnableCall[2] = 5 /\ EnableCall[3] = 10
  BY DEF DutyCall, EnableCall
<1>13. SUFFICES ASSUME NEW k \in 1 .. 17
               PROVE  \/ SetUp[k].call = "init" /\ SetUp[k].of \in 0 .. 3 /\ k \in {1, 6, 11, 12}
                      \/ SetUp[k].call = "prescaler" /\ SetUp[k].of = 64 /\ k \in {2, 7}
                      \/ SetUp[k].call = "period" /\ SetUp[k].of = 1 /\ k \in {3, 8}
                      \/ SetUp[k].call = "period" /\ SetUp[k].of = 0 /\ k = 13
                      \/ SetUp[k].call = "duty" /\ SetUp[k].of \in 0 .. 3 /\ k = DutyCall[SetUp[k].of]
                      \/ SetUp[k].call = "enable" /\ SetUp[k].of \in 0 .. 3 /\ k = EnableCall[SetUp[k].of]
  BY <1>7
<1>10. CASE k \in 1 .. 5
  BY <1>1, <1>7, <1>8, <1>10
<1>11. CASE k \in 6 .. 10
  BY <1>2, <1>7, <1>8, <1>11
<1>12. CASE k \in 11 .. 17
  BY <1>3, <1>7, <1>8, <1>12
<1> QED
  BY <1>10, <1>11, <1>12

\* A product grows with its factor.
LEMMA Product ==
  ASSUME NEW a \in Nat, NEW b \in Int, NEW c \in Int, b <= c
  PROVE  a * b \in Int /\ a * b <= a * c
OBVIOUS

\* A pulse is set to the duty that is asked for, rounded down to an even count.
LEMMA PulseIsSet ==
  ASSUME Registers, NEW pin \in 0 .. 3, NEW duty \in Duties, pwm_set_duty(pin, duty)
  PROVE  /\ width' \in [0 .. 3 -> Nat] /\ asked' = [asked EXCEPT ![pin] = duty]
         /\ invert' \in [0 .. 3 -> BOOLEAN]
         /\ Pulse(pin)'
         /\ \A other \in 0 .. 3 \ {pin} :
              width'[other] = width[other] /\ invert'[other] = invert[other]
<1> DEFINE period_counts == 2 * load[pin \div 2]
           unit == 100 * duty.den
           exact == period_counts * duty.num
           duty_period == exact \div unit
           full == duty_period >= period_counts
<1>1. /\ width' = [width EXCEPT ![pin] = IF full THEN 0 ELSE duty_period \div 2]
      /\ invert' = [invert EXCEPT ![pin] = full]
      /\ asked' = [asked EXCEPT ![pin] = duty] /\ load' = load
  BY DEF pwm_set_duty, Duties, Inverted
<1>2. /\ load \in [0 .. 1 -> Nat] /\ width \in [0 .. 3 -> Nat]
      /\ asked \in [0 .. 3 -> Duties \cup {NONE}] /\ invert \in [0 .. 3 -> BOOLEAN]
  BY DEF Registers
<1>3. pin \div 2 \in 0 .. 1
  BY Pins
<1>4. /\ duty.num \in Nat /\ unit \in {100, 300, 10000} /\ duty.num <= unit
  BY DEF Duties, InRange
<1>5. period_counts \in Nat /\ load[pin \div 2] \in Nat
  BY <1>2, <1>3
<1>6. exact \in Nat /\ exact <= period_counts * unit
  <2>1. period_counts * 0 <= exact
    <3> HIDE DEF period_counts
    <3> QED
      BY <1>4, <1>5, Product
  <2>2. period_counts * duty.num <= period_counts * unit /\ exact \in Int
    <3> HIDE DEF period_counts, unit
    <3>1. unit \in Int
      BY <1>4
    <3> QED
      BY <1>4, <1>5, <3>1, Product
  <2>3. period_counts * 0 = 0
    BY <1>5
  <2> QED
    BY <2>1, <2>2, <2>3
<1> HIDE DEF exact, unit
<1>7. duty_period \in Nat /\ unit * duty_period <= exact /\ exact < unit * (duty_period + 1)
  BY <1>4, <1>6
<1> DEFINE w == IF full THEN 0 ELSE duty_period \div 2
           high == IF full THEN period_counts - 2 * w ELSE 2 * w
<1> HIDE DEF period_counts
<1>8. w \in Nat /\ 2 * w <= period_counts /\ unit * high <= exact /\ exact < unit * (high + 2)
  <2> HIDE DEF duty_period
  <2>1. CASE full
    <3>1. unit * period_counts <= unit * duty_period
      BY <1>4, <1>5, <1>7, <2>1
    <3>2. unit * period_counts = period_counts * unit
      BY <1>4, <1>5
    <3>3. w = 0 /\ high = period_counts
      BY <1>5, <2>1
    <3>4. unit * period_counts <= exact /\ exact <= unit * period_counts
      BY <1>4, <1>5, <1>6, <1>7, <3>1, <3>2
    <3>5. unit * period_counts < unit * (period_counts + 2)
      BY <1>4, <1>5
    <3> HIDE DEF w, high, full
    <3> QED
      BY <1>4, <1>5, <1>6, <3>3, <3>4, <3>5
  <2>2. CASE ~full
    <3>1. w = duty_period \div 2 /\ high = 2 * w /\ duty_period < period_counts
      BY <1>5, <1>7, <2>2
    <3>2. w \in Nat /\ 2 * w <= duty_period /\ duty_period + 1 <= 2 * w + 2
      BY <1>7, <3>1
    <3> HIDE DEF w, high, full
    <3> QED
      BY <1>4, <1>5, <1>6, <1>7, <3>1, <3>2
  <2> QED
    BY <2>1, <2>2
<1>9. /\ width'[pin] = w /\ invert'[pin] = full /\ asked'[pin] = duty
      /\ width' \in [0 .. 3 -> Nat] /\ invert' \in [0 .. 3 -> BOOLEAN]
      /\ \A other \in 0 .. 3 \ {pin} :
           width'[other] = width[other] /\ invert'[other] = invert[other]
  <2>1. w \in Nat
    BY <1>8
  <2>2. full \in BOOLEAN
    OBVIOUS
  <2>3. width' = [width EXCEPT ![pin] = w]
    BY <1>1 DEF period_counts, unit, exact
  <2>4. invert' = [invert EXCEPT ![pin] = full]
    BY <1>1 DEF period_counts, unit, exact
  <2> HIDE DEF w, full
  <2> QED
    BY <1>1, <1>2, <2>1, <2>2, <2>3, <2>4
<1>10. Period(pin)' = period_counts /\ High(pin)' = high /\ load'[pin \div 2] = load[pin \div 2]
  <2>1. Period(pin)' = period_counts /\ load'[pin \div 2] = load[pin \div 2]
    BY <1>1 DEF Period, period_counts
  <2> HIDE DEF full, w
  <2>2. High(pin)' = IF full THEN period_counts - 2 * w ELSE 2 * w
    BY <1>9, <2>1 DEF High
  <2> QED
    BY <2>1, <2>2
<1>11. Pulse(pin)'
  <2> HIDE DEF w, high, full
  <2>1. w <= load[pin \div 2]
    BY <1>5, <1>8 DEF period_counts
  <2>2. asked'[pin].num = duty.num /\ asked'[pin].den = duty.den
    BY <1>9
  <2>3. Period(pin)' * asked'[pin].num = exact /\ 100 * asked'[pin].den = unit
    BY <1>10, <2>2 DEF exact, unit
  <2> QED
    BY <1>8, <1>9, <1>10, <2>1, <2>3 DEF Pulse
<1> QED
  BY <1>1, <1>9, <1>11

\* The calls of the set-up are made in order, so what a call relies on is done.
LEMMA CallsComeInOrder ==
  /\ \A pin \in 0 .. 3 : DutyCall[pin] \in 4 .. 15 /\ EnableCall[pin] \in 5 .. 17
                         /\ DutyCall[pin] < EnableCall[pin]
  /\ \A pin \in 0 .. 3 : pin \div 2 = 0 => DutyCall[pin] > 13
  /\ \A pin \in 0 .. 3 : pin \div 2 = 1 => DutyCall[pin] > 3
  /\ \A p \in 0 .. 3 : DutyCall[p] \in {14, 15, 4, 9} /\ EnableCall[p] \in {16, 17, 5, 10}
  /\ \A p, q \in 0 .. 3 : DutyCall[p] = DutyCall[q] => p = q
<1>1. \A pin \in 0 .. 3 : pin \in {0, 1, 2, 3}
  OBVIOUS
<1>2. 0 \div 2 = 0 /\ 1 \div 2 = 0 /\ 2 \div 2 = 1 /\ 3 \div 2 = 1
  OBVIOUS
<1>3. /\ DutyCall[0] = 14 /\ DutyCall[1] = 15 /\ DutyCall[2] = 4 /\ DutyCall[3] = 9
      /\ EnableCall[0] = 16 /\ EnableCall[1] = 17 /\ EnableCall[2] = 5 /\ EnableCall[3] = 10
  BY DEF DutyCall, EnableCall
<1> QED
  BY <1>1, <1>2, <1>3

\* After the set-up every pin has had its first duty.
LEMMA DutyIsSetUp == \A pin \in 0 .. 3 : DutyCall[pin] \in Int /\ DutyCall[pin] < 18
BY DEF DutyCall

\* A call of the set-up.
LEMMA SetUpStepKeeps ==
  ASSUME AsSetUp, SetUpStep PROVE AsSetUp'
<1> DEFINE k == next_call  step == SetUp[k]
<1>1. k \in 1 .. 17 /\ next_call' = k + 1 /\ Call(step)
  BY SetUpCalls DEF SetUpStep, AsSetUp, Registers
<1>2. /\ prescale = IF k > 2 THEN 64 ELSE 1
      /\ load \in [0 .. 1 -> Nat]
      /\ load[1] = IF k > 3 THEN HalfPeriod ELSE 0
      /\ load[0] = IF k > 13 THEN HalfPeriod ELSE 0
      /\ width \in [0 .. 3 -> Nat] /\ asked \in [0 .. 3 -> Duties \cup {NONE}]
      /\ invert \in [0 .. 3 -> BOOLEAN] /\ output \in [0 .. 3 -> BOOLEAN]
      /\ \A pin \in 0 .. 3 : asked[pin] = NONE <=> k <= DutyCall[pin]
      /\ \A pin \in 0 .. 3 : output[pin] => k > EnableCall[pin]
  BY DEF AsSetUp, Registers
<1>3. \A pin \in 0 .. 3 :
        /\ asked[pin] = NONE => width[pin] = 0
        /\ asked[pin] # NONE => Pulse(pin)
  BY DEF AsSetUp, Pulses
<1>4. CASE step.call = "init" /\ step.of \in 0 .. 3 /\ k \in {1, 6, 11, 12}
  <2>1. output' = [output EXCEPT ![step.of] = FALSE]
        /\ UNCHANGED <<prescale, load, width, invert, asked>>
    BY <1>1, <1>4 DEF Call, pwm_init
  <2>2. Registers'
    BY <1>1, <1>2, <1>4, <2>1, CallsComeInOrder DEF Registers
  <2>3. Pulses'
    BY <1>3, <2>1 DEF Pulses, Pulse, Period, High
  <2> QED
    BY <2>2, <2>3 DEF AsSetUp
<1>5. CASE step.call = "prescaler" /\ step.of = 64 /\ k \in {2, 7}
  <2>1. prescale' = 64 /\ UNCHANGED <<load, width, invert, output, asked>>
    BY <1>1, <1>5 DEF Call, pwm_set_prescaler
  <2>2. Registers'
    BY <1>1, <1>2, <1>5, <2>1, CallsComeInOrder DEF Registers
  <2>3. Pulses'
    BY <1>3, <2>1 DEF Pulses, Pulse, Period, High
  <2> QED
    BY <2>2, <2>3 DEF AsSetUp
<1>6. CASE step.call = "period" /\ \/ step.of = 1 /\ k \in {3, 8}
                                   \/ step.of = 0 /\ k = 13
  <2> DEFINE pair == step.of
  <2>1. prescale = 64 /\ pair \in 0 .. 1
    BY <1>1, <1>2, <1>6
  <2>2. Counts(period) < 65536 /\ Counts(period) \div 2 = HalfPeriod
    BY <2>1, Fits DEF Counts, HalfPeriod
  <2>3. /\ load' = [load EXCEPT ![pair] = HalfPeriod]
        /\ UNCHANGED <<prescale, width, invert, output, asked>>
    BY <1>1, <1>6, <2>2 DEF Call, pwm_set_period
  <2>4. load' \in [0 .. 1 -> Nat] /\ \A other \in 0 .. 1 : load'[other] = IF other = pair THEN HalfPeriod ELSE load[other]
    BY <1>2, <2>1, <2>3, Fits
  <2>5. Registers'
    BY <1>1, <1>2, <1>6, <2>3, <2>4, CallsComeInOrder DEF Registers
  <2>6. \A pin \in 0 .. 3 : asked[pin] # NONE => load'[pin \div 2] = load[pin \div 2]
    <3> TAKE pin \in 0 .. 3
    <3> HAVE asked[pin] # NONE
    <3>1. k > DutyCall[pin]
      BY <1>1, <1>2, CallsComeInOrder
    <3>2. CASE pin \div 2 = pair
      BY <1>2, <1>6, <2>1, <2>4, <3>1, <3>2, CallsComeInOrder
    <3>3. CASE pin \div 2 # pair
      BY <2>4, <3>3, Pins
    <3> QED
      BY <3>2, <3>3
  <2>7. Pulses'
    <3> SUFFICES ASSUME NEW pin \in 0 .. 3
                 PROVE  /\ asked'[pin] = NONE => width'[pin] = 0
                        /\ asked'[pin] # NONE => Pulse(pin)'
      BY DEF Pulses
    <3>1. asked' = asked /\ width' = width /\ invert' = invert
      BY <2>3
    <3>2. CASE asked[pin] = NONE
      BY <1>3, <3>1, <3>2
    <3>3. CASE asked[pin] # NONE
      <4>1. load'[pin \div 2] = load[pin \div 2] /\ Pulse(pin)
        BY <1>3, <2>6, <3>3
      <4> QED
        BY <3>1, <3>3, <4>1 DEF Pulse, Period, High
    <3> QED
      BY <3>2, <3>3
  <2> QED
    BY <2>5, <2>7 DEF AsSetUp
<1>7. CASE step.call = "duty" /\ step.of \in 0 .. 3 /\ k = DutyCall[step.of]
  <2>9. PICK pin \in 0 .. 3 : pin = step.of /\ k = DutyCall[pin]
    BY <1>7
  <2>1. pwm_set_duty(pin, neutral)
    BY <1>1, <1>7, <2>9 DEF Call
  <2>2. neutral \in Duties
    BY DEF neutral, Duties, InRange
  <2>3. /\ width' \in [0 .. 3 -> Nat] /\ asked' = [asked EXCEPT ![pin] = neutral]
        /\ invert' \in [0 .. 3 -> BOOLEAN] /\ Pulse(pin)'
        /\ \A other \in 0 .. 3 \ {pin} :
             width'[other] = width[other] /\ invert'[other] = invert[other]
    BY <2>1, <2>2, PulseIsSet DEF AsSetUp
  <2>4. UNCHANGED <<prescale, load, output>>
    BY <2>1 DEF pwm_set_duty
  <2>5. /\ asked' \in [0 .. 3 -> Duties \cup {NONE}] /\ asked'[pin] # NONE
        /\ \A other \in 0 .. 3 \ {pin} : asked'[other] = asked[other]
    BY <1>2, <2>2, <2>3, Pins
  <2>6. \A p \in 0 .. 3 : asked'[p] = NONE <=> k + 1 <= DutyCall[p]
    <3> TAKE p \in 0 .. 3
    <3>1. CASE p = pin
      BY <1>1, <2>5, <2>9, <3>1, CallsComeInOrder
    <3>2. CASE p # pin
      <4>1. DutyCall[p] # k /\ DutyCall[p] \in Int
        BY <2>9, <3>2, CallsComeInOrder
      <4> QED
        BY <1>1, <1>2, <2>5, <3>2, <4>1
    <3> QED
      BY <3>1, <3>2
  <2>7. Registers'
    <3>1. k \in {14, 15, 4, 9}
      BY <2>9, CallsComeInOrder
    <3>2. \A p \in 0 .. 3 : output'[p] => k + 1 > EnableCall[p]
      BY <1>1, <1>2, <2>4, CallsComeInOrder
    <3> QED
      BY <1>1, <1>2, <2>3, <2>4, <2>5, <2>6, <3>1, <3>2 DEF Registers
  <2>8. Pulses'
    <3> SUFFICES ASSUME NEW p \in 0 .. 3
                 PROVE  /\ asked'[p] = NONE => width'[p] = 0
                        /\ asked'[p] # NONE => Pulse(p)'
      BY DEF Pulses
    <3>1. CASE p = pin
      BY <2>3, <2>5, <3>1
    <3>2. CASE p # pin
      <4>1. /\ asked'[p] = asked[p] /\ width'[p] = width[p] /\ invert'[p] = invert[p]
            /\ load' = load
        BY <2>3, <2>4, <2>5, <3>2
      <4> QED
        BY <1>3, <4>1 DEF Pulse, Period, High
    <3> QED
      BY <3>1, <3>2
  <2> QED
    BY <2>7, <2>8 DEF AsSetUp
<1>8. CASE step.call = "enable" /\ step.of \in 0 .. 3 /\ k = EnableCall[step.of]
  <2>1. output' = [output EXCEPT ![step.of] = TRUE]
        /\ UNCHANGED <<prescale, load, width, invert, asked>>
    BY <1>1, <1>8 DEF Call, pwm_enable
  <2>2. /\ output' \in [0 .. 3 -> BOOLEAN]
        /\ \A pin \in 0 .. 3 : output'[pin] => k + 1 > EnableCall[pin]
    BY <1>1, <1>2, <1>8, <2>1, CallsComeInOrder
  <2>3. k \in {16, 17, 5, 10}
    BY <1>8, CallsComeInOrder
  <2>4. \A pin \in 0 .. 3 : k # DutyCall[pin] /\ DutyCall[pin] \in Int
    BY <2>3, CallsComeInOrder
  <2>5. Registers'
    BY <1>1, <1>2, <2>1, <2>2, <2>3, <2>4 DEF Registers
  <2>6. Pulses'
    BY <1>3, <2>1 DEF Pulses, Pulse, Period, High
  <2> QED
    BY <2>5, <2>6 DEF AsSetUp
<1> HIDE DEF k, step
<1> QED
  BY <1>1, <1>4, <1>5, <1>6, <1>7, <1>8, SetUpCalls DEF step

\* A command, in range or not.
LEMMA CallbackKeeps ==
  ASSUME AsSetUp, NEW pin \in 0 .. 3, NEW duty \in [num : Int, den : {3, 100}],
         next_call > Len(SetUp), pwm_set_duty(pin, duty), UNCHANGED next_call
  PROVE  AsSetUp'
<1>1. next_call = 18 /\ next_call' = 18
  BY SetUpCalls DEF AsSetUp, Registers
<1>2. UNCHANGED <<prescale, load, output>>
  BY DEF pwm_set_duty
<1>3. Registers /\ Pulses
  BY DEF AsSetUp
<1>4. CASE InRange(duty)
  <2>1. duty \in Duties
    BY <1>4 DEF Duties
  <2>2. /\ width' \in [0 .. 3 -> Nat] /\ asked' = [asked EXCEPT ![pin] = duty]
        /\ invert' \in [0 .. 3 -> BOOLEAN] /\ Pulse(pin)'
        /\ \A other \in 0 .. 3 \ {pin} :
             width'[other] = width[other] /\ invert'[other] = invert[other]
    BY <1>3, <2>1, PulseIsSet
  <2>3. /\ asked' \in [0 .. 3 -> Duties \cup {NONE}] /\ asked'[pin] # NONE
        /\ \A other \in 0 .. 3 \ {pin} : asked'[other] = asked[other]
    BY <1>3, <2>1, <2>2, Pins DEF Registers
  <2>4. \A p \in 0 .. 3 : asked'[p] = NONE <=> next_call' <= DutyCall[p]
    <3> TAKE p \in 0 .. 3
    <3>1. DutyCall[p] \in Int /\ DutyCall[p] < 18
      BY DutyIsSetUp
    <3>2. asked[p] # NONE
      BY <1>1, <1>3, <3>1 DEF Registers
    <3> QED
      BY <1>1, <2>3, <3>1, <3>2
  <2>5. Registers'
    BY <1>1, <1>2, <1>3, <2>2, <2>3, <2>4 DEF Registers
  <2>6. Pulses'
    <3> SUFFICES ASSUME NEW p \in 0 .. 3
                 PROVE  /\ asked'[p] = NONE => width'[p] = 0
                        /\ asked'[p] # NONE => Pulse(p)'
      BY DEF Pulses
    <3>1. CASE p = pin
      BY <2>2, <2>3, <3>1
    <3>2. CASE p # pin
      <4>1. /\ asked'[p] = asked[p] /\ width'[p] = width[p] /\ invert'[p] = invert[p]
            /\ load' = load
        BY <1>2, <2>2, <2>3, <3>2
      <4> QED
        BY <1>3, <4>1 DEF Pulses, Pulse, Period, High
    <3> QED
      BY <3>1, <3>2
  <2> QED
    BY <2>5, <2>6 DEF AsSetUp
<1>5. CASE ~InRange(duty)
  <2>1. UNCHANGED <<width, invert, asked>>
    BY <1>5 DEF pwm_set_duty
  <2> QED
    BY <1>1, <1>2, <1>3, <2>1 DEF AsSetUp, Registers, Pulses, Pulse, Period, High
<1> QED
  BY <1>4, <1>5

\* No step disturbs what the set-up has made of the registers.
LEMMA AsSetUpIsKept ==
  ASSUME AsSetUp, [LocomotionNext]_locomotion_vars PROVE AsSetUp'
<1>1. CASE SetUpStep
  BY <1>1, SetUpStepKeeps
<1>2. ASSUME NEW pin \in Drive, NEW speed \in Speed, DriveCallback(pin, speed)
      PROVE  AsSetUp'
  <2>1. speed_to_duty_pct(speed) \in [num : Int, den : {3, 100}]
    BY LocomotionAssumption DEF speed_to_duty_pct
  <2>2. pin \in 0 .. 3
    BY DEF Drive
  <2> QED
    BY <1>2, <2>1, <2>2, CallbackKeeps DEF DriveCallback
<1>3. ASSUME NEW pin \in Rotate, NEW angle \in Angle, RotateCallback(pin, angle)
      PROVE  AsSetUp'
  <2>1. angle_to_duty_pct(angle) \in [num : Int, den : {3, 100}]
    <3>1. 1500 + 29 * angle \in Int
      BY LocomotionAssumption
    <3> QED
      BY <3>1 DEF angle_to_duty_pct
  <2>2. pin \in 0 .. 3
    BY DEF Rotate
  <2> QED
    BY <1>3, <2>1, <2>2, CallbackKeeps DEF RotateCallback
<1>4. CASE UNCHANGED locomotion_vars
  BY <1>4 DEF locomotion_vars, pwm_vars, registers, AsSetUp, Registers, Pulses, Pulse, Period, High
<1> QED
  BY <1>1, <1>2, <1>3, <1>4 DEF LocomotionNext

\* After a reset.
LEMMA InitAsSetUp == LocomotionInit => AsSetUp
<1> SUFFICES ASSUME LocomotionInit PROVE AsSetUp
  OBVIOUS
<1>1. /\ prescale = 1 /\ next_call = 1
      /\ load = [pair \in {0, 1} |-> 0] /\ width = [pin \in 0 .. 3 |-> 0]
      /\ invert = [pin \in 0 .. 3 |-> FALSE] /\ output = [pin \in 0 .. 3 |-> FALSE]
      /\ asked = [pin \in 0 .. 3 |-> NONE]
  BY Pins DEF LocomotionInit, PwmInit
<1>2. load \in [0 .. 1 -> Nat] /\ load[0] = 0 /\ load[1] = 0
  BY <1>1
<1> QED
  BY <1>1, <1>2, CallsComeInOrder DEF AsSetUp, Registers, Pulses

\* The registers are always as far as the set-up has come, and as the last command said.
LEMMA LocomotionInv == LocomotionSpec => []AsSetUp
BY InitAsSetUp, AsSetUpIsKept, PTL DEF LocomotionSpec

\* The registers keep their ranges: no period and no pulse overflows its counter.
THEOREM LocomotionTyping == LocomotionSpec => []TypeOK
<1>1. AsSetUp => TypeOK
  <2> SUFFICES ASSUME AsSetUp PROVE TypeOK
    OBVIOUS
  <2>1. prescale \in Prescale /\ next_call \in 1 .. 18
    BY DEF AsSetUp, Registers, Prescale
  <2>2. load \in [Pair -> 0 .. MaxLoad]
    <3>1. /\ load \in [0 .. 1 -> Nat]
          /\ load[0] \in {0, HalfPeriod} /\ load[1] \in {0, HalfPeriod}
      BY DEF AsSetUp, Registers
    <3>3. load[0] \in 0 .. MaxLoad /\ load[1] \in 0 .. MaxLoad
      BY <3>1, Fits
    <3>4. Pair = 0 .. 1
      BY Pins
    <3>5. load \in [0 .. 1 -> 0 .. MaxLoad]
      BY <3>1, <3>3
    <3> QED
      BY <3>4, <3>5
  <2>3. \A pin \in Pin : width[pin] \in 0 .. load[pin \div 2]
    <3> SUFFICES ASSUME NEW pin \in 0 .. 3 PROVE width[pin] \in 0 .. load[pin \div 2]
      BY Pins
    <3>1. load[pin \div 2] \in Nat /\ width[pin] \in Nat
      BY Pins DEF AsSetUp, Registers
    <3>2. width[pin] = 0 \/ width[pin] <= load[pin \div 2]
      BY DEF AsSetUp, Pulses, Pulse
    <3> QED
      BY <3>1, <3>2
  <2> QED
    <3>1. invert \in [Pin -> BOOLEAN] /\ output \in [Pin -> BOOLEAN]
      BY Pins DEF AsSetUp, Registers
    <3> QED
      BY <2>1, <2>2, <2>3, <3>1 DEF TypeOK, PwmTypeOK
<1> QED
  BY <1>1, LocomotionInv, PTL

\* For every clock up to MaxClock and every command: an enabled output has the period
\* its motor or servo was built for, although failed calls go unnoticed
\* (pwm_set_period, servo_init).
THEOREM PeriodsAreRight == LocomotionSpec => []PeriodIsRight
<1>1. AsSetUp => PeriodIsRight
  <2> SUFFICES ASSUME AsSetUp, NEW pin \in 0 .. 3, output[pin]
               PROVE  /\ 1000 * prescale * Period(pin) <= Clock * period
                      /\ Clock * period < 1000 * prescale * (Period(pin) + 3)
    BY Pins DEF PeriodIsRight
  <2>1. prescale = 64 /\ Period(pin) = 2 * HalfPeriod
    <3>1. next_call \in 1 .. 18 /\ next_call > EnableCall[pin] /\ EnableCall[pin] > DutyCall[pin]
          /\ EnableCall[pin] \in Int /\ DutyCall[pin] \in Int
      BY CallsComeInOrder DEF AsSetUp, Registers
    <3>2. next_call > DutyCall[pin] /\ DutyCall[pin] > 3
      BY <3>1, CallsComeInOrder
    <3>3. pin \div 2 = 0 => next_call > 13
      BY <3>1, <3>2, CallsComeInOrder
    <3>4. load[pin \div 2] = HalfPeriod /\ prescale = 64
      BY <3>1, <3>2, <3>3, Pins DEF AsSetUp, Registers
    <3> QED
      BY <3>4 DEF Period
  <2> DEFINE c == Clock \div 64  counts == (c * 10) \div 1000
  <2>2. Clock \in Nat
    <3>1. MaxClock \in Int
      BY DEF MaxClock
    <3> QED
      BY <3>1, PwmAssumption
  <2>3. c \in Nat /\ 64 * c <= Clock /\ Clock < 64 * c + 64
    BY <2>2
  <2>4. HalfPeriod = counts \div 2
    BY DEF HalfPeriod, period
  <2> HIDE DEF c
  <2>5. counts \in Nat /\ 1000 * counts <= 10 * c /\ 10 * c < 1000 * counts + 1000
    BY <2>3
  <2> HIDE DEF counts
  <2>6. 2 * HalfPeriod <= counts /\ counts < 2 * HalfPeriod + 2 /\ HalfPeriod \in Nat
    BY <2>4, <2>5
  <2>7. /\ 64 * (1000 * (2 * HalfPeriod)) <= 10 * Clock
        /\ 10 * Clock < 64 * (1000 * (2 * HalfPeriod + 3))
    BY <2>2, <2>3, <2>5, <2>6
  <2>8. /\ 1000 * prescale * Period(pin) = 64 * (1000 * (2 * HalfPeriod))
        /\ 1000 * prescale * (Period(pin) + 3) = 64 * (1000 * (2 * HalfPeriod + 3))
        /\ Clock * period = 10 * Clock
    BY <2>1, <2>2, <2>6 DEF period
  <2> QED
    BY <2>7, <2>8
<1> QED
  BY <1>1, LocomotionInv, PTL

\* For every clock and every command, in or out of range: an enabled output has the
\* pulse of the last duty in range (pwm_set_duty).
THEOREM PulsesFollowCommands == LocomotionSpec => []PulseFollowsCommand
<1>1. AsSetUp => PulseFollowsCommand
  <2> SUFFICES ASSUME AsSetUp, NEW pin \in 0 .. 3, output[pin]
               PROVE  asked[pin] # NONE /\ Pulse(pin)
    BY Pins DEF PulseFollowsCommand, Pulse
  <2>1. next_call \in 1 .. 18 /\ next_call > EnableCall[pin] /\ EnableCall[pin] > DutyCall[pin]
        /\ EnableCall[pin] \in Int /\ DutyCall[pin] \in Int
    BY CallsComeInOrder DEF AsSetUp, Registers
  <2>2. ~(next_call <= DutyCall[pin])
    BY <2>1
  <2>3. asked[pin] # NONE
    BY <2>2 DEF AsSetUp, Registers
  <2> QED
    BY <2>3 DEF AsSetUp, Pulses
<1> QED
  BY <1>1, LocomotionInv, PTL
=============================================================================
