------------------------ MODULE SubscriptionsProofs ------------------------
(***************************************************************************)
(* Proofs about Subscriptions, for any lists of filters, topics, storage,  *)
(* and number of requests, connections and messages under way: the storage *)
(* of filters stays within its limit, and what is refused or reported is   *)
(* what the application has been told of or has asked for.                 *)
(***************************************************************************)
EXTENDS Subscriptions, SequenceTheorems, FiniteSetTheorems, WellFoundedInduction, TLAPS

-----------------------------------------------------------------------------
\* The messages and the operations.

Grants == {<<>>} \cup UNION {[DOMAIN list -> BOOLEAN] : list \in Lists}

RequestTypes == {"SUBSCRIBE", "UNSUBSCRIBE"}
RequestOp == [id : Nat, type : RequestTypes, list : Lists]
BrokerMsg == [id : Nat, type : RequestTypes, list : Lists, taken : BOOLEAN, granted : Grants]

Answer == [type : {"SUBACK", "UNSUBACK"}, id : Nat, granted : Grants]
Connack == [type : {"CONNACK"}, present : BOOLEAN]
Message == [type : {"PUBLISH"}, topic : PubTopics, due : BOOLEAN]
ClientMsg == Answer \cup Connack \cup Message

IsAnswer(m) == m.type = "SUBACK" \/ m.type = "UNSUBACK"
IsDue(m) == m.type = "PUBLISH" /\ m.due

TypeInv ==
    /\ connected \in BOOLEAN /\ firstConnect \in BOOLEAN /\ sends \in Nat
    /\ subFilters \subseteq Filters /\ IsFiniteSet(subFilters)
    /\ Cardinality(subFilters) <= FiltersLimit
    /\ told \subseteq Filters /\ subs \subseteq Filters
    /\ requests \subseteq RequestOp
    /\ toBroker \in Seq(BrokerMsg) /\ toClient \in Seq(ClientMsg)
    /\ asked \in [Filters -> Nat]

-----------------------------------------------------------------------------
\* The channels: a connection carries the requests and their answers in the
\* order in which they were sent.

Numbered ==
    /\ \A r \in requests : r.id \in 1..sends
    /\ \A i \in DOMAIN toBroker : toBroker[i].id \in 1..sends
    /\ \A i \in DOMAIN toClient : IsAnswer(toClient[i]) => toClient[i].id \in 1..sends

InTurn ==
    /\ \A i, j \in DOMAIN toClient :
          i < j /\ IsAnswer(toClient[i]) /\ IsAnswer(toClient[j]) => toClient[i].id < toClient[j].id
    /\ \A i, j \in DOMAIN toBroker : i < j => toBroker[i].id < toBroker[j].id
    /\ \A i \in DOMAIN toClient, j \in DOMAIN toBroker :
          IsAnswer(toClient[i]) => toClient[i].id < toBroker[j].id
    /\ \A j \in DOMAIN toBroker : toBroker[j].taken => j = 1

\* The CONNACK comes first. Before the first one, and after one for a session
\* that the broker does not have, the broker has nothing to publish.
Connections ==
    /\ ~connected => requests = {} /\ toBroker = <<>>
    /\ connected => ~firstConnect
    /\ firstConnect /\ toClient # <<>> => subs = {}
    /\ \A i \in DOMAIN toClient : toClient[i].type = "CONNACK" =>
          /\ i = 1 /\ ~connected
          /\ toClient[i].present => ~firstConnect
          /\ ~toClient[i].present => subs = {} /\ \A k \in DOMAIN toClient : ~IsDue(toClient[k])

\* Every operation has its request on the way to the broker or its answer on the
\* way back, and they agree.
Answered(r) == \E i \in DOMAIN toClient : IsAnswer(toClient[i]) /\ toClient[i].id = r.id
Waiting(r) == \E i \in DOMAIN toBroker : toBroker[i].id = r.id
Dealt(r) == \E i \in DOMAIN toBroker : toBroker[i].id = r.id /\ toBroker[i].taken

Pending ==
    /\ \A r, q \in requests : r.id = q.id => r = q
    /\ \A r \in requests : Answered(r) \/ Waiting(r)
    /\ \A r \in requests, i \in DOMAIN toClient : IsAnswer(toClient[i]) /\ toClient[i].id = r.id =>
          (toClient[i].type = "SUBACK" <=> r.type = "SUBSCRIBE")
    /\ \A r \in requests, i \in DOMAIN toBroker : toBroker[i].id = r.id =>
          toBroker[i].type = r.type /\ toBroker[i].list = r.list

-----------------------------------------------------------------------------
\* The filters.

\* What the application takes for subscribed is stored, and what is stored it
\* has asked for.
Stored ==
    /\ told \subseteq subFilters
    /\ \A r \in requests, f \in Filters :
          r.type = "UNSUBSCRIBE" /\ f \in Elements(r.list) => f \notin told
    /\ \A f \in subFilters : asked[f] # 0
    /\ \A r \in requests, f \in Filters :
          r.type = "SUBSCRIBE" /\ f \in Elements(r.list) => asked[f] >= r.id

\* What the broker is subscribed to the application has asked for, and no
\* UNSUBACK on its way ends it.
Known ==
    /\ \A i \in DOMAIN toBroker, f \in Filters :
          toBroker[i].type = "SUBSCRIBE" /\ f \in Elements(toBroker[i].list) => asked[f] >= toBroker[i].id
    /\ ~firstConnect => \A f \in subs : asked[f] # 0
    /\ \A r \in requests, f \in subs :
          r.type = "UNSUBSCRIBE" /\ f \in Elements(r.list) /\ (Answered(r) \/ Dealt(r)) => asked[f] > r.id

\* A filter accounts for the PUBLISH at i: it was asked for, and no UNSUBACK that
\* comes before the PUBLISH ends it.
EndsBefore(r, i) == \E k \in DOMAIN toClient : k < i /\ IsAnswer(toClient[k]) /\ toClient[k].id = r.id
Accounts(f, i) ==
    /\ asked[f] # 0 /\ Matches(f, toClient[i].topic)
    /\ \A r \in requests : r.type = "UNSUBSCRIBE" /\ f \in Elements(r.list) /\ EndsBefore(r, i) => asked[f] > r.id
Due == \A i \in DOMAIN toClient : IsDue(toClient[i]) => \E f \in Filters : Accounts(f, i)

ChannelInv == TypeInv /\ Numbered /\ InTurn /\ Connections /\ Pending
SubInv == ChannelInv /\ Stored /\ Known /\ Due

-----------------------------------------------------------------------------
\* Sequences.

LEMMA TailFacts ==
    ASSUME NEW X, NEW q \in Seq(X), q # <<>>
    PROVE  /\ Tail(q) \in Seq(X) /\ 1 \in DOMAIN q /\ q[1] = Head(q) /\ Head(q) \in X
           /\ \A i \in DOMAIN Tail(q) : i \in Nat /\ i >= 1 /\ i + 1 \in DOMAIN q /\ Tail(q)[i] = q[i + 1]
           /\ \A i \in DOMAIN q : i \in Nat /\ (i = 1 \/ (i - 1 \in DOMAIN Tail(q) /\ Tail(q)[i - 1] = q[i]))
<1>1. Len(q) \in Nat /\ Len(q) # 0 /\ DOMAIN q = 1..Len(q)
  BY EmptySeq, LenProperties
<1>2. /\ Tail(q) \in Seq(X) /\ Len(Tail(q)) = Len(q) - 1
      /\ \A i \in 1..Len(Tail(q)) : Tail(q)[i] = q[i + 1]
  BY HeadTailProperties
<1>3. DOMAIN Tail(q) = 1..(Len(q) - 1)
  BY <1>2, LenProperties
<1>4. q[1] = Head(q) /\ Head(q) \in X
  BY HeadTailProperties
<1> QED BY <1>1, <1>2, <1>3, <1>4

LEMMA AppendFacts ==
    ASSUME NEW X, NEW q \in Seq(X), NEW e \in X
    PROVE  \E n \in Nat :
              /\ Append(q, e) \in Seq(X) /\ n \notin DOMAIN q /\ n >= 1
              /\ DOMAIN Append(q, e) = DOMAIN q \cup {n} /\ Append(q, e)[n] = e
              /\ \A i \in DOMAIN q : i \in Nat /\ i >= 1 /\ i < n /\ Append(q, e)[i] = q[i]
<1>1. Len(q) \in Nat /\ DOMAIN q = 1..Len(q)
  BY LenProperties
<1>2. /\ Append(q, e) \in Seq(X) /\ Len(Append(q, e)) = Len(q) + 1
      /\ \A i \in 1..Len(q) : Append(q, e)[i] = q[i]
      /\ Append(q, e)[Len(q) + 1] = e
  BY AppendProperties, LenProperties
<1>3. DOMAIN Append(q, e) = 1..(Len(q) + 1)
  BY <1>2, LenProperties
<1> WITNESS Len(q) + 1 \in Nat
<1> QED BY <1>1, <1>2, <1>3

\* The least number principle.
LEMMA LeastNumber ==
    ASSUME NEW T, T \subseteq Nat, T # {}
    PROVE  \E k \in T : \A j \in T : k <= j
<1>1. PICK k \in T : \A j \in T : ~(<<j, k>> \in OpToRel(<, Nat))
  BY NatLessThanWellFounded, WFMin
<1>2. \A j \in T : ~(j < k)
  BY <1>1 DEF OpToRel
<1> QED BY <1>2

-----------------------------------------------------------------------------
\* What the messages are.

LEMMA ListFacts ==
    ASSUME NEW list \in Lists
    PROVE  /\ list \in Seq(Filters) /\ Len(list) \in Nat /\ DOMAIN list = 1..Len(list)
           /\ Elements(list) \subseteq Filters
<1>1. list \in Seq(Filters)
  BY SubAssumption
<1>2. Elements(list) \subseteq Filters
  BY DEF Filters
<1> QED BY <1>1, <1>2, LenProperties

LEMMA ClientMsgFacts ==
    ASSUME NEW m \in ClientMsg
    PROVE  /\ m.type \in {"SUBACK", "UNSUBACK", "CONNACK", "PUBLISH"}
           /\ IsAnswer(m) => m \in Answer /\ m.id \in Nat
           /\ m.type = "CONNACK" => m.present \in BOOLEAN
           /\ m.type = "PUBLISH" => m.topic \in PubTopics /\ m.due \in BOOLEAN
  BY DEF ClientMsg, Answer, Connack, Message, IsAnswer

-----------------------------------------------------------------------------
\* The handler of SUBACK.

LEMMA StoredFacts ==
    ASSUME NEW list \in Lists, NEW granted, NEW k \in 0..Len(list), IsFiniteSet(subFilters)
    PROVE  /\ subFilters \subseteq StoredUpTo(list, granted, k)
           /\ StoredUpTo(list, granted, k) \subseteq subFilters \cup Elements(list)
           /\ IsFiniteSet(StoredUpTo(list, granted, k))
<1> DEFINE I == {j \in 1..k : granted[j]}
           new == {list[i] : i \in I}
<1>1. Len(list) \in Nat /\ DOMAIN list = 1..Len(list)
  BY ListFacts
<1>2. StoredUpTo(list, granted, k) = subFilters \cup new
  BY DEF StoredUpTo
<1>3. I \subseteq DOMAIN list /\ new \subseteq Elements(list)
  BY <1>1 DEF Elements
<1>4. IsFiniteSet(I)
  <2>1. IsFiniteSet(1..k)
    BY <1>1, FS_Interval
  <2> QED BY <2>1, FS_Subset
<1> HIDE DEF I
<1>5. IsFiniteSet(new)
  <2> DEFINE g == [i \in I |-> list[i]]
  <2>1. g \in Surjection(I, new)
    BY DEF Surjection
  <2> HIDE DEF g, new
  <2> QED BY <1>4, <2>1, FS_Surjection
<1> QED BY <1>2, <1>3, <1>5, FS_Union

\* The three outcomes of a SUBACK, for the operation it is about.
About == {r \in requests : r.id = Msg.id}

SubackIgnored ==
    /\ About = {} /\ toClient' = Tail(toClient)
    /\ UNCHANGED <<connected, firstConnect, subFilters, requests, sends, toBroker, connects,
                   session, told, asked, subs>>

SubackStored(r) ==
    /\ r \in About /\ Fits(r.list, Msg.granted, Len(r.list))
    /\ subFilters' = StoredUpTo(r.list, Msg.granted, Len(r.list))
    /\ told' \subseteq told \cup StoredUpTo(r.list, Msg.granted, Len(r.list))
    /\ \A q \in requests, f \in Filters :
          q.type = "UNSUBSCRIBE" /\ q.id > Msg.id /\ f \in Elements(q.list) => f \in told \/ f \notin told'
    /\ requests' = requests \ About /\ toClient' = Tail(toClient)
    /\ UNCHANGED <<connected, firstConnect, sends, toBroker, connects, session, asked, subs>>

SubackFull(r) ==
    /\ r \in About
    /\ \E k \in 0..Len(r.list) :
          Fits(r.list, Msg.granted, k) /\ subFilters' = StoredUpTo(r.list, Msg.granted, k)
    /\ SessionLost /\ UNCHANGED subs

LEMMA SubackCases ==
    ASSUME TypeInv, RecvSuback
    PROVE  SubackIgnored \/ \E r \in requests : SubackStored(r) \/ SubackFull(r)
<1> DEFINE r == CHOOSE r \in About : TRUE
           list == r.list
           all == Len(list)
           given == UNION {Elements(q.list) : q \in {q \in requests : q.type = "UNSUBSCRIBE" /\ q.id > Msg.id}}
           new == {list[i] : i \in {j \in 1..all : Msg.granted[j]}}
<1>1. UNCHANGED subs
  BY DEF RecvSuback
<1>2. \/ SubackIgnored
      \/ /\ About # {} /\ Fits(list, Msg.granted, all)
         /\ subFilters' = StoredUpTo(list, Msg.granted, all)
         /\ told' = told \cup (new \ given)
         /\ requests' = requests \ About /\ toClient' = Tail(toClient)
         /\ UNCHANGED <<connected, firstConnect, sends, toBroker, connects, session, asked>>
      \/ /\ About # {}
         /\ \E k \in 1..all : /\ Fits(list, Msg.granted, k - 1)
                              /\ subFilters' = StoredUpTo(list, Msg.granted, k - 1)
         /\ SessionLost
  BY DEF RecvSuback, About, SubackIgnored
<1>3. ASSUME About # {} PROVE r \in About /\ r \in requests /\ list \in Lists
  <2>1. r \in About
    BY <1>3
  <2> HIDE DEF r
  <2> QED BY <2>1 DEF About, TypeInv, RequestOp
<1> HIDE DEF r
<1>4. CASE /\ About # {} /\ Fits(list, Msg.granted, all)
           /\ subFilters' = StoredUpTo(list, Msg.granted, all)
           /\ told' = told \cup (new \ given)
           /\ requests' = requests \ About /\ toClient' = Tail(toClient)
           /\ UNCHANGED <<connected, firstConnect, sends, toBroker, connects, session, asked>>
  <2>1. told' \subseteq told \cup StoredUpTo(list, Msg.granted, all)
    BY <1>4 DEF StoredUpTo
  <2>2. \A q \in requests, f \in Filters :
           q.type = "UNSUBSCRIBE" /\ q.id > Msg.id /\ f \in Elements(q.list) => f \in given
    OBVIOUS
  <2> HIDE DEF given, new
  <2>3. \A q \in requests, f \in Filters :
           q.type = "UNSUBSCRIBE" /\ q.id > Msg.id /\ f \in Elements(q.list) => f \in told \/ f \notin told'
    BY <1>4, <2>2
  <2> QED BY <1>1, <1>3, <1>4, <2>1, <2>3 DEF SubackStored
<1>5. CASE /\ About # {}
           /\ \E k \in 1..all : /\ Fits(list, Msg.granted, k - 1)
                                /\ subFilters' = StoredUpTo(list, Msg.granted, k - 1)
           /\ SessionLost
  <2>1. PICK k \in 1..all : /\ Fits(list, Msg.granted, k - 1)
                            /\ subFilters' = StoredUpTo(list, Msg.granted, k - 1)
    BY <1>5
  <2>2. k - 1 \in 0..all
    BY <1>3, <1>5, ListFacts
  <2> QED BY <1>1, <1>3, <1>5, <2>1, <2>2 DEF SubackFull
<1> QED BY <1>2, <1>4, <1>5

-----------------------------------------------------------------------------
\* Types.

LEMMA ReceivedFacts ==
    ASSUME TypeInv, NEW type, Receives(type)
    PROVE  /\ Msg \in ClientMsg /\ Msg.type = type /\ Tail(toClient) \in Seq(ClientMsg)
           /\ toClient # <<>> /\ toClient[1] = Msg /\ 1 \in DOMAIN toClient
  BY TailFacts DEF TypeInv, Receives, Msg

LEMMA EmptySetFacts == IsFiniteSet({}) /\ Cardinality({}) = 0
  BY FS_EmptySet

\* What the broker has taken.
Grant(g) == [toBroker EXCEPT ![1].taken = TRUE, ![1].granted = g]

LEMMA GrantFacts ==
    ASSUME TypeInv, toBroker # <<>>, NEW g \in Grants
    PROVE  /\ Grant(g) \in Seq(BrokerMsg) /\ DOMAIN Grant(g) = DOMAIN toBroker
           /\ 1 \in DOMAIN toBroker /\ toBroker[1] = Head(toBroker) /\ Head(toBroker) \in BrokerMsg
           /\ \A i \in DOMAIN toBroker :
                 /\ Grant(g)[i].id = toBroker[i].id /\ Grant(g)[i].type = toBroker[i].type
                 /\ Grant(g)[i].list = toBroker[i].list
                 /\ i # 1 => Grant(g)[i] = toBroker[i]
           /\ Grant(g)[1].taken
<1>1. /\ 1 \in DOMAIN toBroker /\ toBroker[1] = Head(toBroker) /\ Head(toBroker) \in BrokerMsg
      /\ toBroker \in Seq(BrokerMsg)
  BY TailFacts DEF TypeInv
<1>2. Len(toBroker) \in Nat /\ DOMAIN toBroker = 1..Len(toBroker) /\ toBroker \in [1..Len(toBroker) -> BrokerMsg]
  BY <1>1, LenProperties
<1>3. PICK m : m = [toBroker[1] EXCEPT !.taken = TRUE, !.granted = g]
  OBVIOUS
<1>4. /\ m \in BrokerMsg /\ m.id = toBroker[1].id /\ m.type = toBroker[1].type
      /\ m.list = toBroker[1].list /\ m.taken
  BY <1>1, <1>3 DEF BrokerMsg
<1>5. Grant(g) = [toBroker EXCEPT ![1] = m]
  BY <1>1, <1>2, <1>3 DEF Grant
<1>6. /\ DOMAIN Grant(g) = DOMAIN toBroker /\ Grant(g)[1] = m
      /\ \A i \in DOMAIN toBroker : i # 1 => Grant(g)[i] = toBroker[i]
  BY <1>1, <1>5
<1>7. Grant(g) \in Seq(BrokerMsg)
  BY <1>1, <1>2, <1>4, <1>5, ExceptSeq
<1> QED BY <1>1, <1>4, <1>6, <1>7

LEMMA RequestFacts ==
    ASSUME TypeInv, NEW type \in RequestTypes, NEW list \in Lists, Request(type, list)
    PROVE  \E r \in RequestOp, m \in BrokerMsg :
              /\ connected /\ sends' = sends + 1 /\ requests' = requests \cup {r} /\ toBroker' = Append(toBroker, m)
              /\ r.id = sends + 1 /\ r.type = type /\ r.list = list
              /\ m.id = sends + 1 /\ m.type = type /\ m.list = list /\ ~m.taken
<1>1. PICK r : r = [id |-> sends + 1, type |-> type, list |-> list]
  OBVIOUS
<1>2. PICK m : m = [id |-> sends + 1, type |-> type, list |-> list, taken |-> FALSE, granted |-> <<>>]
  OBVIOUS
<1>3. sends + 1 \in Nat /\ <<>> \in Grants
  BY DEF TypeInv, Grants
<1>4. r \in RequestOp /\ r.id = sends + 1 /\ r.type = type /\ r.list = list
  BY <1>1, <1>3 DEF RequestOp
<1>5. m \in BrokerMsg /\ m.id = sends + 1 /\ m.type = type /\ m.list = list /\ ~m.taken
  BY <1>2, <1>3 DEF BrokerMsg
<1> QED BY <1>1, <1>2, <1>4, <1>5 DEF Request

\* What the broker sends.
AnswerTo(r) == [type |-> IF r.type = "SUBSCRIBE" THEN "SUBACK" ELSE "UNSUBACK", id |-> r.id, granted |-> r.granted]

LEMMA AnswerFacts ==
    ASSUME NEW r \in BrokerMsg
    PROVE  /\ AnswerTo(r) \in ClientMsg /\ AnswerTo(r).id = r.id
           /\ AnswerTo(r).type \in {"SUBACK", "UNSUBACK"}
           /\ AnswerTo(r).type = "SUBACK" <=> r.type = "SUBSCRIBE"
  BY DEF AnswerTo, BrokerMsg, ClientMsg, Answer

PublishOf(topic) == [type |-> "PUBLISH", topic |-> topic, due |-> \E f \in subs : Matches(f, topic)]

LEMMA PublishFacts ==
    ASSUME NEW topic \in PubTopics
    PROVE  /\ PublishOf(topic) \in ClientMsg /\ PublishOf(topic).type = "PUBLISH"
           /\ PublishOf(topic).topic = topic
           /\ PublishOf(topic).due <=> \E f \in subs : Matches(f, topic)
<1>1. PICK due \in BOOLEAN : due = (\E f \in subs : Matches(f, topic))
  OBVIOUS
<1>2. PublishOf(topic) = [type |-> "PUBLISH", topic |-> topic, due |-> due]
  BY <1>1 DEF PublishOf
<1>3. PublishOf(topic) \in Message
  BY <1>2 DEF Message
<1> QED BY <1>1, <1>2, <1>3 DEF ClientMsg

LEMMA GrantsOf ==
    ASSUME NEW r \in BrokerMsg,
           NEW g \in IF r.type = "SUBSCRIBE" THEN [DOMAIN r.list -> BOOLEAN] ELSE {<<>>}
    PROVE  g \in Grants
  BY DEF Grants, BrokerMsg

LEMMA EmptyChannels == <<>> \in Seq(BrokerMsg) /\ <<>> \in Seq(ClientMsg)
  BY EmptySeq

LEMMA TypeInit ==
    ASSUME Init PROVE TypeInv
<1>1. Cardinality(subFilters) <= FiltersLimit
  BY EmptySetFacts, SubAssumption DEF Init
<1>2. asked \in [Filters -> Nat]
  BY DEF Init
<1> QED BY <1>1, <1>2, EmptySetFacts, EmptyChannels DEF Init, TypeInv

LEMMA LostType ==
    ASSUME TypeInv, SessionLost, UNCHANGED <<subs>>,
           subFilters' \subseteq Filters, IsFiniteSet(subFilters'), Cardinality(subFilters') <= FiltersLimit
    PROVE  TypeInv'
  BY EmptyChannels DEF TypeInv, SessionLost

LEMMA SubackType ==
    ASSUME TypeInv, RecvSuback PROVE TypeInv'
<1>1. Tail(toClient) \in Seq(ClientMsg)
  BY ReceivedFacts DEF RecvSuback
<1>2. CASE SubackIgnored
  BY <1>1, <1>2 DEF TypeInv, SubackIgnored
<1>3. CASE \E r \in requests : SubackStored(r)
  <2>1. PICK r \in requests : SubackStored(r)
    BY <1>3
  <2>2. PICK S : S = StoredUpTo(r.list, Msg.granted, Len(r.list))
    OBVIOUS
  <2>3. r.list \in Lists
    BY DEF TypeInv, RequestOp
  <2>4. S \subseteq subFilters \cup Elements(r.list) /\ IsFiniteSet(S) /\ Elements(r.list) \subseteq Filters
    BY <2>2, <2>3, StoredFacts, ListFacts DEF TypeInv
  <2>5. Cardinality(S) <= FiltersLimit
    BY <2>1, <2>2 DEF SubackStored, Fits
  <2> QED BY <1>1, <2>1, <2>2, <2>4, <2>5 DEF TypeInv, SubackStored
<1>4. CASE \E r \in requests : SubackFull(r)
  <2>1. PICK r \in requests : SubackFull(r)
    BY <1>4
  <2>2. PICK k \in 0..Len(r.list) :
           Fits(r.list, Msg.granted, k) /\ subFilters' = StoredUpTo(r.list, Msg.granted, k)
    BY <2>1 DEF SubackFull
  <2>3. r.list \in Lists
    BY DEF TypeInv, RequestOp
  <2>4. subFilters' \subseteq subFilters \cup Elements(r.list) /\ IsFiniteSet(subFilters') /\ Elements(r.list) \subseteq Filters
    BY <2>2, <2>3, StoredFacts, ListFacts DEF TypeInv
  <2>5. Cardinality(subFilters') <= FiltersLimit
    BY <2>2 DEF Fits
  <2> QED BY <2>1, <2>4, <2>5, LostType DEF SubackFull, TypeInv
<1> QED BY <1>2, <1>3, <1>4, SubackCases

LEMMA UnsubackType ==
    ASSUME TypeInv, RecvUnsuback PROVE TypeInv'
<1>1. Tail(toClient) \in Seq(ClientMsg)
  BY ReceivedFacts DEF RecvUnsuback
<1>2. subFilters' \subseteq subFilters /\ requests' \subseteq requests
  BY DEF RecvUnsuback
<1>3. IsFiniteSet(subFilters') /\ Cardinality(subFilters') <= FiltersLimit
  <2>1. /\ IsFiniteSet(subFilters') /\ Cardinality(subFilters') \in Nat
        /\ Cardinality(subFilters) \in Nat /\ Cardinality(subFilters') <= Cardinality(subFilters)
    BY <1>2, FS_Subset, FS_CardinalityType DEF TypeInv
  <2> QED BY <2>1, SubAssumption DEF TypeInv
<1>4. asked' \in [Filters -> Nat]
  BY DEF RecvUnsuback, TypeInv
<1> QED BY <1>1, <1>2, <1>3, <1>4 DEF TypeInv, RecvUnsuback

LEMMA TypeStep ==
    ASSUME TypeInv, Next PROVE TypeInv'
<1>1. ASSUME NEW clean \in BOOLEAN, Connect(clean) PROVE TypeInv'
  <2>1. PICK present \in BOOLEAN :
           /\ subs' = IF present THEN subs ELSE {}
           /\ toClient' = <<[type |-> "CONNACK", present |-> present]>>
    BY <1>1 DEF Connect
  <2>2. [type |-> "CONNACK", present |-> present] \in ClientMsg
    BY DEF ClientMsg, Connack
  <2>3. toClient' \in Seq(ClientMsg)
    BY <2>1, <2>2
  <2> QED BY <1>1, <2>1, <2>3 DEF TypeInv, Connect
<1>2. CASE RecvConnack
  <2>1. Tail(toClient) \in Seq(ClientMsg) /\ (Msg.present \in BOOLEAN)
    BY <1>2, ReceivedFacts, ClientMsgFacts DEF RecvConnack
  <2>2. Cardinality({}) <= FiltersLimit
    BY EmptySetFacts, SubAssumption
  <2>3. subFilters' = subFilters \/ subFilters' = {}
    BY <1>2 DEF RecvConnack, KeptFilters
  <2>4. subFilters' \subseteq Filters /\ IsFiniteSet(subFilters') /\ Cardinality(subFilters') <= FiltersLimit
    BY <2>2, <2>3, EmptySetFacts DEF TypeInv
  <2> QED BY <1>2, <2>1, <2>4 DEF TypeInv, RecvConnack
<1>3. CASE RecvPublish
  <2>1. Tail(toClient) \in Seq(ClientMsg)
    BY <1>3, ReceivedFacts DEF RecvPublish
  <2> QED BY <1>3, <2>1, LostType DEF RecvPublish, TypeInv
<1>4. ASSUME NEW list \in Lists, Subscribe(list) \/ Unsubscribe(list) PROVE TypeInv'
  <2>1. PICK type \in RequestTypes : Request(type, list)
    BY <1>4 DEF Subscribe, Unsubscribe, RequestTypes
  <2>2. PICK r \in RequestOp, m \in BrokerMsg :
              /\ sends' = sends + 1 /\ requests' = requests \cup {r} /\ toBroker' = Append(toBroker, m)
    BY <2>1, RequestFacts
  <2>3. Append(toBroker, m) \in Seq(BrokerMsg)
    BY DEF TypeInv
  <2>4. asked' \in [Filters -> Nat]
    BY <1>4 DEF TypeInv, Subscribe, Unsubscribe
  <2> QED BY <1>4, <2>2, <2>3, <2>4 DEF TypeInv, Subscribe, Unsubscribe
<1>5. ASSUME NEW r \in requests, RequestTimeout(r) PROVE TypeInv'
  BY <1>5 DEF TypeInv, RequestTimeout
<1>6. CASE ConnectionBreaks
  BY <1>6, LostType DEF ConnectionBreaks, TypeInv
<1>7. CASE BrokerTakes
  <2>1. PICK g : /\ g \in IF Head(toBroker).type = "SUBSCRIBE" THEN [DOMAIN Head(toBroker).list -> BOOLEAN] ELSE {<<>>}
                 /\ toBroker' = Grant(g)
    BY <1>7 DEF BrokerTakes, Grant
  <2>2. toBroker # <<>> /\ Head(toBroker) \in BrokerMsg
    BY <1>7, TailFacts DEF BrokerTakes, TypeInv
  <2>3. toBroker' \in Seq(BrokerMsg)
    BY <2>1, <2>2, GrantsOf, GrantFacts
  <2>4. subs' \subseteq Filters
    BY <1>7, <2>2, ListFacts DEF BrokerTakes, BrokerMsg, TypeInv, Elements
  <2> QED BY <1>7, <2>3, <2>4 DEF TypeInv, BrokerTakes
<1>8. CASE BrokerAnswers
  <2>1. Head(toBroker) \in BrokerMsg /\ Tail(toBroker) \in Seq(BrokerMsg)
    BY <1>8, TailFacts DEF BrokerAnswers, TypeInv
  <2>2. toClient' = Append(toClient, AnswerTo(Head(toBroker)))
    BY <1>8 DEF BrokerAnswers, AnswerTo
  <2>3. toClient' \in Seq(ClientMsg)
    BY <2>1, <2>2, AnswerFacts DEF TypeInv
  <2> QED BY <1>8, <2>1, <2>3 DEF TypeInv, BrokerAnswers
<1>9. ASSUME NEW topic \in PubTopics, BrokerPublishes(topic) PROVE TypeInv'
  <2>1. toClient' = Append(toClient, PublishOf(topic))
    BY <1>9 DEF BrokerPublishes, PublishOf
  <2>2. toClient' \in Seq(ClientMsg)
    BY <2>1, PublishFacts DEF TypeInv
  <2> QED BY <1>9, <2>2 DEF TypeInv, BrokerPublishes
<1> QED BY <1>1, <1>2, <1>3, <1>4, <1>5, <1>6, <1>7, <1>8, <1>9, SubackType, UnsubackType DEF Next

-----------------------------------------------------------------------------
\* The channels: what a step does to them.

\* The client takes a message, and the operation that it answers is over.
Consumes ==
    /\ toClient # <<>> /\ toClient' = Tail(toClient) /\ toBroker' = toBroker /\ sends' = sends
    /\ requests' \subseteq requests
    /\ \A r \in requests' : ~(IsAnswer(Msg) /\ Msg.id = r.id)

LEMMA ConsumedFacts ==
    ASSUME TypeInv, Consumes
    PROVE  /\ 1 \in DOMAIN toClient /\ toClient[1] = Msg /\ Msg \in ClientMsg
           /\ \A i \in DOMAIN toClient' : i \in Nat /\ i >= 1 /\ i + 1 \in DOMAIN toClient /\ toClient'[i] = toClient[i + 1]
           /\ \A i \in DOMAIN toClient : i \in Nat /\ (i = 1 \/ (i - 1 \in DOMAIN toClient' /\ toClient'[i - 1] = toClient[i]))
  BY TailFacts DEF TypeInv, Consumes, Msg

LEMMA ConsumesInTurn ==
    ASSUME TypeInv, Numbered, InTurn, Pending, Consumes
    PROVE  Numbered' /\ InTurn' /\ Pending'
<1>1. /\ 1 \in DOMAIN toClient /\ toClient[1] = Msg
      /\ \A i \in DOMAIN toClient' : i \in Nat /\ i >= 1 /\ i + 1 \in DOMAIN toClient /\ toClient'[i] = toClient[i + 1]
      /\ \A i \in DOMAIN toClient : i \in Nat /\ (i = 1 \/ (i - 1 \in DOMAIN toClient' /\ toClient'[i - 1] = toClient[i]))
  BY ConsumedFacts
<1>2. toBroker' = toBroker /\ sends' = sends /\ requests' \subseteq requests
  BY DEF Consumes
<1>3. Numbered'
  BY <1>1, <1>2 DEF Numbered
<1>4. InTurn'
  BY <1>1, <1>2 DEF InTurn
<1>5. \A r \in requests' : Answered(r)' \/ Waiting(r)'
  <2>1. SUFFICES ASSUME NEW r \in requests' PROVE Answered(r)' \/ Waiting(r)'
    OBVIOUS
  <2>2. CASE Waiting(r)
    BY <1>2, <2>2 DEF Waiting
  <2>3. CASE Answered(r)
    <3>1. PICK i \in DOMAIN toClient : IsAnswer(toClient[i]) /\ toClient[i].id = r.id
      BY <2>3 DEF Answered
    <3>2. i # 1
      BY <1>1, <3>1 DEF Consumes
    <3> QED BY <1>1, <3>1, <3>2 DEF Answered
  <2> QED BY <1>2, <2>2, <2>3 DEF Pending
<1>6. Pending'
  <2>1. \A r, q \in requests' : r.id = q.id => r = q
    BY <1>2 DEF Pending
  <2>2. \A r \in requests', i \in DOMAIN toClient' : IsAnswer(toClient'[i]) /\ toClient'[i].id = r.id =>
          (toClient'[i].type = "SUBACK" <=> r.type = "SUBSCRIBE")
    BY <1>1, <1>2 DEF Pending
  <2>3. \A r \in requests', i \in DOMAIN toBroker' : toBroker'[i].id = r.id =>
          toBroker'[i].type = r.type /\ toBroker'[i].list = r.list
    BY <1>2 DEF Pending
  <2> QED BY <1>5, <2>1, <2>2, <2>3 DEF Pending
<1> QED BY <1>3, <1>4, <1>6

\* An answer is the next one in turn: the requests that are left were sent later.
LEMMA AnswerIsNext ==
    ASSUME TypeInv, Numbered, InTurn, Pending, toClient # <<>>, IsAnswer(Msg), NEW r \in requests, r.id # Msg.id
    PROVE  r.id > Msg.id
<1>1. 1 \in DOMAIN toClient /\ toClient[1] = Msg /\ \A i \in DOMAIN toClient : i \in Nat /\ i >= 1
  <2>1. toClient \in Seq(ClientMsg)
    BY DEF TypeInv
  <2>2. DOMAIN toClient = 1..Len(toClient) /\ Len(toClient) \in Nat
    BY <2>1, LenProperties
  <2> QED BY <2>1, <2>2, TailFacts DEF Msg
<1>2. r.id \in Nat /\ Msg.id \in Nat
  BY <1>1 DEF Numbered, TypeInv
<1>3. CASE Waiting(r)
  BY <1>1, <1>2, <1>3 DEF Waiting, InTurn
<1>4. CASE Answered(r)
  <2>1. PICK i \in DOMAIN toClient : IsAnswer(toClient[i]) /\ toClient[i].id = r.id
    BY <1>4 DEF Answered
  <2>2. 1 < i
    BY <1>1, <2>1
  <2> QED BY <1>1, <2>1, <2>2 DEF InTurn
<1> QED BY <1>3, <1>4 DEF Pending

\* The session ends.
LEMMA LostChannels ==
    ASSUME TypeInv, Connections, SessionLost
    PROVE  Numbered' /\ InTurn' /\ Pending' /\ Connections'
<1>1. /\ requests' = {} /\ DOMAIN toBroker' = {} /\ DOMAIN toClient' = {} /\ ~connected'
      /\ toClient' = <<>> /\ toBroker' = <<>>
  BY DEF SessionLost
<1> QED BY <1>1 DEF Numbered, InTurn, Pending, Connections

\* The client takes any message but the CONNACK.
LEMMA ConsumesConnected ==
    ASSUME TypeInv, Connections, Consumes, Msg.type # "CONNACK",
           UNCHANGED <<connected, firstConnect, subs>>
    PROVE  Connections'
<1>1. /\ 1 \in DOMAIN toClient /\ toClient[1] = Msg
      /\ \A i \in DOMAIN toClient' : i \in Nat /\ i >= 1 /\ i + 1 \in DOMAIN toClient /\ toClient'[i] = toClient[i + 1]
  BY ConsumedFacts
<1>2. \A i \in DOMAIN toClient' : toClient'[i].type # "CONNACK"
  <2>1. \A i \in DOMAIN toClient' : i + 1 # 1 /\ i + 1 \in DOMAIN toClient /\ toClient'[i] = toClient[i + 1]
    BY <1>1
  <2> QED BY <2>1 DEF Connections
<1>3. requests' \subseteq requests /\ toBroker' = toBroker /\ toClient # <<>>
  BY DEF Consumes
<1> QED BY <1>2, <1>3 DEF Connections

\* A request is sent: it is the last of the requests.
Asks(r, m) ==
    /\ connected /\ sends' = sends + 1 /\ requests' = requests \cup {r} /\ toBroker' = Append(toBroker, m)
    /\ r.id = sends + 1 /\ m.id = sends + 1 /\ m.type = r.type /\ m.list = r.list /\ ~m.taken
    /\ UNCHANGED <<connected, firstConnect, toClient, subs>>

\* m is the last of the messages to the broker, at n.
LastAsked(m, n) ==
    /\ n \in Nat /\ n \notin DOMAIN toBroker /\ n >= 1
    /\ DOMAIN toBroker' = DOMAIN toBroker \cup {n} /\ toBroker'[n] = m
    /\ \A i \in DOMAIN toBroker : i \in Nat /\ i >= 1 /\ i < n /\ toBroker'[i] = toBroker[i]

LEMMA AskedLast ==
    ASSUME TypeInv, NEW m \in BrokerMsg, toBroker' = Append(toBroker, m)
    PROVE  \E n : LastAsked(m, n)
  BY AppendFacts DEF TypeInv, LastAsked

LEMMA AsksInTurn ==
    ASSUME ChannelInv, NEW r \in RequestOp, NEW m \in BrokerMsg, Asks(r, m)
    PROVE  Numbered' /\ InTurn' /\ Pending' /\ Connections'
<1>1. PICK n : LastAsked(m, n)
  BY AskedLast DEF Asks, ChannelInv
<1>2. /\ sends \in Nat /\ sends' = sends + 1 /\ requests' = requests \cup {r} /\ toClient' = toClient
      /\ r.id = sends + 1 /\ m.id = sends + 1 /\ ~m.taken
  BY DEF Asks, ChannelInv, TypeInv
<1>3. Numbered'
  BY <1>1, <1>2 DEF ChannelInv, Numbered, LastAsked
<1>4. InTurn'
  <2>1. \A i \in DOMAIN toBroker : toBroker[i].id \in 1..sends
    BY DEF ChannelInv, Numbered
  <2>2. \A i \in DOMAIN toClient : IsAnswer(toClient[i]) => toClient[i].id \in 1..sends
    BY DEF ChannelInv, Numbered
  <2>3. \A i, j \in DOMAIN toBroker' : i < j => toBroker'[i].id < toBroker'[j].id
    BY <1>1, <1>2, <2>1 DEF ChannelInv, InTurn, LastAsked
  <2>4. \A i \in DOMAIN toClient, j \in DOMAIN toBroker' :
          IsAnswer(toClient[i]) => toClient[i].id < toBroker'[j].id
    BY <1>1, <1>2, <2>2 DEF ChannelInv, InTurn, LastAsked
  <2>5. \A j \in DOMAIN toBroker' : toBroker'[j].taken => j = 1
    BY <1>1, <1>2 DEF ChannelInv, InTurn, LastAsked
  <2> QED BY <1>2, <2>3, <2>4, <2>5 DEF ChannelInv, InTurn
<1>5. Pending'
  <2>1. \A q \in requests : q.id # r.id /\ q.id \in Nat
    BY <1>2 DEF ChannelInv, Numbered
  <2>2. \A i \in DOMAIN toClient : IsAnswer(toClient[i]) => toClient[i].id # r.id
    BY <1>2 DEF ChannelInv, Numbered
  <2>3. \A i \in DOMAIN toBroker : toBroker[i].id # r.id
    BY <1>2 DEF ChannelInv, Numbered
  <2>4. \A q, p \in requests' : q.id = p.id => q = p
    BY <1>2, <2>1 DEF ChannelInv, Pending
  <2>5. \A q \in requests' : Answered(q)' \/ Waiting(q)'
    BY <1>1, <1>2 DEF ChannelInv, Pending, Answered, Waiting, LastAsked
  <2>6. \A q \in requests', i \in DOMAIN toClient' : IsAnswer(toClient'[i]) /\ toClient'[i].id = q.id =>
          (toClient'[i].type = "SUBACK" <=> q.type = "SUBSCRIBE")
    BY <1>2, <2>2 DEF ChannelInv, Pending
  <2>7. \A q \in requests', i \in DOMAIN toBroker' : toBroker'[i].id = q.id =>
          toBroker'[i].type = q.type /\ toBroker'[i].list = q.list
    BY <1>1, <1>2, <2>1, <2>3 DEF ChannelInv, Pending, LastAsked, Asks
  <2> QED BY <2>4, <2>5, <2>6, <2>7 DEF Pending
<1>6. Connections'
  BY DEF ChannelInv, Connections, Asks
<1> QED BY <1>3, <1>4, <1>5, <1>6

LEMMA TimeoutInTurn ==
    ASSUME ChannelInv, NEW r, RequestTimeout(r)
    PROVE  Numbered' /\ InTurn' /\ Pending' /\ Connections'
<1>1. /\ requests' \subseteq requests /\ toClient' = toClient /\ toBroker' = toBroker /\ sends' = sends
      /\ UNCHANGED <<connected, firstConnect, subs>>
  BY DEF RequestTimeout
<1>2. Numbered' /\ InTurn'
  BY <1>1 DEF ChannelInv, Numbered, InTurn
<1>3. Pending'
  BY <1>1 DEF ChannelInv, Pending, Answered, Waiting
<1>4. Connections'
  BY <1>1 DEF ChannelInv, Connections
<1> QED BY <1>2, <1>3, <1>4

\* A message to the client, at n.
LastSent(m, n) ==
    /\ n \in Nat /\ n \notin DOMAIN toClient /\ n >= 1
    /\ DOMAIN toClient' = DOMAIN toClient \cup {n} /\ toClient'[n] = m
    /\ \A i \in DOMAIN toClient : i \in Nat /\ i >= 1 /\ i < n /\ toClient'[i] = toClient[i]

LEMMA SentLast ==
    ASSUME TypeInv, NEW m \in ClientMsg, toClient' = Append(toClient, m)
    PROVE  \E n : LastSent(m, n)
  BY AppendFacts DEF TypeInv, LastSent

\* The broker takes a request.
LEMMA TakesInTurn ==
    ASSUME ChannelInv, BrokerTakes
    PROVE  Numbered' /\ InTurn' /\ Pending' /\ Connections'
<1>1. PICK g : /\ g \in IF Head(toBroker).type = "SUBSCRIBE" THEN [DOMAIN Head(toBroker).list -> BOOLEAN] ELSE {<<>>}
               /\ toBroker' = Grant(g)
  BY DEF BrokerTakes, Grant
<1>2. toBroker # <<>> /\ Head(toBroker) \in BrokerMsg
  BY TailFacts DEF BrokerTakes, ChannelInv, TypeInv
<1>3. /\ DOMAIN toBroker' = DOMAIN toBroker
      /\ \A i \in DOMAIN toBroker :
            /\ toBroker'[i].id = toBroker[i].id /\ toBroker'[i].type = toBroker[i].type
            /\ toBroker'[i].list = toBroker[i].list
            /\ i # 1 => toBroker'[i] = toBroker[i]
  BY <1>1, <1>2, GrantsOf, GrantFacts DEF ChannelInv
<1>4. /\ requests' = requests /\ toClient' = toClient /\ sends' = sends
      /\ UNCHANGED <<connected, firstConnect>>
  BY DEF BrokerTakes
<1>5. Numbered'
  BY <1>3, <1>4 DEF ChannelInv, Numbered
<1>6. InTurn'
  BY <1>3, <1>4 DEF ChannelInv, InTurn
<1>7. Pending'
  <2>1. \A r \in requests : Answered(r)' \/ Waiting(r)'
    BY <1>3, <1>4 DEF ChannelInv, Pending, Answered, Waiting
  <2> QED BY <1>3, <1>4, <2>1 DEF ChannelInv, Pending
<1>8. Connections'
  BY <1>2, <1>4 DEF ChannelInv, Connections
<1> QED BY <1>5, <1>6, <1>7, <1>8

\* The broker answers the request it has taken.
LEMMA AnswerFromHead ==
    ASSUME TypeInv, BrokerAnswers
    PROVE  \E m \in BrokerMsg, a \in ClientMsg, n \in Nat :
              /\ 1 \in DOMAIN toBroker /\ toBroker[1] = m /\ m.taken
              /\ \A i \in DOMAIN toBroker' : i \in Nat /\ i >= 1 /\ i + 1 \in DOMAIN toBroker /\ toBroker'[i] = toBroker[i + 1]
              /\ \A i \in DOMAIN toBroker : i \in Nat /\ (i = 1 \/ (i - 1 \in DOMAIN toBroker' /\ toBroker'[i - 1] = toBroker[i]))
              /\ IsAnswer(a) /\ a.id = m.id /\ (a.type = "SUBACK" <=> m.type = "SUBSCRIBE")
              /\ LastSent(a, n)
<1>1. PICK m : m = Head(toBroker)
  OBVIOUS
<1>2. /\ m \in BrokerMsg /\ 1 \in DOMAIN toBroker /\ toBroker[1] = m /\ m.taken
      /\ \A i \in DOMAIN toBroker' : i \in Nat /\ i >= 1 /\ i + 1 \in DOMAIN toBroker /\ toBroker'[i] = toBroker[i + 1]
      /\ \A i \in DOMAIN toBroker : i \in Nat /\ (i = 1 \/ (i - 1 \in DOMAIN toBroker' /\ toBroker'[i - 1] = toBroker[i]))
  BY <1>1, TailFacts DEF BrokerAnswers, TypeInv
<1>3. PICK a : a = AnswerTo(m)
  OBVIOUS
<1>4. a \in ClientMsg /\ a.id = m.id /\ (a.type = "SUBACK" <=> m.type = "SUBSCRIBE") /\ IsAnswer(a)
  BY <1>2, <1>3, AnswerFacts DEF IsAnswer
<1>5. toClient' = Append(toClient, a)
  BY <1>1, <1>3 DEF BrokerAnswers, AnswerTo
<1>6. PICK n : LastSent(a, n)
  BY <1>4, <1>5, SentLast
<1>7. n \in Nat
  BY <1>6 DEF LastSent
<1> QED BY <1>2, <1>4, <1>6, <1>7

LEMMA AnswersInTurn ==
    ASSUME ChannelInv, BrokerAnswers
    PROVE  Numbered' /\ InTurn' /\ Pending' /\ Connections'
<1>1. PICK m \in BrokerMsg, a \in ClientMsg, n \in Nat :
              /\ 1 \in DOMAIN toBroker /\ toBroker[1] = m /\ m.taken
              /\ \A i \in DOMAIN toBroker' : i \in Nat /\ i >= 1 /\ i + 1 \in DOMAIN toBroker /\ toBroker'[i] = toBroker[i + 1]
              /\ \A i \in DOMAIN toBroker : i \in Nat /\ (i = 1 \/ (i - 1 \in DOMAIN toBroker' /\ toBroker'[i - 1] = toBroker[i]))
              /\ IsAnswer(a) /\ a.id = m.id /\ (a.type = "SUBACK" <=> m.type = "SUBSCRIBE")
              /\ LastSent(a, n)
  BY AnswerFromHead DEF ChannelInv
<1>2. /\ requests' = requests /\ sends' = sends /\ toBroker # <<>>
      /\ UNCHANGED <<connected, firstConnect, subs>>
  BY DEF BrokerAnswers
<1>3. Numbered'
  <2>1. m.id \in 1..sends
    BY <1>1 DEF ChannelInv, Numbered
  <2> QED BY <1>1, <1>2, <2>1 DEF ChannelInv, Numbered, LastSent
<1>4. InTurn'
  <2>1. \A i, j \in DOMAIN toClient' :
          i < j /\ IsAnswer(toClient'[i]) /\ IsAnswer(toClient'[j]) => toClient'[i].id < toClient'[j].id
    BY <1>1 DEF ChannelInv, InTurn, LastSent
  <2>2. \A i, j \in DOMAIN toBroker' : i < j => toBroker'[i].id < toBroker'[j].id
    BY <1>1 DEF ChannelInv, InTurn
  <2>3. \A j \in DOMAIN toBroker' : m.id < toBroker'[j].id
    BY <1>1 DEF ChannelInv, InTurn
  <2>4. \A i \in DOMAIN toClient', j \in DOMAIN toBroker' :
          IsAnswer(toClient'[i]) => toClient'[i].id < toBroker'[j].id
    BY <1>1, <2>3 DEF ChannelInv, InTurn, LastSent
  <2>5. \A j \in DOMAIN toBroker' : ~toBroker'[j].taken
    <3>1. \A j \in DOMAIN toBroker' : j + 1 # 1 /\ j + 1 \in DOMAIN toBroker /\ toBroker'[j] = toBroker[j + 1]
      BY <1>1
    <3> QED BY <3>1 DEF ChannelInv, InTurn
  <2> QED BY <2>1, <2>2, <2>4, <2>5 DEF InTurn
<1>5. Pending'
  <2>1. \A r \in requests' : Answered(r)' \/ Waiting(r)'
    BY <1>1, <1>2 DEF ChannelInv, Pending, Answered, Waiting, LastSent
  <2>2. \A r \in requests', i \in DOMAIN toClient' : IsAnswer(toClient'[i]) /\ toClient'[i].id = r.id =>
          (toClient'[i].type = "SUBACK" <=> r.type = "SUBSCRIBE")
    BY <1>1, <1>2 DEF ChannelInv, Pending, LastSent
  <2>3. \A r \in requests', i \in DOMAIN toBroker' : toBroker'[i].id = r.id =>
          toBroker'[i].type = r.type /\ toBroker'[i].list = r.list
    BY <1>1, <1>2 DEF ChannelInv, Pending
  <2>4. \A r, q \in requests' : r.id = q.id => r = q
    BY <1>2 DEF ChannelInv, Pending
  <2> QED BY <2>1, <2>2, <2>3, <2>4 DEF Pending
<1>6. Connections'
  <2>1. connected /\ ~firstConnect /\ \A i \in DOMAIN toClient : toClient[i].type # "CONNACK"
    BY <1>2 DEF ChannelInv, Connections
  <2>2. a.type # "CONNACK"
    BY <1>1 DEF IsAnswer
  <2>3. \A i \in DOMAIN toClient' : toClient'[i].type # "CONNACK"
    BY <1>1, <2>1, <2>2 DEF LastSent
  <2> QED BY <1>2, <2>1, <2>3 DEF Connections
<1> QED BY <1>3, <1>4, <1>5, <1>6

\* The broker publishes a message.
LEMMA PublishLast ==
    ASSUME TypeInv, NEW topic \in PubTopics, BrokerPublishes(topic)
    PROVE  \E m \in ClientMsg, n \in Nat :
              /\ m.type = "PUBLISH" /\ m.topic = topic /\ (m.due <=> \E f \in subs : Matches(f, topic))
              /\ LastSent(m, n)
<1>1. PICK m : m = PublishOf(topic)
  OBVIOUS
<1>2. m \in ClientMsg /\ m.type = "PUBLISH" /\ m.topic = topic /\ (m.due <=> \E f \in subs : Matches(f, topic))
  BY <1>1, PublishFacts
<1>3. toClient' = Append(toClient, m)
  BY <1>1 DEF BrokerPublishes, PublishOf
<1>4. PICK n : LastSent(m, n)
  BY <1>2, <1>3, SentLast
<1>5. n \in Nat
  BY <1>4 DEF LastSent
<1> QED BY <1>2, <1>4, <1>5

LEMMA PublishesInTurn ==
    ASSUME ChannelInv, NEW topic \in PubTopics, BrokerPublishes(topic)
    PROVE  Numbered' /\ InTurn' /\ Pending' /\ Connections'
<1>1. PICK m \in ClientMsg, n \in Nat :
              /\ m.type = "PUBLISH" /\ m.topic = topic /\ (m.due <=> \E f \in subs : Matches(f, topic))
              /\ LastSent(m, n)
  BY PublishLast DEF ChannelInv
<1>2. /\ requests' = requests /\ sends' = sends /\ toBroker' = toBroker
      /\ UNCHANGED <<connected, firstConnect, subs>>
  BY DEF BrokerPublishes
<1>3. ~IsAnswer(m) /\ m.type # "CONNACK"
  BY <1>1 DEF IsAnswer
<1>4. Numbered'
  BY <1>1, <1>2, <1>3 DEF ChannelInv, Numbered, LastSent
<1>5. InTurn'
  BY <1>1, <1>2, <1>3 DEF ChannelInv, InTurn, LastSent
<1>6. Pending'
  <2>1. \A r \in requests' : Answered(r)' \/ Waiting(r)'
    BY <1>1, <1>2 DEF ChannelInv, Pending, Answered, Waiting, LastSent
  <2> QED BY <1>1, <1>2, <1>3, <2>1 DEF ChannelInv, Pending, LastSent
<1>7. Connections'
  <2>1. firstConnect => subs = {}
    BY DEF BrokerPublishes, BrokerUp, ChannelInv, Connections
  <2>2. ASSUME NEW i \in DOMAIN toClient', toClient'[i].type = "CONNACK"
        PROVE  /\ i = 1 /\ ~connected
               /\ toClient'[i].present => ~firstConnect
               /\ ~toClient'[i].present => subs = {} /\ \A k \in DOMAIN toClient' : ~IsDue(toClient'[k])
    <3>1. i \in DOMAIN toClient /\ toClient'[i] = toClient[i] /\ toClient[i].type = "CONNACK"
      BY <1>1, <1>3, <2>2 DEF LastSent
    <3>2. subs = {} => ~IsDue(m)
      BY <1>1 DEF IsDue
    <3> QED BY <1>1, <3>1, <3>2 DEF ChannelInv, Connections, LastSent
  <2> QED BY <1>2, <2>1, <2>2 DEF ChannelInv, Connections
<1> QED BY <1>4, <1>5, <1>6, <1>7

\* CONNECT, and its answer.
LEMMA ConnectInTurn ==
    ASSUME ChannelInv, NEW clean \in BOOLEAN, Connect(clean)
    PROVE  Numbered' /\ InTurn' /\ Pending' /\ Connections'
<1>1. PICK present \in IF session /\ ~clean THEN BOOLEAN ELSE {FALSE} :
         /\ subs' = IF present THEN subs ELSE {}
         /\ toClient' = <<[type |-> "CONNACK", present |-> present]>>
  BY DEF Connect
<1>2. PICK m : m = [type |-> "CONNACK", present |-> present]
  OBVIOUS
<1>3. m.type = "CONNACK" /\ m.present = present /\ ~IsAnswer(m) /\ ~IsDue(m)
  BY <1>2 DEF IsAnswer, IsDue
<1>4. DOMAIN toClient' = {1} /\ toClient'[1] = m
  BY <1>1, <1>2
<1>5. /\ ~connected /\ requests = {} /\ requests' = {} /\ DOMAIN toBroker' = {} /\ toBroker' = <<>> /\ ~connected'
      /\ firstConnect' = firstConnect /\ (present => ~firstConnect)
  <2>1. present => ~clean
    BY <1>1
  <2>2. ~connected /\ (firstConnect => clean)
    BY DEF Connect, MayConnect
  <2>3. toBroker' = <<>> /\ UNCHANGED <<connected, firstConnect, requests>>
    BY DEF Connect
  <2>4. requests = {}
    BY <2>2 DEF ChannelInv, Connections
  <2> QED BY <2>1, <2>2, <2>3, <2>4
<1>6. Numbered' /\ InTurn' /\ Pending'
  BY <1>3, <1>4, <1>5 DEF Numbered, InTurn, Pending
<1>7. Connections'
  BY <1>1, <1>3, <1>4, <1>5 DEF Connections
<1> QED BY <1>6, <1>7

LEMMA ConnackInTurn ==
    ASSUME ChannelInv, RecvConnack
    PROVE  Numbered' /\ InTurn' /\ Pending' /\ Connections'
<1>1. Msg.type = "CONNACK" /\ toClient # <<>> /\ 1 \in DOMAIN toClient /\ toClient[1] = Msg
  BY ReceivedFacts DEF RecvConnack, ChannelInv
<1>2. Consumes
  BY <1>1 DEF RecvConnack, Consumes, IsAnswer
<1>3. Numbered' /\ InTurn' /\ Pending'
  BY <1>2, ConsumesInTurn DEF ChannelInv
<1>4. connected' /\ ~firstConnect'
  BY DEF RecvConnack
<1>5. \A i \in DOMAIN toClient' : i + 1 # 1 /\ i + 1 \in DOMAIN toClient /\ toClient'[i] = toClient[i + 1]
  BY <1>2, ConsumedFacts DEF ChannelInv
<1>6. \A i \in DOMAIN toClient' : toClient'[i].type # "CONNACK"
  BY <1>5 DEF ChannelInv, Connections
<1> QED BY <1>3, <1>4, <1>6 DEF Connections

\* A SUBACK or UNSUBACK answers an operation of its kind.
LEMMA AnswerKind ==
    ASSUME ChannelInv, toClient # <<>>, IsAnswer(Msg), NEW r \in About
    PROVE  /\ r \in requests /\ r.id = Msg.id /\ r.list \in Lists /\ r.id \in Nat /\ r.id # 0
           /\ Answered(r) /\ (r.type = "SUBSCRIBE" <=> Msg.type = "SUBACK")
           /\ r.type \in RequestTypes
<1>1. 1 \in DOMAIN toClient /\ toClient[1] = Msg
  BY TailFacts DEF ChannelInv, TypeInv, Msg
<1>2. r \in requests /\ r.id = Msg.id
  BY DEF About
<1>3. r.list \in Lists /\ r.id \in 1..sends /\ sends \in Nat /\ r.type \in RequestTypes
  BY <1>2 DEF ChannelInv, TypeInv, Numbered, RequestOp
<1>4. Answered(r)
  BY <1>1, <1>2 DEF Answered
<1>5. r.type = "SUBSCRIBE" <=> Msg.type = "SUBACK"
  BY <1>1, <1>2 DEF ChannelInv, Pending
<1> QED BY <1>2, <1>3, <1>4, <1>5

LEMMA SubackConsumes ==
    ASSUME TypeInv, RecvSuback, SubackIgnored \/ \E r \in requests : SubackStored(r)
    PROVE  Consumes /\ Msg.type = "SUBACK" /\ UNCHANGED <<connected, firstConnect, subs>>
<1>1. Msg.type = "SUBACK" /\ toClient # <<>>
  BY ReceivedFacts DEF RecvSuback
<1>2. CASE SubackIgnored
  BY <1>1, <1>2 DEF SubackIgnored, Consumes, About
<1>3. CASE \E r \in requests : SubackStored(r)
  BY <1>1, <1>3 DEF SubackStored, Consumes, About
<1> QED BY <1>2, <1>3

LEMMA UnsubackConsumes ==
    ASSUME TypeInv, RecvUnsuback
    PROVE  Consumes /\ Msg.type = "UNSUBACK" /\ UNCHANGED <<connected, firstConnect, subs>>
<1>1. Msg.type = "UNSUBACK" /\ toClient # <<>>
  BY ReceivedFacts DEF RecvUnsuback
<1> QED BY <1>1 DEF RecvUnsuback, Consumes

\* A PUBLISH is reported, or the session ends.
Reported ==
    /\ Subscribed(Msg.topic) /\ effect' = [what |-> "reported", topic |-> Msg.topic, due |-> Msg.due]
    /\ UNCHANGED <<connected, firstConnect, requests, sends, toBroker, connects, session, told, asked, subFilters, subs>>
    /\ toClient' = Tail(toClient)
Rejected ==
    /\ ~Subscribed(Msg.topic) /\ effect' = [what |-> "rejected", topic |-> Msg.topic, due |-> Msg.due]
    /\ SessionLost /\ UNCHANGED <<subFilters, subs>>

LEMMA PublishCases ==
    ASSUME TypeInv, RecvPublish
    PROVE  /\ Reported \/ Rejected
           /\ toClient # <<>> /\ Msg.type = "PUBLISH" /\ Msg.topic \in PubTopics
           /\ Msg.due \in BOOLEAN /\ 1 \in DOMAIN toClient /\ toClient[1] = Msg
<1>1. /\ toClient # <<>> /\ Msg.type = "PUBLISH" /\ Msg \in ClientMsg
      /\ 1 \in DOMAIN toClient /\ toClient[1] = Msg
  BY ReceivedFacts DEF RecvPublish
<1>2. Msg.topic \in PubTopics /\ (Msg.due \in BOOLEAN)
  BY <1>1, ClientMsgFacts
<1>3. VerifyPubTopic(Msg.topic, FALSE)
  BY <1>2, SubAssumption
<1> QED BY <1>1, <1>2, <1>3 DEF RecvPublish, Reported, Rejected

LEMMA ReportedConsumes ==
    ASSUME TypeInv, RecvPublish, Reported
    PROVE  Consumes /\ Msg.type = "PUBLISH" /\ UNCHANGED <<connected, firstConnect, subs>>
<1>1. Msg.type = "PUBLISH" /\ toClient # <<>>
  BY PublishCases
<1> QED BY <1>1 DEF Reported, Consumes, IsAnswer

LEMMA ConsumesChannels ==
    ASSUME ChannelInv, Consumes, Msg.type # "CONNACK", UNCHANGED <<connected, firstConnect, subs>>
    PROVE  Numbered' /\ InTurn' /\ Pending' /\ Connections'
  BY ConsumesInTurn, ConsumesConnected DEF ChannelInv

\* The requests that the application sends.
LEMMA SubscribeAsks ==
    ASSUME TypeInv, NEW list \in Lists, Subscribe(list)
    PROVE  \E r \in RequestOp, m \in BrokerMsg : Asks(r, m) /\ r.type = "SUBSCRIBE" /\ r.list = list
<1>1. PICK r \in RequestOp, m \in BrokerMsg :
              /\ connected /\ sends' = sends + 1 /\ requests' = requests \cup {r} /\ toBroker' = Append(toBroker, m)
              /\ r.id = sends + 1 /\ r.type = "SUBSCRIBE" /\ r.list = list
              /\ m.id = sends + 1 /\ m.type = "SUBSCRIBE" /\ m.list = list /\ ~m.taken
  BY RequestFacts DEF Subscribe, RequestTypes
<1> QED BY <1>1 DEF Subscribe, Asks

LEMMA UnsubscribeAsks ==
    ASSUME TypeInv, NEW list \in Lists, Unsubscribe(list)
    PROVE  \E r \in RequestOp, m \in BrokerMsg : Asks(r, m) /\ r.type = "UNSUBSCRIBE" /\ r.list = list
<1>1. PICK r \in RequestOp, m \in BrokerMsg :
              /\ connected /\ sends' = sends + 1 /\ requests' = requests \cup {r} /\ toBroker' = Append(toBroker, m)
              /\ r.id = sends + 1 /\ r.type = "UNSUBSCRIBE" /\ r.list = list
              /\ m.id = sends + 1 /\ m.type = "UNSUBSCRIBE" /\ m.list = list /\ ~m.taken
  BY RequestFacts DEF Unsubscribe, RequestTypes
<1> QED BY <1>1 DEF Unsubscribe, Asks

LEMMA ChannelInit == ASSUME Init PROVE ChannelInv
<1>1. DOMAIN toClient = {} /\ DOMAIN toBroker = {} /\ requests = {}
  BY DEF Init
<1> QED BY <1>1, TypeInit DEF Init, ChannelInv, Numbered, InTurn, Connections, Pending

LEMMA ChannelStep ==
    ASSUME ChannelInv, Next PROVE ChannelInv'
<1>1. TypeInv'
  BY TypeStep DEF ChannelInv
<1>2. TypeInv
  BY DEF ChannelInv
<1>3. SUFFICES Numbered' /\ InTurn' /\ Pending' /\ Connections'
  BY <1>1 DEF ChannelInv
<1>4. CASE RecvSuback
  <2>1. CASE SubackIgnored \/ \E r \in requests : SubackStored(r)
    BY <1>2, <1>4, <2>1, SubackConsumes, ConsumesChannels
  <2>2. CASE \E r \in requests : SubackFull(r)
    BY <1>2, <2>2, LostChannels DEF SubackFull, ChannelInv
  <2> QED BY <1>2, <1>4, <2>1, <2>2, SubackCases
<1>5. CASE RecvUnsuback
  BY <1>2, <1>5, UnsubackConsumes, ConsumesChannels
<1>6. CASE RecvPublish
  <2>1. CASE Reported
    BY <1>2, <1>6, <2>1, ReportedConsumes, ConsumesChannels
  <2>2. CASE Rejected
    BY <1>2, <2>2, LostChannels DEF Rejected, ChannelInv
  <2> QED BY <1>2, <1>6, <2>1, <2>2, PublishCases
<1>7. CASE ConnectionBreaks
  BY <1>7, LostChannels DEF ConnectionBreaks, ChannelInv
<1>8. CASE \E list \in Lists : Subscribe(list) \/ Unsubscribe(list)
  BY <1>2, <1>8, SubscribeAsks, UnsubscribeAsks, AsksInTurn
<1> QED BY <1>4, <1>5, <1>6, <1>7, <1>8, ConnectInTurn, ConnackInTurn, TimeoutInTurn, TakesInTurn,
           AnswersInTurn, PublishesInTurn DEF Next

-----------------------------------------------------------------------------
\* The filters that are stored.

LEMMA StoredKept ==
    ASSUME Stored, UNCHANGED <<told, subFilters, asked>>, requests' \subseteq requests
    PROVE  Stored'
  BY DEF Stored

\* The filters of a SUBACK were asked for.
LEMMA GrantedAsked ==
    ASSUME ChannelInv, Stored, toClient # <<>>, Msg.type = "SUBACK", NEW r \in About
    PROVE  \A f \in subFilters \cup Elements(r.list) : f \in Filters /\ asked[f] # 0
<1>1. /\ r \in requests /\ r.list \in Lists /\ r.id \in Nat /\ r.id # 0 /\ r.type = "SUBSCRIBE"
  BY AnswerKind DEF IsAnswer
<1>2. Elements(r.list) \subseteq Filters /\ subFilters \subseteq Filters /\ asked \in [Filters -> Nat]
  BY <1>1, ListFacts DEF ChannelInv, TypeInv
<1>3. \A f \in Elements(r.list) : asked[f] >= r.id
  BY <1>1, <1>2 DEF Stored
<1> QED BY <1>1, <1>2, <1>3 DEF Stored

LEMMA SubackKeepsStored ==
    ASSUME ChannelInv, Stored, RecvSuback PROVE Stored'
<1>1. TypeInv /\ toClient # <<>> /\ Msg.type = "SUBACK" /\ IsAnswer(Msg)
  BY ReceivedFacts DEF RecvSuback, ChannelInv, IsAnswer
<1>2. CASE SubackIgnored
  BY <1>2, StoredKept DEF SubackIgnored
<1>3. CASE \E r \in requests : SubackStored(r)
  <2>1. PICK r \in requests : SubackStored(r)
    BY <1>3
  <2>2. r \in About /\ r.list \in Lists
    BY <1>1, <2>1, AnswerKind DEF SubackStored
  <2>3. PICK S : S = StoredUpTo(r.list, Msg.granted, Len(r.list))
    OBVIOUS
  <2>4. /\ subFilters \subseteq S /\ S \subseteq subFilters \cup Elements(r.list)
    <3>1. IsFiniteSet(subFilters)
      BY DEF ChannelInv, TypeInv
    <3>2. Len(r.list) \in 0..Len(r.list)
      BY <2>2, ListFacts
    <3> QED BY <2>2, <2>3, <3>1, <3>2, StoredFacts
  <2>5. /\ subFilters' = S /\ told' \subseteq told \cup S /\ asked' = asked /\ requests' = requests \ About
    BY <2>1, <2>3 DEF SubackStored
  <2>6. told' \subseteq subFilters'
    BY <2>4, <2>5 DEF Stored
  <2>7. \A f \in subFilters' : asked'[f] # 0
    BY <1>1, <2>2, <2>4, <2>5, GrantedAsked
  <2>8. \A q \in requests' : q \in requests /\ q.id > Msg.id
    BY <1>1, <2>5, AnswerIsNext DEF ChannelInv, About
  <2>9. \A q \in requests', f \in Filters :
           q.type = "UNSUBSCRIBE" /\ f \in Elements(q.list) => f \notin told'
    BY <2>1, <2>8 DEF SubackStored, Stored
  <2> QED BY <2>5, <2>6, <2>7, <2>8, <2>9 DEF Stored
<1>4. CASE \E r \in requests : SubackFull(r)
  <2>1. PICK r \in requests : SubackFull(r)
    BY <1>4
  <2>2. r \in About /\ r.list \in Lists
    BY <1>1, <2>1, AnswerKind DEF SubackFull
  <2>3. PICK k \in 0..Len(r.list) : subFilters' = StoredUpTo(r.list, Msg.granted, k)
    BY <2>1 DEF SubackFull
  <2>4. /\ subFilters \subseteq subFilters' /\ subFilters' \subseteq subFilters \cup Elements(r.list)
    BY <2>2, <2>3, StoredFacts DEF ChannelInv, TypeInv
  <2>5. told' = told /\ asked' = asked /\ requests' = {}
    BY <2>1 DEF SubackFull, SessionLost
  <2>6. \A f \in subFilters' : asked'[f] # 0
    BY <1>1, <2>2, <2>4, <2>5, GrantedAsked
  <2> QED BY <2>4, <2>5, <2>6 DEF Stored
<1> QED BY <1>1, <1>2, <1>3, <1>4, SubackCases

\* An UNSUBACK ends the filters of its operation that were not asked for again.
Ended == UNION {Elements(r.list) : r \in About}

LEMMA UnsubackEnds ==
    ASSUME ChannelInv, RecvUnsuback
    PROVE  /\ toClient # <<>> /\ Msg.type = "UNSUBACK" /\ IsAnswer(Msg) /\ Msg.id \in Nat
           /\ subFilters' = subFilters \ Ended /\ requests' = requests \ About /\ told' = told
           /\ \A r \in requests' : r \in requests /\ r.id > Msg.id
           /\ \A f \in Filters : asked'[f] = asked[f] \/ (f \in Ended /\ asked[f] < Msg.id)
           /\ \A f \in Ended : \E r \in requests :
                 r.type = "UNSUBSCRIBE" /\ r.id = Msg.id /\ Answered(r) /\ f \in Elements(r.list)
<1>1. toClient # <<>> /\ Msg.type = "UNSUBACK" /\ IsAnswer(Msg) /\ TypeInv /\ Msg \in ClientMsg
  BY ReceivedFacts DEF RecvUnsuback, ChannelInv, IsAnswer
<1>2. Msg.id \in Nat
  BY <1>1, ClientMsgFacts
<1>3. /\ subFilters' = subFilters \ Ended /\ requests' = requests \ About /\ told' = told
      /\ asked' = [f \in Filters |-> IF f \in Ended /\ asked[f] < Msg.id THEN 0 ELSE asked[f]]
  BY DEF RecvUnsuback, Ended, About
<1>4. \A r \in requests' : r \in requests /\ r.id > Msg.id
  BY <1>1, <1>3, AnswerIsNext DEF ChannelInv, About
<1>5. ASSUME NEW f \in Ended
      PROVE  \E r \in requests :
                r.type = "UNSUBSCRIBE" /\ r.id = Msg.id /\ Answered(r) /\ f \in Elements(r.list)
  <2>1. PICK r \in About : f \in Elements(r.list)
    BY DEF Ended
  <2>2. r \in requests /\ r.id = Msg.id /\ Answered(r) /\ r.type # "SUBSCRIBE" /\ r.type \in RequestTypes
    BY <1>1, <2>1, AnswerKind
  <2> QED BY <2>1, <2>2 DEF RequestTypes
<1> QED BY <1>1, <1>2, <1>3, <1>4, <1>5

LEMMA UnsubackKeepsStored ==
    ASSUME ChannelInv, Stored, RecvUnsuback PROVE Stored'
<1>1. /\ Msg.id \in Nat /\ subFilters' = subFilters \ Ended /\ requests' = requests \ About /\ told' = told
      /\ \A r \in requests' : r \in requests /\ r.id > Msg.id
      /\ \A f \in Filters : asked'[f] = asked[f] \/ (f \in Ended /\ asked[f] < Msg.id)
      /\ \A f \in Ended : \E r \in requests :
            r.type = "UNSUBSCRIBE" /\ r.id = Msg.id /\ Answered(r) /\ f \in Elements(r.list)
  BY UnsubackEnds
<1>2. subFilters \subseteq Filters /\ asked \in [Filters -> Nat] /\ \A r \in requests : r.id \in Nat
  BY DEF ChannelInv, TypeInv, RequestOp
<1>3. told' \subseteq subFilters'
  BY <1>1, <1>2 DEF Stored
<1>4. \A r \in requests', f \in Filters :
          r.type = "SUBSCRIBE" /\ f \in Elements(r.list) => asked'[f] >= r.id
  <2>1. \A r \in requests', f \in Filters :
            r.type = "SUBSCRIBE" /\ f \in Elements(r.list) => asked[f] >= r.id /\ r.id > Msg.id
    BY <1>1 DEF Stored
  <2> QED BY <1>1, <1>2, <2>1
<1>5. \A f \in subFilters' : asked'[f] # 0
  BY <1>1, <1>2 DEF Stored
<1> QED BY <1>1, <1>3, <1>4, <1>5 DEF Stored

\* The application asks for filters, or gives them up.
LEMMA SubscribeRaises ==
    ASSUME TypeInv, NEW list \in Lists, Subscribe(list)
    PROVE  /\ sends \in Nat
           /\ \A f \in Filters : asked'[f] \in Nat /\ (asked'[f] = asked[f] \/ asked'[f] = sends + 1)
           /\ \A f \in Elements(list) : asked'[f] = sends + 1
<1>1. asked \in [Filters -> Nat] /\ sends \in Nat
  BY DEF TypeInv
<1>2. Elements(list) \subseteq Filters
  BY ListFacts
<1> QED BY <1>1, <1>2 DEF Subscribe

LEMMA SubscribeKeepsStored ==
    ASSUME ChannelInv, Stored, NEW list \in Lists, Subscribe(list) PROVE Stored'
<1>1. PICK r \in RequestOp, m \in BrokerMsg : Asks(r, m) /\ r.type = "SUBSCRIBE" /\ r.list = list
  BY SubscribeAsks DEF ChannelInv
<1>2. /\ sends \in Nat
      /\ \A f \in Filters : asked'[f] \in Nat /\ (asked'[f] = asked[f] \/ asked'[f] = sends + 1)
      /\ \A f \in Elements(list) : asked'[f] = sends + 1
  BY SubscribeRaises DEF ChannelInv
<1>3. requests' = requests \cup {r} /\ r.id = sends + 1 /\ UNCHANGED <<told, subFilters>>
  BY <1>1 DEF Asks, Subscribe
<1>4. \A q \in requests : q.id \in 1..sends
  BY DEF ChannelInv, Numbered
<1>5. \A q \in requests', f \in Filters :
          q.type = "UNSUBSCRIBE" /\ f \in Elements(q.list) => f \notin told'
  BY <1>1, <1>3 DEF Stored
<1>6. \A f \in subFilters' : asked'[f] # 0
  BY <1>2, <1>3 DEF Stored, ChannelInv, TypeInv
<1>7. \A q \in requests', f \in Filters :
          q.type = "SUBSCRIBE" /\ f \in Elements(q.list) => asked'[f] >= q.id
  BY <1>1, <1>2, <1>3, <1>4 DEF Stored, ChannelInv, TypeInv
<1> QED BY <1>3, <1>5, <1>6, <1>7 DEF Stored

LEMMA UnsubscribeKeepsStored ==
    ASSUME ChannelInv, Stored, NEW list \in Lists, Unsubscribe(list) PROVE Stored'
<1>1. PICK r \in RequestOp, m \in BrokerMsg : Asks(r, m) /\ r.type = "UNSUBSCRIBE" /\ r.list = list
  BY UnsubscribeAsks DEF ChannelInv
<1>2. /\ requests' = requests \cup {r} /\ told' = told \ Elements(list)
      /\ UNCHANGED <<subFilters, asked>>
  BY <1>1 DEF Asks, Unsubscribe
<1> QED BY <1>1, <1>2 DEF Stored

LEMMA ConnackKeepsStored ==
    ASSUME ChannelInv, Stored, RecvConnack PROVE Stored'
<1>1. requests' = {}
  <2>1. Msg.type = "CONNACK" /\ 1 \in DOMAIN toClient /\ toClient[1] = Msg
    BY ReceivedFacts DEF RecvConnack, ChannelInv
  <2> QED BY <2>1 DEF ChannelInv, Connections, RecvConnack
<1>2. CASE Msg.present
  BY <1>1, <1>2 DEF Stored, RecvConnack, KeptFilters
<1>3. CASE ~Msg.present
  BY <1>1, <1>3 DEF Stored, RecvConnack, KeptFilters
<1> QED BY <1>2, <1>3

LEMMA StoredStep ==
    ASSUME ChannelInv, Stored, Next PROVE Stored'
<1>1. TypeInv
  BY DEF ChannelInv
<1>2. ASSUME NEW clean \in BOOLEAN, Connect(clean) PROVE Stored'
  BY <1>2, StoredKept DEF Connect
<1>3. CASE RecvPublish
  BY <1>1, <1>3, PublishCases, StoredKept DEF Reported, Rejected, SessionLost
<1>4. ASSUME NEW r \in requests, RequestTimeout(r) PROVE Stored'
  BY <1>4, StoredKept DEF RequestTimeout
<1>5. CASE ConnectionBreaks
  BY <1>5, StoredKept DEF ConnectionBreaks, SessionLost
<1>6. CASE BrokerTakes
  BY <1>6, StoredKept DEF BrokerTakes
<1>7. CASE BrokerAnswers
  BY <1>7, StoredKept DEF BrokerAnswers
<1>8. ASSUME NEW topic \in PubTopics, BrokerPublishes(topic) PROVE Stored'
  BY <1>8, StoredKept DEF BrokerPublishes
<1> QED BY <1>2, <1>3, <1>4, <1>5, <1>6, <1>7, <1>8, SubackKeepsStored, UnsubackKeepsStored, SubscribeKeepsStored,
           UnsubscribeKeepsStored, ConnackKeepsStored DEF Next

-----------------------------------------------------------------------------
\* The subscriptions of the broker.

LEMMA KnownKept ==
    ASSUME Known, UNCHANGED <<asked, subs, firstConnect, toBroker>>, requests' \subseteq requests,
           \A r \in requests' : Answered(r)' => Answered(r)
    PROVE  Known'
  BY DEF Known, Dealt

LEMMA ConsumesAnswered ==
    ASSUME TypeInv, Consumes, NEW r, Answered(r)' PROVE Answered(r)
<1>1. PICK i \in DOMAIN toClient' : IsAnswer(toClient'[i]) /\ toClient'[i].id = r.id
  BY DEF Answered
<1>2. i + 1 \in DOMAIN toClient /\ toClient'[i] = toClient[i + 1]
  BY ConsumedFacts
<1> QED BY <1>1, <1>2 DEF Answered

LEMMA EmptyKnown ==
    ASSUME requests' = {}, toBroker' = <<>>, ~firstConnect' => \A f \in subs' : asked'[f] # 0
    PROVE  Known'
<1>1. DOMAIN toBroker' = {}
  OBVIOUS
<1> QED BY <1>1 DEF Known

\* Nothing that the broker is subscribed to, or is being asked for, is ended.
LEMMA UnsubackKeepsKnown ==
    ASSUME ChannelInv, Known, RecvUnsuback PROVE Known'
<1>1. /\ toClient # <<>> /\ IsAnswer(Msg) /\ Msg.id \in Nat /\ requests' = requests \ About
      /\ \A f \in Filters : asked'[f] = asked[f] \/ (f \in Ended /\ asked[f] < Msg.id)
      /\ \A f \in Ended : \E r \in requests :
            r.type = "UNSUBSCRIBE" /\ r.id = Msg.id /\ Answered(r) /\ f \in Elements(r.list)
  BY UnsubackEnds
<1>2. Consumes /\ UNCHANGED <<connected, firstConnect, subs>> /\ TypeInv /\ toBroker' = toBroker
  BY UnsubackConsumes DEF ChannelInv, Consumes
<1>3. 1 \in DOMAIN toClient /\ toClient[1] = Msg
  BY <1>2, ConsumedFacts
<1>4. asked \in [Filters -> Nat] /\ subs \subseteq Filters
  BY DEF ChannelInv, TypeInv
<1>5. \A f \in subs : asked'[f] = asked[f]
  BY <1>1, <1>4 DEF Known
<1>6. \A i \in DOMAIN toBroker : toBroker[i].id \in Nat /\ Msg.id < toBroker[i].id
  BY <1>1, <1>3 DEF ChannelInv, InTurn, Numbered
<1>7. \A i \in DOMAIN toBroker, f \in Filters :
          toBroker[i].type = "SUBSCRIBE" /\ f \in Elements(toBroker[i].list) => asked'[f] >= toBroker[i].id
  <2>1. \A i \in DOMAIN toBroker, f \in Filters :
            toBroker[i].type = "SUBSCRIBE" /\ f \in Elements(toBroker[i].list) =>
               asked[f] >= toBroker[i].id
    BY DEF Known
  <2> QED BY <1>1, <1>4, <1>6, <2>1
<1>8. \A r \in requests' : r \in requests /\ (Answered(r)' => Answered(r)) /\ (Dealt(r)' => Dealt(r))
  BY <1>1, <1>2, ConsumesAnswered DEF Dealt
<1> QED BY <1>2, <1>5, <1>7, <1>8 DEF Known

LEMMA SubscribeKeepsKnown ==
    ASSUME ChannelInv, Known, NEW list \in Lists, Subscribe(list) PROVE Known'
<1>1. PICK r \in RequestOp, m \in BrokerMsg : Asks(r, m) /\ r.type = "SUBSCRIBE" /\ r.list = list
  BY SubscribeAsks DEF ChannelInv
<1>2. /\ sends \in Nat
      /\ \A f \in Filters : asked'[f] \in Nat /\ (asked'[f] = asked[f] \/ asked'[f] = sends + 1)
      /\ \A f \in Elements(list) : asked'[f] = sends + 1
  BY SubscribeRaises DEF ChannelInv
<1>3. /\ requests' = requests \cup {r} /\ m.id = sends + 1 /\ m.list = list /\ ~m.taken
      /\ UNCHANGED <<subs, firstConnect, toClient>>
  BY <1>1 DEF Asks
<1>4. PICK n : LastAsked(m, n)
  BY <1>1, AskedLast DEF Asks, ChannelInv
<1>5. /\ \A q \in requests : q.id \in 1..sends
      /\ \A i \in DOMAIN toBroker : toBroker[i].id \in 1..sends
  BY DEF ChannelInv, Numbered
<1>6. asked \in [Filters -> Nat] /\ subs \subseteq Filters
  BY DEF ChannelInv, TypeInv
<1>7. \A i \in DOMAIN toBroker', f \in Filters :
          toBroker'[i].type = "SUBSCRIBE" /\ f \in Elements(toBroker'[i].list) => asked'[f] >= toBroker'[i].id
  <2>1. \A i \in DOMAIN toBroker, f \in Filters :
            toBroker[i].type = "SUBSCRIBE" /\ f \in Elements(toBroker[i].list) => asked'[f] >= toBroker[i].id
    BY <1>2, <1>5, <1>6 DEF Known
  <2>2. \A f \in Filters : f \in Elements(m.list) => asked'[f] >= m.id
    BY <1>2, <1>3
  <2> QED BY <1>4, <2>1, <2>2 DEF LastAsked
<1>8. ~firstConnect' => \A f \in subs' : asked'[f] # 0
  BY <1>2, <1>3, <1>6 DEF Known
<1>9. \A q \in requests : (Answered(q)' => Answered(q)) /\ (Dealt(q)' => Dealt(q))
  BY <1>3, <1>4 DEF Answered, Dealt, LastAsked
<1>10. \A q \in requests', f \in subs' :
          q.type = "UNSUBSCRIBE" /\ f \in Elements(q.list) /\ (Answered(q)' \/ Dealt(q)') => asked'[f] > q.id
  <2>1. \A q \in requests, f \in subs :
           q.type = "UNSUBSCRIBE" /\ f \in Elements(q.list) /\ (Answered(q)' \/ Dealt(q)') => asked[f] > q.id
    BY <1>9 DEF Known
  <2>2. \A q \in requests' : q.type = "UNSUBSCRIBE" => q \in requests
    BY <1>1, <1>3
  <2> QED BY <1>2, <1>3, <1>5, <1>6, <2>1, <2>2
<1> QED BY <1>7, <1>8, <1>10 DEF Known

LEMMA UnsubscribeKeepsKnown ==
    ASSUME ChannelInv, Known, NEW list \in Lists, Unsubscribe(list) PROVE Known'
<1>1. PICK r \in RequestOp, m \in BrokerMsg : Asks(r, m) /\ r.type = "UNSUBSCRIBE" /\ r.list = list
  BY UnsubscribeAsks DEF ChannelInv
<1>2. /\ requests' = requests \cup {r} /\ r.id = sends + 1 /\ m.id = sends + 1 /\ m.type = "UNSUBSCRIBE" /\ ~m.taken
      /\ UNCHANGED <<subs, firstConnect, toClient, asked>> /\ sends \in Nat
  BY <1>1 DEF Asks, Unsubscribe, ChannelInv, TypeInv
<1>3. PICK n : LastAsked(m, n)
  BY <1>1, AskedLast DEF Asks, ChannelInv
<1>4. \A q \in requests' : (Answered(q)' => Answered(q)) /\ (Dealt(q)' => Dealt(q))
  BY <1>2, <1>3 DEF Answered, Dealt, LastAsked
<1>5. ~Answered(r) /\ ~Dealt(r)
  BY <1>2 DEF Answered, Dealt, ChannelInv, Numbered
<1>6. \A i \in DOMAIN toBroker', f \in Filters :
          toBroker'[i].type = "SUBSCRIBE" /\ f \in Elements(toBroker'[i].list) => asked'[f] >= toBroker'[i].id
  BY <1>2, <1>3 DEF Known, LastAsked
<1> QED BY <1>2, <1>4, <1>5, <1>6 DEF Known

LEMMA TakesKeepsKnown ==
    ASSUME ChannelInv, Known, BrokerTakes PROVE Known'
<1> DEFINE m == Head(toBroker)
<1>2. PICK g : /\ g \in IF m.type = "SUBSCRIBE" THEN [DOMAIN m.list -> BOOLEAN] ELSE {<<>>}
               /\ toBroker' = Grant(g)
               /\ subs' = IF m.type = "SUBSCRIBE"
                          THEN subs \cup {m.list[i] : i \in {j \in DOMAIN m.list : g[j]}}
                          ELSE subs \ Elements(m.list)
  BY DEF BrokerTakes, Grant
<1>3. toBroker # <<>> /\ m \in BrokerMsg /\ 1 \in DOMAIN toBroker /\ toBroker[1] = m
  BY TailFacts DEF BrokerTakes, ChannelInv, TypeInv
<1> HIDE DEF m
<1>4. /\ DOMAIN toBroker' = DOMAIN toBroker
      /\ \A i \in DOMAIN toBroker :
            /\ toBroker'[i].id = toBroker[i].id /\ toBroker'[i].type = toBroker[i].type
            /\ toBroker'[i].list = toBroker[i].list
            /\ i # 1 => toBroker'[i] = toBroker[i]
  <2>1. TypeInv /\ g \in Grants
    BY <1>2, <1>3, GrantsOf DEF ChannelInv
  <2> QED BY <1>2, <1>3, <2>1, GrantFacts
<1>5. requests' = requests /\ UNCHANGED <<toClient, asked, firstConnect>>
  BY DEF BrokerTakes
<1>6. /\ asked \in [Filters -> Nat] /\ subs \subseteq Filters /\ m.list \in Lists /\ Elements(m.list) \subseteq Filters
      /\ m.id \in Nat /\ m.id # 0 /\ \A r \in requests : r.id \in Nat
  <2>1. m.list \in Lists /\ Elements(m.list) \subseteq Filters
    BY <1>3, ListFacts DEF BrokerMsg
  <2>2. m.id \in 1..sends /\ sends \in Nat /\ \A r \in requests : r.id \in 1..sends
    BY <1>3 DEF ChannelInv, Numbered, TypeInv
  <2> QED BY <2>1, <2>2 DEF ChannelInv, TypeInv
<1>7. \A f \in subs' : f \in subs \/ (m.type = "SUBSCRIBE" /\ f \in Elements(m.list) /\ f \in Filters /\ asked[f] >= m.id)
  <2>1. ASSUME m.type = "SUBSCRIBE" PROVE \A f \in Elements(m.list) : f \in Filters /\ asked[f] >= m.id
    BY <1>3, <1>6, <2>1 DEF Known
  <2>2. {m.list[i] : i \in {j \in DOMAIN m.list : g[j]}} \subseteq Elements(m.list)
    BY DEF Elements
  <2> QED BY <1>2, <2>1, <2>2
<1>8. \A r \in requests : Dealt(r)' => r.id = m.id /\ r.type = m.type /\ r.list = m.list
  <2>1. ASSUME NEW r \in requests, Dealt(r)' PROVE r.id = m.id /\ r.type = m.type /\ r.list = m.list
    <3>1. PICK i \in DOMAIN toBroker' : toBroker'[i].id = r.id /\ toBroker'[i].taken
      BY <2>1 DEF Dealt
    <3>2. i = 1
      BY <1>4, <3>1 DEF ChannelInv, InTurn
    <3>3. r.id = m.id
      BY <1>3, <1>4, <3>1, <3>2
    <3> QED BY <1>3, <3>3 DEF ChannelInv, Pending
  <2> QED BY <2>1
<1>9. \A r \in requests : (Answered(r)' => Answered(r)) /\ (Answered(r) => r.id < m.id)
  BY <1>3, <1>5 DEF Answered, ChannelInv, InTurn
<1>10. ~firstConnect' => \A f \in subs' : asked'[f] # 0
  BY <1>5, <1>6, <1>7 DEF Known
<1>11. ASSUME NEW r \in requests, NEW f \in subs', r.type = "UNSUBSCRIBE", f \in Elements(r.list),
              Answered(r)' \/ Dealt(r)'
       PROVE  asked[f] > r.id
  <2>1. CASE Answered(r)'
    <3>1. Answered(r) /\ r.id < m.id
      BY <1>9, <2>1
    <3>2. CASE f \in subs
      BY <1>11, <3>1, <3>2 DEF Known
    <3>3. CASE f \in Filters /\ asked[f] >= m.id
      BY <1>6, <3>1, <3>3
    <3> QED BY <1>7, <3>2, <3>3
  <2>2. CASE Dealt(r)'
    BY <1>2, <1>8, <1>11, <2>2
  <2> QED BY <1>11, <2>1, <2>2
<1> QED BY <1>4, <1>5, <1>10, <1>11 DEF Known

LEMMA AnswersKeepsKnown ==
    ASSUME ChannelInv, Known, BrokerAnswers PROVE Known'
<1>1. PICK m \in BrokerMsg, a \in ClientMsg, n \in Nat :
              /\ 1 \in DOMAIN toBroker /\ toBroker[1] = m /\ m.taken
              /\ \A i \in DOMAIN toBroker' : i \in Nat /\ i >= 1 /\ i + 1 \in DOMAIN toBroker /\ toBroker'[i] = toBroker[i + 1]
              /\ \A i \in DOMAIN toBroker : i \in Nat /\ (i = 1 \/ (i - 1 \in DOMAIN toBroker' /\ toBroker'[i - 1] = toBroker[i]))
              /\ IsAnswer(a) /\ a.id = m.id /\ (a.type = "SUBACK" <=> m.type = "SUBSCRIBE")
              /\ LastSent(a, n)
  BY AnswerFromHead DEF ChannelInv
<1>2. requests' = requests /\ UNCHANGED <<asked, subs, firstConnect>>
  BY DEF BrokerAnswers
<1>3. \A r \in requests : Answered(r)' => Answered(r) \/ Dealt(r)
  BY <1>1 DEF Answered, Dealt, LastSent
<1>4. \A r \in requests : Dealt(r)' => Dealt(r)
  BY <1>1 DEF Dealt
<1>5. \A i \in DOMAIN toBroker', f \in Filters :
          toBroker'[i].type = "SUBSCRIBE" /\ f \in Elements(toBroker'[i].list) => asked'[f] >= toBroker'[i].id
  BY <1>1, <1>2 DEF Known
<1> QED BY <1>2, <1>3, <1>4, <1>5 DEF Known

LEMMA PublishesKeepsKnown ==
    ASSUME ChannelInv, Known, NEW topic \in PubTopics, BrokerPublishes(topic) PROVE Known'
<1>1. PICK m \in ClientMsg, n \in Nat : m.type = "PUBLISH" /\ LastSent(m, n)
  BY PublishLast DEF ChannelInv
<1>2. \A r \in requests : Answered(r)' => Answered(r)
  BY <1>1 DEF Answered, LastSent, IsAnswer
<1> QED BY <1>2, KnownKept DEF BrokerPublishes

LEMMA ConnackKeepsKnown ==
    ASSUME ChannelInv, Known, RecvConnack PROVE Known'
<1>1. Msg.type = "CONNACK" /\ 1 \in DOMAIN toClient /\ toClient[1] = Msg
  BY ReceivedFacts DEF RecvConnack, ChannelInv
<1>2. requests' = {} /\ toBroker' = <<>> /\ (Msg.present => ~firstConnect) /\ (~Msg.present => subs = {})
  BY <1>1 DEF ChannelInv, Connections, RecvConnack
<1>3. \A f \in subs' : asked'[f] # 0
  BY <1>2 DEF RecvConnack, Known
<1> QED BY <1>2, <1>3, EmptyKnown

LEMMA KnownStep ==
    ASSUME ChannelInv, Known, Next PROVE Known'
<1>1. TypeInv
  BY DEF ChannelInv
<1>2. ASSUME NEW clean \in BOOLEAN, Connect(clean) PROVE Known'
  <2>1. ~connected /\ toBroker' = <<>> /\ subs' \subseteq subs /\ UNCHANGED <<requests, asked, firstConnect>>
    BY <1>2 DEF Connect, MayConnect
  <2>2. requests' = {}
    BY <2>1 DEF ChannelInv, Connections
  <2> QED BY <2>1, <2>2, EmptyKnown DEF Known
<1>3. ASSUME SessionLost, subs' = subs PROVE Known'
  BY <1>3, EmptyKnown DEF SessionLost, Known
<1>4. ASSUME Consumes, UNCHANGED <<asked, subs, firstConnect>> PROVE Known'
  BY <1>1, <1>4, ConsumesAnswered, KnownKept DEF Consumes
<1>5. CASE RecvSuback
  <2>1. CASE SubackIgnored \/ \E r \in requests : SubackStored(r)
    BY <1>1, <1>4, <1>5, <2>1, SubackConsumes DEF SubackIgnored, SubackStored
  <2>2. CASE \E r \in requests : SubackFull(r)
    BY <1>3, <2>2 DEF SubackFull
  <2> QED BY <1>1, <1>5, <2>1, <2>2, SubackCases
<1>6. CASE RecvPublish
  BY <1>1, <1>3, <1>4, <1>6, PublishCases, ReportedConsumes DEF Reported, Rejected
<1>7. ASSUME NEW r \in requests, RequestTimeout(r) PROVE Known'
  BY <1>7, KnownKept DEF RequestTimeout, Answered
<1>8. CASE ConnectionBreaks
  BY <1>3, <1>8 DEF ConnectionBreaks
<1> QED BY <1>2, <1>5, <1>6, <1>7, <1>8, UnsubackKeepsKnown, SubscribeKeepsKnown, UnsubscribeKeepsKnown,
           TakesKeepsKnown, AnswersKeepsKnown, PublishesKeepsKnown, ConnackKeepsKnown DEF Next

-----------------------------------------------------------------------------
\* The messages that the broker owes to the client.

\* Where the channel loses its first message, the filters that account for the
\* others still do.
LEMMA ConsumesDue ==
    ASSUME TypeInv, Due, Consumes,
           \A f \in Filters, i \in DOMAIN toClient : i > 1 /\ Accounts(f, i) => asked'[f] = asked[f]
    PROVE  Due'
<1>1. SUFFICES ASSUME NEW i \in DOMAIN toClient', IsDue(toClient'[i])
               PROVE  \E f \in Filters : Accounts(f, i)'
  BY DEF Due
<1>2. /\ \A k \in DOMAIN toClient' : k \in Nat /\ k >= 1 /\ k + 1 \in DOMAIN toClient /\ toClient'[k] = toClient[k + 1]
      /\ requests' \subseteq requests
  BY ConsumedFacts DEF Consumes
<1>3. PICK j : j = i + 1
  OBVIOUS
<1>4. j \in DOMAIN toClient /\ toClient'[i] = toClient[j] /\ j > 1
  BY <1>2, <1>3
<1>5. PICK f \in Filters : Accounts(f, j)
  BY <1>1, <1>4 DEF Due
<1>6. asked'[f] = asked[f]
  BY <1>4, <1>5
<1>7. \A r \in requests' : EndsBefore(r, i)' => EndsBefore(r, j)
  BY <1>2, <1>3 DEF EndsBefore
<1>8. Accounts(f, i)'
  BY <1>2, <1>4, <1>5, <1>6, <1>7 DEF Accounts
<1> QED BY <1>8

\* Where nothing before a message changes, neither does what accounts for it.
LEMMA KeepsAccount ==
    ASSUME NEW f \in Filters, NEW i \in DOMAIN toClient, Accounts(f, i),
           toClient'[i] = toClient[i], asked' = asked, requests' \subseteq requests,
           \A r \in requests' : EndsBefore(r, i)' => EndsBefore(r, i)
    PROVE  Accounts(f, i)'
  BY DEF Accounts

LEMMA EmptyDue ==
    ASSUME \A i \in DOMAIN toClient' : ~IsDue(toClient'[i]) PROVE Due'
  BY DEF Due

LEMMA UnsubackKeepsDue ==
    ASSUME ChannelInv, Due, RecvUnsuback PROVE Due'
<1>1. /\ toClient # <<>> /\ IsAnswer(Msg) /\ Msg.id \in Nat
      /\ \A f \in Filters : asked'[f] = asked[f] \/ (f \in Ended /\ asked[f] < Msg.id)
      /\ \A f \in Ended : \E r \in requests :
            r.type = "UNSUBSCRIBE" /\ r.id = Msg.id /\ Answered(r) /\ f \in Elements(r.list)
  BY UnsubackEnds
<1>2. Consumes /\ TypeInv
  BY UnsubackConsumes DEF ChannelInv
<1>3. 1 \in DOMAIN toClient /\ toClient[1] = Msg
  BY <1>2, ConsumedFacts
<1>4. ASSUME NEW f \in Filters, NEW i \in DOMAIN toClient, i > 1, Accounts(f, i)
      PROVE  asked'[f] = asked[f]
  <2>1. SUFFICES ASSUME f \in Ended, asked[f] < Msg.id PROVE FALSE
    BY <1>1
  <2>2. PICK r \in requests : r.type = "UNSUBSCRIBE" /\ r.id = Msg.id /\ f \in Elements(r.list)
    BY <1>1, <2>1
  <2>3. EndsBefore(r, i)
    BY <1>1, <1>3, <1>4, <2>2 DEF EndsBefore
  <2>4. asked[f] > Msg.id
    BY <1>4, <2>2, <2>3 DEF Accounts
  <2>5. asked[f] \in Nat
    BY <1>2 DEF TypeInv
  <2> QED BY <1>1, <2>1, <2>4, <2>5
<1> QED BY <1>2, <1>4, ConsumesDue

LEMMA SubscribeKeepsDue ==
    ASSUME ChannelInv, Due, NEW list \in Lists, Subscribe(list) PROVE Due'
<1>1. PICK r \in RequestOp, m \in BrokerMsg : Asks(r, m) /\ r.type = "SUBSCRIBE"
  BY SubscribeAsks DEF ChannelInv
<1>2. requests' = requests \cup {r} /\ toClient' = toClient
  BY <1>1 DEF Asks
<1>3. /\ sends \in Nat
      /\ \A f \in Filters : asked'[f] \in Nat /\ (asked'[f] = asked[f] \/ asked'[f] = sends + 1)
  BY SubscribeRaises DEF ChannelInv
<1>4. \A q \in requests : q.id \in 1..sends
  BY DEF ChannelInv, Numbered
<1>5. ASSUME NEW i \in DOMAIN toClient, NEW f \in Filters, Accounts(f, i) PROVE Accounts(f, i)'
  <2>1. asked[f] \in Nat
    BY DEF ChannelInv, TypeInv
  <2>2. asked'[f] # 0
    BY <1>3, <1>5 DEF Accounts
  <2>3. \A q \in requests : asked[f] > q.id => asked'[f] > q.id
    BY <1>3, <1>4, <2>1
  <2>4. \A q \in requests' : q.type = "UNSUBSCRIBE" => q \in requests
    BY <1>1, <1>2
  <2>5. \A q : EndsBefore(q, i)' = EndsBefore(q, i)
    BY <1>2 DEF EndsBefore
  <2> QED BY <1>2, <1>5, <2>2, <2>3, <2>4, <2>5 DEF Accounts
<1> QED BY <1>2, <1>5 DEF Due

LEMMA UnsubscribeKeepsDue ==
    ASSUME ChannelInv, Due, NEW list \in Lists, Unsubscribe(list) PROVE Due'
<1>1. PICK r \in RequestOp, m \in BrokerMsg : Asks(r, m)
  BY UnsubscribeAsks DEF ChannelInv
<1>2. requests' = requests \cup {r} /\ toClient' = toClient /\ asked' = asked /\ r.id = sends + 1
  BY <1>1 DEF Asks, Unsubscribe
<1>3. \A i \in DOMAIN toClient : IsAnswer(toClient[i]) => toClient[i].id # r.id
  BY <1>2 DEF ChannelInv, Numbered, TypeInv
<1>4. \A q, i : EndsBefore(q, i)' = EndsBefore(q, i)
  BY <1>2 DEF EndsBefore
<1>5. \A i : ~EndsBefore(r, i)
  BY <1>3 DEF EndsBefore
<1>6. ASSUME NEW i \in DOMAIN toClient, NEW f \in Filters, Accounts(f, i) PROVE Accounts(f, i)'
  BY <1>2, <1>4, <1>5, <1>6 DEF Accounts
<1> QED BY <1>2, <1>6 DEF Due

LEMMA ConnackKeepsDue ==
    ASSUME ChannelInv, Due, RecvConnack PROVE Due'
<1>1. Msg.type = "CONNACK" /\ toClient # <<>> /\ 1 \in DOMAIN toClient /\ toClient[1] = Msg
  BY ReceivedFacts DEF RecvConnack, ChannelInv
<1>2. Consumes /\ TypeInv
  BY <1>1 DEF RecvConnack, Consumes, IsAnswer, ChannelInv
<1>3. CASE Msg.present
  <2>1. asked' = asked
    BY <1>3 DEF RecvConnack
  <2> QED BY <1>2, <2>1, ConsumesDue
<1>4. CASE ~Msg.present
  <2>1. \A k \in DOMAIN toClient : ~IsDue(toClient[k])
    BY <1>1, <1>4 DEF ChannelInv, Connections
  <2>2. \A i \in DOMAIN toClient' : ~IsDue(toClient'[i])
    BY <1>2, <2>1, ConsumedFacts
  <2> QED BY <2>2, EmptyDue
<1> QED BY <1>3, <1>4

LEMMA AnswersKeepsDue ==
    ASSUME ChannelInv, Due, BrokerAnswers PROVE Due'
<1>1. PICK m \in BrokerMsg, a \in ClientMsg, n \in Nat : IsAnswer(a) /\ LastSent(a, n)
  BY AnswerFromHead DEF ChannelInv
<1>2. requests' = requests /\ asked' = asked
  BY DEF BrokerAnswers
<1>3. ~IsDue(a)
  BY <1>1 DEF IsAnswer, IsDue
<1>4. ASSUME NEW i \in DOMAIN toClient, IsDue(toClient[i]) PROVE \E f \in Filters : Accounts(f, i)'
  <2>1. toClient'[i] = toClient[i] /\ i \in Nat /\ i < n
    BY <1>1 DEF LastSent
  <2>2. \A r \in requests : EndsBefore(r, i)' => EndsBefore(r, i)
    BY <1>1, <2>1 DEF EndsBefore, LastSent
  <2> QED BY <1>2, <1>4, <2>1, <2>2, KeepsAccount DEF Due
<1> QED BY <1>1, <1>3, <1>4 DEF Due, LastSent

LEMMA PublishesKeepsDue ==
    ASSUME ChannelInv, Known, Due, NEW topic \in PubTopics, BrokerPublishes(topic) PROVE Due'
<1>1. PICK m \in ClientMsg, n \in Nat :
              /\ m.type = "PUBLISH" /\ m.topic = topic /\ (m.due <=> \E f \in subs : Matches(f, topic))
              /\ LastSent(m, n)
  BY PublishLast DEF ChannelInv
<1>2. requests' = requests /\ asked' = asked
  BY DEF BrokerPublishes
<1>3. ~IsAnswer(m)
  BY <1>1 DEF IsAnswer
<1>4. ASSUME NEW i \in DOMAIN toClient, IsDue(toClient[i]) PROVE \E f \in Filters : Accounts(f, i)'
  <2>1. toClient'[i] = toClient[i] /\ i \in Nat /\ i < n
    BY <1>1 DEF LastSent
  <2>2. \A r \in requests : EndsBefore(r, i)' => EndsBefore(r, i)
    BY <1>1, <2>1 DEF EndsBefore, LastSent
  <2> QED BY <1>2, <1>4, <2>1, <2>2, KeepsAccount DEF Due
<1>5. ASSUME IsDue(m) PROVE \E f \in Filters : Accounts(f, n)'
  <2>1. PICK f \in subs : Matches(f, topic)
    BY <1>1, <1>5 DEF IsDue
  <2>2. ~firstConnect
    BY DEF BrokerPublishes, BrokerUp, ChannelInv, Connections
  <2>3. asked[f] # 0 /\ f \in Filters
    BY <2>2 DEF Known, ChannelInv, TypeInv
  <2>4. \A r \in requests : EndsBefore(r, n)' => Answered(r)
    BY <1>1, <1>3 DEF EndsBefore, Answered, LastSent
  <2>5. \A r \in requests : r.type = "UNSUBSCRIBE" /\ f \in Elements(r.list) /\ EndsBefore(r, n)' => asked[f] > r.id
    BY <2>4 DEF Known
  <2>6. toClient'[n].topic = topic
    BY <1>1 DEF LastSent
  <2>7. Accounts(f, n)'
    BY <1>2, <2>1, <2>3, <2>5, <2>6 DEF Accounts
  <2> QED BY <2>3, <2>7
<1> QED BY <1>1, <1>4, <1>5 DEF Due, LastSent

LEMMA DueStep ==
    ASSUME ChannelInv, Known, Due, Next PROVE Due'
<1>1. TypeInv
  BY DEF ChannelInv
<1>2. ASSUME NEW clean \in BOOLEAN, Connect(clean) PROVE Due'
  <2>1. PICK present : toClient' = <<[type |-> "CONNACK", present |-> present]>>
    BY <1>2 DEF Connect
  <2>2. \A i \in DOMAIN toClient' : toClient'[i].type = "CONNACK"
    BY <2>1
  <2> QED BY <2>2, EmptyDue DEF IsDue
<1>3. ASSUME SessionLost PROVE Due'
  <2>1. DOMAIN toClient' = {}
    BY <1>3 DEF SessionLost
  <2> QED BY <2>1, EmptyDue
<1>4. ASSUME Consumes, asked' = asked PROVE Due'
  BY <1>1, <1>4, ConsumesDue
<1>5. ASSUME toClient' = toClient, asked' = asked, requests' \subseteq requests PROVE Due'
  <2>1. \A r, i : EndsBefore(r, i)' = EndsBefore(r, i)
    BY <1>5 DEF EndsBefore
  <2> QED BY <1>5, <2>1, KeepsAccount DEF Due
<1>6. CASE RecvSuback
  <2>1. CASE SubackIgnored \/ \E r \in requests : SubackStored(r)
    BY <1>1, <1>4, <1>6, <2>1, SubackConsumes DEF SubackIgnored, SubackStored
  <2>2. CASE \E r \in requests : SubackFull(r)
    BY <1>3, <2>2 DEF SubackFull
  <2> QED BY <1>1, <1>6, <2>1, <2>2, SubackCases
<1>7. CASE RecvPublish
  BY <1>1, <1>3, <1>4, <1>7, PublishCases, ReportedConsumes DEF Reported, Rejected
<1>8. ASSUME NEW r \in requests, RequestTimeout(r) PROVE Due'
  BY <1>5, <1>8 DEF RequestTimeout
<1>9. CASE ConnectionBreaks
  BY <1>3, <1>9 DEF ConnectionBreaks
<1>10. CASE BrokerTakes
  BY <1>5, <1>10 DEF BrokerTakes
<1> QED BY <1>2, <1>6, <1>7, <1>8, <1>9, <1>10, UnsubackKeepsDue, SubscribeKeepsDue, UnsubscribeKeepsDue,
           AnswersKeepsDue, PublishesKeepsDue, ConnackKeepsDue DEF Next

-----------------------------------------------------------------------------
\* isTopicMatch and the standard.

LEMMA AfterFacts ==
    ASSUME NEW X, NEW s \in Seq(X), s # <<>>, NEW n \in Nat
    PROVE  /\ n >= Len(s) => After(s, n) = EmptyString
           /\ n < Len(s) => /\ After(s, n) \in Seq(X) /\ Len(After(s, n)) = Len(s) - n
                            /\ \A i \in 1..(Len(s) - n) : After(s, n)[i] = s[n + i]
<1>1. Len(s) \in Nat /\ Len(s) # 0
  BY EmptySeq, LenProperties
<1>2. CASE n >= Len(s)
  BY <1>1, <1>2 DEF After
<1>3. CASE n < Len(s)
  <2>1. After(s, n) = SubSeq(s, n + 1, Len(s))
    BY <1>3 DEF After
  <2>2. /\ SubSeq(s, n + 1, Len(s)) \in Seq(X)
        /\ Len(SubSeq(s, n + 1, Len(s))) = Len(s) - n
        /\ \A i \in 1..(Len(s) - n) : SubSeq(s, n + 1, Len(s))[i] = s[n + i]
    <3>1. n + 1 \in 1..(Len(s) + 1) /\ Len(s) \in n..Len(s)
      BY <1>1, <1>3
    <3> QED BY <1>1, <1>3, <3>1, SubSeqProperties
  <2> QED BY <1>1, <1>3, <2>1, <2>2
<1> QED BY <1>1, <1>2, <1>3

LEMMA LevelsDiffer == Plus # Hash /\ Plus # Blank /\ Hash # Blank
  BY DEF Plus, Hash, Blank

\* A string of one level.
LEMMA OneLevel ==
    ASSUME NEW X, NEW s \in Seq(X), NEW c
    PROVE  s = <<c>> <=> Len(s) = 1 /\ s[1] = c
  OBVIOUS

LEMMA OneLevelHead ==
    ASSUME NEW c PROVE Len(<<c>>) = 1 /\ Head(<<c>>) = c
  OBVIOUS

LEMMA SpecialStrings ==
    /\ Len(EmptyString) = 1 /\ Head(EmptyString) = Blank /\ EmptyString # MultiLevel
<1>1. Len(EmptyString) = 1 /\ Head(EmptyString) = Blank
  BY OneLevelHead DEF EmptyString
<1>2. Head(MultiLevel) = Hash
  BY OneLevelHead DEF MultiLevel
<1>3. Blank # Hash
  BY LevelsDiffer
<1>4. EmptyString # MultiLevel
  BY <1>1, <1>2, <1>3, Zenon
<1> QED BY <1>1, <1>4

LEMMA IsSpecial ==
    ASSUME NEW X, NEW s \in Seq(X)
    PROVE  /\ s = EmptyString <=> Len(s) = 1 /\ s[1] = Blank
           /\ s = MultiLevel <=> Len(s) = 1 /\ s[1] = Hash
  BY OneLevel DEF EmptyString, MultiLevel

\* What the cases of isTopicMatch look at.
LEMMA AfterCases ==
    ASSUME NEW X, NEW s \in Seq(X), s # <<>>, NEW n \in Nat
    PROVE  /\ Len(s) \in Nat /\ Len(s) >= 1
           /\ n < Len(s) => Head(After(s, n)) = s[n + 1]
           /\ n >= Len(s) => Head(After(s, n)) = Blank
           /\ HasSeparator(After(s, n)) <=> n + 1 < Len(s)
           /\ After(s, n) = MultiLevel <=> n + 1 = Len(s) /\ s[n + 1] = Hash
           /\ After(s, n) = EmptyString <=> (n + 1 = Len(s) /\ s[n + 1] = Blank) \/ n >= Len(s)
           /\ n + 1 < Len(s) => (Tail(After(s, n)) = EmptyString <=> n + 2 = Len(s) /\ s[n + 2] = Blank)
<1>1. Len(s) \in Nat /\ Len(s) # 0
  BY EmptySeq, LenProperties
<1>2. CASE n >= Len(s)
  <2>1. After(s, n) = EmptyString
    BY <1>2, AfterFacts
  <2>2. ~HasSeparator(After(s, n)) /\ Head(After(s, n)) = Blank /\ After(s, n) # MultiLevel
    BY <2>1, SpecialStrings DEF HasSeparator
  <2> QED BY <1>1, <1>2, <2>1, <2>2
<1>3. CASE n < Len(s)
  <2>1. PICK a : a = After(s, n)
    OBVIOUS
  <2>2. a \in Seq(X) /\ Len(a) = Len(s) - n /\ \A i \in 1..(Len(s) - n) : a[i] = s[n + i]
    BY <1>3, <2>1, AfterFacts
  <2>3. a[1] = s[n + 1] /\ Head(a) = a[1]
    BY <1>1, <1>3, <2>2
  <2>4. HasSeparator(a) <=> n + 1 < Len(s)
    BY <1>1, <1>3, <2>2 DEF HasSeparator
  <2>5. Len(a) = 1 <=> n + 1 = Len(s)
    BY <1>1, <1>3, <2>2
  <2>6. /\ a = EmptyString <=> Len(a) = 1 /\ a[1] = Blank
        /\ a = MultiLevel <=> Len(a) = 1 /\ a[1] = Hash
    BY <2>2, IsSpecial
  <2>7. ASSUME n + 1 < Len(s) PROVE Tail(a) = EmptyString <=> n + 2 = Len(s) /\ s[n + 2] = Blank
    <3>1. PICK b : b = Tail(a)
      OBVIOUS
    <3>2. b \in Seq(X) /\ Len(b) = Len(s) - n - 1 /\ b[1] = s[n + 2]
      BY <1>1, <2>2, <2>7, <3>1
    <3>3. Len(b) = 1 <=> n + 2 = Len(s)
      BY <1>1, <3>2
    <3>4. b = EmptyString <=> Len(b) = 1 /\ b[1] = Blank
      BY <3>2, IsSpecial
    <3> QED BY <3>1, <3>2, <3>3, <3>4
  <2>8. ~(n >= Len(s))
    BY <1>1, <1>3
  <2> QED BY <1>1, <1>3, <2>1, <2>3, <2>4, <2>5, <2>6, <2>7, <2>8
<1> QED BY <1>1, <1>2, <1>3

\* What the call after n separators returns, without recursion.
SameFrom(f, t, n, k) == \A i \in (n + 1)..k : f[i] = Plus \/ f[i] = t[i]
Suffix(f, t, n) ==
    IF f[Len(f)] = Hash THEN Len(t) >= Len(f) - 1 /\ SameFrom(f, t, n, Len(f) - 1)
    ELSE Len(t) = Len(f) /\ SameFrom(f, t, n, Len(f))
MatchAfter(f, t, n) ==
    IF n = Len(t) THEN Len(f) <= n \/ (Len(f) = n + 1 /\ (f[n + 1] = Hash \/ f[n + 1] = Blank))
    ELSE IF n >= Len(f) THEN n + 1 = Len(t) /\ t[n + 1] = Blank
    ELSE Suffix(f, t, n) /\ ~EmptyLevelMissed(f, t)

\* One level more.
LEMMA SameFromStep ==
    ASSUME NEW f, NEW t, NEW n \in Nat, NEW k \in Nat, n + 1 <= k
    PROVE  SameFrom(f, t, n, k) <=> LevelMatches(f[n + 1], t[n + 1]) /\ SameFrom(f, t, n + 1, k)
<1>1. \A i \in (n + 1)..k : i = n + 1 \/ i \in (n + 2)..k
  OBVIOUS
<1>2. n + 1 \in (n + 1)..k /\ (n + 2)..k \subseteq (n + 1)..k /\ (n + 1) + 1 = n + 2
  OBVIOUS
<1> QED BY <1>1, <1>2 DEF SameFrom, LevelMatches

LEMMA SameFromNone ==
    ASSUME NEW f, NEW t, NEW n \in Nat, NEW k \in Int, k <= n
    PROVE  SameFrom(f, t, n, k)
  BY DEF SameFrom

LEMMA MatchAfterStep ==
    ASSUME NEW X, NEW f \in Seq(X), f # <<>>, NEW t \in Seq(X), t # <<>>, NEW n \in 0..Len(t)
    PROVE  MatchLevels(After(f, n), After(t, n), MatchAfter(f, t, n + 1)) <=> MatchAfter(f, t, n)
<1> DEFINE a == After(f, n)
           b == After(t, n)
           rest == MatchAfter(f, t, n + 1)
<1>0. PICK F, L : F = Len(f) /\ L = Len(t)
  OBVIOUS
<1>1. /\ F \in Nat /\ F >= 1 /\ L \in Nat /\ L >= 1 /\ n \in Nat /\ n <= L
      /\ F = Len(f) /\ L = Len(t)
  BY <1>0, EmptySeq, LenProperties
<1>2. /\ n < F => Head(a) = f[n + 1]
      /\ n >= F => Head(a) = Blank
      /\ HasSeparator(a) <=> n + 1 < F
      /\ a = MultiLevel <=> n + 1 = F /\ f[n + 1] = Hash
      /\ a = EmptyString <=> (n + 1 = F /\ f[n + 1] = Blank) \/ n >= F
      /\ n + 1 < F => (Tail(a) = EmptyString <=> n + 2 = F /\ f[n + 2] = Blank)
  BY <1>1, AfterCases
<1>3. /\ n < L => Head(b) = t[n + 1]
      /\ HasSeparator(b) <=> n + 1 < L
      /\ b = EmptyString <=> (n + 1 = L /\ t[n + 1] = Blank) \/ n >= L
  BY <1>1, AfterCases
<1> HIDE DEF a, b
<1>4. CASE a = MultiLevel
  <2>1. MatchLevels(a, b, rest)
    BY <1>4 DEF MatchLevels
  <2>2. n + 1 = F /\ f[F] = Hash
    BY <1>2, <1>4
  <2>3. CASE n = L
    <3>1. MatchAfter(f, t, n)
      BY <1>1, <2>2, <2>3 DEF MatchAfter
    <3> QED BY <2>1, <3>1 DEF a, b
  <2>4. CASE n < L
    <3>1. Suffix(f, t, n)
      BY <1>1, <2>2, <2>4, SameFromNone DEF Suffix
    <3>2. ~EmptyLevelMissed(f, t)
      BY <1>1, <2>2, <2>4, LevelsDiffer DEF EmptyLevelMissed
    <3>3. MatchAfter(f, t, n)
      BY <1>1, <2>2, <2>4, <3>1, <3>2 DEF MatchAfter
    <3> QED BY <2>1, <3>3 DEF a, b
  <2> QED BY <1>1, <2>3, <2>4
<1>5. CASE a # MultiLevel /\ b = EmptyString
  <2>1. ~HasSeparator(b)
    BY <1>1, <1>3, <1>5
  <2>2. MatchLevels(a, b, rest) <=> (a = EmptyString)
    BY <1>5, <2>1 DEF MatchLevels
  <2>3. CASE n = L
    <3>1. MatchAfter(f, t, n) <=> (F <= n \/ (F = n + 1 /\ (f[n + 1] = Hash \/ f[n + 1] = Blank)))
      BY <1>1, <2>3 DEF MatchAfter
    <3> QED BY <1>1, <1>2, <1>5, <2>2, <3>1 DEF a, b
  <2>4. CASE n < L
    <3>1. n + 1 = L /\ t[L] = Blank
      BY <1>1, <1>3, <1>5, <2>4
    <3>2. CASE n >= F
      <4>1. MatchAfter(f, t, n)
        BY <1>1, <2>4, <3>1, <3>2 DEF MatchAfter
      <4> QED BY <1>2, <2>2, <3>2, <4>1 DEF a, b
    <3>3. CASE n < F
      <4>1. MatchAfter(f, t, n) <=> (Suffix(f, t, n) /\ ~EmptyLevelMissed(f, t))
        BY <1>1, <2>4, <3>3 DEF MatchAfter
      <4>2. ASSUME a = EmptyString PROVE Suffix(f, t, n) /\ ~EmptyLevelMissed(f, t)
        <5>1. F = L /\ f[F] = Blank /\ n + 1 = F
          BY <1>1, <1>2, <3>1, <3>3, <4>2
        <5>2. SameFrom(f, t, n, F)
          BY <1>1, <3>1, <5>1 DEF SameFrom
        <5> QED BY <1>1, <5>1, <5>2, LevelsDiffer DEF Suffix, EmptyLevelMissed
      <4>3. ASSUME Suffix(f, t, n), ~EmptyLevelMissed(f, t) PROVE a = EmptyString
        <5>1. F # L + 1 /\ (F = L => f[F] # Plus)
          BY <1>1, <3>1, <4>3 DEF EmptyLevelMissed
        <5>2. f[F] # Hash
          BY <1>1, <1>2, <1>5, <3>1, <3>3, <4>3, <5>1 DEF Suffix
        <5>3. F = L /\ SameFrom(f, t, n, F)
          BY <1>1, <4>3, <5>2 DEF Suffix
        <5>4. f[F] = Plus \/ f[F] = t[F]
          BY <1>1, <3>1, <5>3 DEF SameFrom
        <5> QED BY <1>1, <1>2, <3>1, <5>1, <5>3, <5>4
      <4> QED BY <2>2, <4>1, <4>2, <4>3 DEF a, b
    <3> QED BY <1>1, <3>2, <3>3
  <2> QED BY <1>1, <2>3, <2>4
<1>6. CASE a # MultiLevel /\ b # EmptyString /\ HasSeparator(b)
  <2>1. MatchLevels(a, b, rest) <=> (HasSeparator(a) /\ LevelMatches(Head(a), Head(b)) /\ rest)
    BY <1>6 DEF MatchLevels
  <2>2. n + 1 < L
    BY <1>3, <1>6
  <2>3. CASE n + 1 < F
    <3>1. MatchAfter(f, t, n) <=> (Suffix(f, t, n) /\ ~EmptyLevelMissed(f, t))
      BY <1>1, <2>2, <2>3 DEF MatchAfter
    <3>2. rest <=> (Suffix(f, t, n + 1) /\ ~EmptyLevelMissed(f, t))
      BY <1>1, <2>2, <2>3 DEF MatchAfter
    <3>3. Suffix(f, t, n) <=> LevelMatches(f[n + 1], t[n + 1]) /\ Suffix(f, t, n + 1)
      BY <1>1, <2>3, SameFromStep DEF Suffix
    <3> QED BY <1>1, <1>2, <1>3, <2>1, <2>2, <2>3, <3>1, <3>2, <3>3 DEF a, b
  <2>4. CASE ~(n + 1 < F)
    <3>1. ~MatchLevels(a, b, rest)
      BY <1>2, <2>1, <2>4
    <3>2. ~MatchAfter(f, t, n)
      BY <1>1, <1>2, <1>6, <2>2, <2>4 DEF MatchAfter, Suffix
    <3> QED BY <3>1, <3>2 DEF a, b
  <2> QED BY <2>3, <2>4
<1>7. CASE a # MultiLevel /\ b # EmptyString /\ ~HasSeparator(b)
  <2>1. n + 1 = L /\ t[L] # Blank
    BY <1>1, <1>3, <1>7
  <2>2. ~EmptyLevelMissed(f, t)
    BY <1>1, <2>1 DEF EmptyLevelMissed
  <2>3. CASE n + 1 < F
    <3>1. MatchLevels(a, b, rest) <=> (Tail(a) # EmptyString /\ LevelMatches(Head(a), Head(b)) /\ rest)
      BY <1>2, <1>7, <2>3 DEF MatchLevels
    <3>2. rest <=> F = L + 1 /\ (f[F] = Hash \/ f[F] = Blank)
      BY <1>1, <2>1, <2>3 DEF MatchAfter
    <3>3. MatchAfter(f, t, n) <=> Suffix(f, t, n)
      BY <1>1, <2>1, <2>2, <2>3 DEF MatchAfter
    <3>4. Tail(a) # EmptyString /\ rest <=> F = L + 1 /\ f[F] = Hash
      BY <1>1, <1>2, <2>1, <2>3, <3>2, LevelsDiffer
    <3>5. Suffix(f, t, n) <=> F = L + 1 /\ f[F] = Hash /\ LevelMatches(f[n + 1], t[n + 1])
      <4>1. F = L + 1 => F - 1 = n + 1 /\ F - 1 \in Nat
        BY <1>1, <2>1
      <4>2. SameFrom(f, t, n, n + 1) <=> LevelMatches(f[n + 1], t[n + 1])
        BY <1>1, SameFromStep, SameFromNone
      <4>3. L # F /\ (L >= F - 1 <=> F = L + 1)
        BY <1>1, <2>1, <2>3
      <4> QED BY <1>1, <4>1, <4>2, <4>3 DEF Suffix
    <3>6. Head(a) = f[n + 1] /\ Head(b) = t[n + 1]
      BY <1>1, <1>2, <1>3, <2>1, <2>3
    <3>7. MatchLevels(a, b, rest) <=> MatchAfter(f, t, n)
      BY <3>1, <3>3, <3>4, <3>5, <3>6
    <3> QED BY <3>1, <3>3, <3>7 DEF a, b
  <2>4. CASE ~(n + 1 < F)
    <3>1. MatchLevels(a, b, rest) <=> LevelMatches(Head(a), Head(b))
      BY <1>2, <1>7, <2>4 DEF MatchLevels
    <3>2. CASE n >= F
      <4>1. ~MatchAfter(f, t, n)
        BY <1>1, <2>1, <3>2 DEF MatchAfter
      <4>2. Head(a) = Blank /\ Head(b) = t[L]
        BY <1>1, <1>2, <1>3, <2>1, <3>2
      <4>3. ~LevelMatches(Head(a), Head(b))
        BY <2>1, <4>2, LevelsDiffer DEF LevelMatches
      <4> QED BY <3>1, <4>1, <4>3 DEF a, b
    <3>3. CASE n < F
      <4>1. F = L /\ n + 1 = F /\ f[F] # Hash
        BY <1>1, <1>2, <1>7, <2>1, <2>4, <3>3
      <4>2. MatchAfter(f, t, n) <=> Suffix(f, t, n)
        BY <1>1, <2>1, <2>2, <3>3 DEF MatchAfter
      <4>3. Suffix(f, t, n) <=> LevelMatches(f[n + 1], t[n + 1])
        BY <1>1, <4>1, SameFromStep, SameFromNone DEF Suffix
      <4>4. Head(a) = f[n + 1] /\ Head(b) = t[n + 1]
        BY <1>1, <1>2, <1>3, <2>1, <3>3
      <4> QED BY <3>1, <4>2, <4>3, <4>4 DEF a, b
    <3> QED BY <1>1, <3>2, <3>3
  <2> QED BY <2>3, <2>4
<1> QED BY <1>4, <1>5, <1>6, <1>7

LEMMA MatchBooleans ==
    ASSUME NEW f, NEW t, NEW n
    PROVE  /\ MatchAfter(f, t, n) \in BOOLEAN
           /\ \A a, b : \A rest \in BOOLEAN : MatchLevels(a, b, rest) \in BOOLEAN
<1>1. MatchAfter(f, t, n) \in BOOLEAN
  BY DEF MatchAfter, Suffix, SameFrom, EmptyLevelMissed
<1>2. ASSUME NEW a, NEW b, NEW rest \in BOOLEAN PROVE MatchLevels(a, b, rest) \in BOOLEAN
  BY <1>2 DEF MatchLevels, HasSeparator, LevelMatches
<1> QED BY <1>1, <1>2

\* isTopicMatch, for strings of any length: it is the matching of the standard
\* but for a topic that ends in '/', whose empty last level is matched neither by
\* a last '+' of the filter nor by a level that '#' follows.
THEOREM TopicMatchExact ==
    ASSUME NEW X, NEW f \in Seq(X), f # <<>>, NEW t \in Seq(X), t # <<>>
    PROVE  IsTopicMatch(f, t) <=> Matches(f, t) /\ ~EmptyLevelMissed(f, t)
<1> DEFINE L == Len(t)
           Call(n, rest) == MatchLevels(After(f, n), After(t, n), rest)
<1>1. L \in Nat /\ L >= 1 /\ Len(f) \in Nat /\ Len(f) >= 1
  BY EmptySeq, LenProperties
<1>2. PICK match : /\ IsTopicMatch(f, t) = match[0]
                   /\ match = CHOOSE g : g = [n \in 0..L |-> Call(n, g[n + 1])]
  BY Zenon DEF IsTopicMatch
\* The last call does not recur, the others return what MatchAfter says.
<1>3. ASSUME NEW rest PROVE Call(L, rest) = MatchAfter(f, t, L)
  <2>1. PICK a : a = After(f, L)
    OBVIOUS
  <2>2. After(t, L) = EmptyString
    BY <1>1, AfterFacts
  <2>3. \A r : MatchLevels(a, EmptyString, r) = (a = MultiLevel \/ a = EmptyString)
    <3>1. ~HasSeparator(EmptyString) /\ EmptyString # MultiLevel
      BY SpecialStrings DEF HasSeparator
    <3>2. CASE a = MultiLevel
      BY <3>2 DEF MatchLevels
    <3>3. CASE a # MultiLevel
      BY <3>1, <3>3 DEF MatchLevels
    <3> QED BY <3>2, <3>3
  <2>4. MatchLevels(a, EmptyString, rest) = MatchLevels(a, EmptyString, MatchAfter(f, t, L + 1))
    BY <2>3
  <2>5. MatchLevels(a, EmptyString, MatchAfter(f, t, L + 1)) <=> MatchAfter(f, t, L)
    BY <1>1, <2>1, <2>2, MatchAfterStep
  <2> QED BY <2>1, <2>2, <2>4, <2>5, MatchBooleans
<1>4. ASSUME NEW n \in 0..L PROVE Call(n, MatchAfter(f, t, n + 1)) = MatchAfter(f, t, n)
  BY MatchAfterStep, MatchBooleans
<1> HIDE DEF Call
\* So there is a function that satisfies the recursion, and it is the only one.
<1>5. match = [n \in 0..L |-> Call(n, match[n + 1])]
  <2> DEFINE g == [n \in 0..L |-> MatchAfter(f, t, n)]
  <2>1. ASSUME NEW n \in 0..L PROVE g[n] = Call(n, g[n + 1])
    <3>1. CASE n = L
      BY <1>1, <1>3, <3>1
    <3>2. CASE n # L
      <4>1. n + 1 \in 0..L
        BY <1>1, <3>2
      <4> QED BY <1>4, <4>1
    <3> QED BY <3>1, <3>2
  <2>2. DOMAIN g = 0..L /\ g = [n \in DOMAIN g |-> g[n]]
    OBVIOUS
  <2> HIDE DEF g
  <2>3. g = [n \in 0..L |-> Call(n, g[n + 1])]
    BY <2>1, <2>2
  <2> QED BY <1>2, <2>3, Zenon
<1>6. \A n \in 0..L : match[n] = Call(n, match[n + 1])
  BY <1>5
<1>7. \A n \in 0..L : match[n] = MatchAfter(f, t, n)
  <2> DEFINE T == {k \in 0..L : match[L - k] # MatchAfter(f, t, L - k)}
  <2>1. SUFFICES ASSUME T # {} PROVE FALSE
    <3>1. \A n \in 0..L : L - n \in 0..L /\ L - (L - n) = n
      BY <1>1
    <3> QED BY <2>1, <3>1
  <2>2. PICK k \in T : \A j \in T : k <= j
    <3>1. T \subseteq Nat
      BY <1>1
    <3> QED BY <2>1, <3>1, LeastNumber
  <2>3. PICK n \in 0..L : n = L - k
    BY <1>1, <2>2
  <2>4. match[n] # MatchAfter(f, t, n)
    BY <2>2, <2>3
  <2>5. CASE n = L
    BY <1>1, <1>3, <1>6, <2>4, <2>5
  <2>6. CASE n # L
    <3>1. k \in Nat /\ k - 1 \in 0..L /\ L - (k - 1) = n + 1 /\ k - 1 < k
      BY <1>1, <2>2, <2>3, <2>6
    <3>2. match[n + 1] = MatchAfter(f, t, n + 1)
      BY <2>2, <3>1
    <3> QED BY <1>4, <1>6, <2>4, <3>2
  <2> QED BY <2>5, <2>6
<1>8. IsTopicMatch(f, t) <=> MatchAfter(f, t, 0)
  BY <1>1, <1>2, <1>7
<1>9. MatchAfter(f, t, 0) <=> Suffix(f, t, 0) /\ ~EmptyLevelMissed(f, t)
  BY <1>1 DEF MatchAfter
<1>10. Suffix(f, t, 0) <=> Matches(f, t)
  <2>1. \A k : SameFrom(f, t, 0, k) <=> \A i \in 1..k : f[i] = Plus \/ f[i] = t[i]
    BY DEF SameFrom
  <2> QED BY <2>1 DEF Suffix, Matches
<1> QED BY <1>8, <1>9, <1>10

-----------------------------------------------------------------------------
\* The invariant, and what follows from it.

LEMMA SubInvInit == ASSUME Init PROVE SubInv
<1>1. ChannelInv
  BY ChannelInit
<1>2. DOMAIN toClient = {} /\ DOMAIN toBroker = {} /\ requests = {} /\ subFilters = {} /\ told = {} /\ firstConnect
  BY DEF Init
<1> QED BY <1>1, <1>2 DEF SubInv, Stored, Known, Due

LEMMA SubInvStutter == ASSUME SubInv, UNCHANGED vars PROVE SubInv'
<1>1. /\ connected' = connected /\ firstConnect' = firstConnect /\ subFilters' = subFilters
      /\ requests' = requests /\ sends' = sends /\ toBroker' = toBroker /\ toClient' = toClient
      /\ subs' = subs /\ told' = told /\ asked' = asked
  BY DEF vars
<1>2. TypeInv' /\ Numbered' /\ InTurn' /\ Connections'
  BY <1>1 DEF SubInv, ChannelInv, TypeInv, Numbered, InTurn, Connections
<1>3. Pending'
  BY <1>1 DEF SubInv, ChannelInv, Pending, Answered, Waiting
<1>4. Stored'
  BY <1>1 DEF SubInv, Stored
<1>5. Known'
  BY <1>1 DEF SubInv, Known, Answered, Dealt
<1>6. Due'
  BY <1>1 DEF SubInv, Due, Accounts, EndsBefore
<1> QED BY <1>2, <1>3, <1>4, <1>5, <1>6 DEF SubInv, ChannelInv

LEMMA SubInvStep == ASSUME SubInv, [Next]_vars PROVE SubInv'
  BY SubInvStutter, ChannelStep, StoredStep, KnownStep, DueStep DEF SubInv

\* The inductive invariant: requests and answers keep their order on the
\* connection, what the application was told is stored, and what the broker
\* publishes is accounted for by a filter that the application asked for.
THEOREM SubInvHolds == Spec => []SubInv
<1>1. Init => SubInv
  BY SubInvInit
<1>2. SubInv /\ [Next]_vars => SubInv'
  BY SubInvStep
<1> QED BY <1>1, <1>2, PTL DEF Spec

\* Types; whatever the SUBACKs bring, the stored filters stay within the storage:
\* the loop of SubscribeOp::handle stops at the first filter that has no room.
THEOREM SubscriptionsTypeOK == Spec => []SubTypeOK
<1>1. SubInv => SubTypeOK
  BY DEF SubInv, ChannelInv, TypeInv, Numbered, SubTypeOK, RequestOp
<1> QED BY <1>1, SubInvHolds, PTL

\* Only a PUBLISH has an effect.
LEMMA OtherEffects ==
    ASSUME Next, ~RecvPublish PROVE effect' = None
  BY DEF Next, Connect, RecvConnack, RecvSuback, RecvUnsuback, Subscribe, Unsubscribe, Request, RequestTimeout,
         ConnectionBreaks, BrokerTakes, BrokerAnswers, BrokerPublishes

LEMMA NoEffect == None.what = "none"
  BY DEF None

\* What is stored and what is published are strings of the application.
LEMMA MatchOfFilter ==
    ASSUME NEW f \in Filters, NEW t \in PubTopics
    PROVE  IsTopicMatch(f, t) <=> Matches(f, t) /\ ~EmptyLevelMissed(f, t)
  BY SubAssumption, TopicMatchExact

\* A message is reported only if it matches a filter that the application has
\* subscribed to in this session and that no UNSUBACK has ended: RecvOp does not
\* report rogue messages, for any broker and any order of answers.
THEOREM SubscriptionsReportedWasAskedFor == Spec => []ReportedWasAskedFor
<1>1. Init => ReportedWasAskedFor
  BY NoEffect DEF Init, ReportedWasAskedFor
<1>2. ASSUME SubInv, ReportedWasAskedFor, [Next]_vars PROVE ReportedWasAskedFor'
  <2>1. CASE UNCHANGED vars
    BY <1>2, <2>1 DEF vars, ReportedWasAskedFor
  <2>2. CASE Next /\ ~RecvPublish
    BY <2>2, OtherEffects, NoEffect DEF ReportedWasAskedFor
  <2>3. CASE RecvPublish
    <3>1. TypeInv /\ Msg.topic \in PubTopics /\ (Reported \/ Rejected)
      BY <1>2, <2>3, PublishCases DEF SubInv, ChannelInv
    <3>2. CASE Reported
      <4>1. PICK f \in subFilters : IsTopicMatch(f, Msg.topic)
        BY <3>2 DEF Reported, Subscribed
      <4>2. f \in Filters /\ asked[f] # 0
        BY <1>2, <3>1 DEF SubInv, Stored, TypeInv
      <4>3. Matches(f, Msg.topic)
        BY <3>1, <4>1, <4>2, MatchOfFilter
      <4>4. effect'.topic = Msg.topic /\ asked' = asked
        BY <3>2 DEF Reported
      <4> QED BY <4>2, <4>3, <4>4 DEF ReportedWasAskedFor
    <3>3. CASE Rejected
      BY <3>3 DEF Rejected, ReportedWasAskedFor
    <3> QED BY <3>1, <3>2, <3>3
  <2> QED BY <1>2, <2>1, <2>2, <2>3
<1> QED BY <1>1, <1>2, SubInvHolds, PTL DEF Spec

\* The topics of the broker do not end in '/'.
NoBlankEnd == \A t \in PubTopics : t[Len(t)] # Blank

LEMMA RejectedMatchesNone ==
    ASSUME SubInv, NoBlankEnd, RecvPublish, Rejected
    PROVE  ~\E f \in told : Matches(f, Msg.topic)
<1>1. Msg.topic \in PubTopics
  BY PublishCases DEF SubInv, ChannelInv
<1>2. \A f \in Filters : Matches(f, Msg.topic) => IsTopicMatch(f, Msg.topic)
  BY <1>1, MatchOfFilter DEF NoBlankEnd, EmptyLevelMissed
<1>3. told \subseteq subFilters /\ subFilters \subseteq Filters
  BY DEF SubInv, ChannelInv, TypeInv, Stored
<1> QED BY <1>2, <1>3 DEF Rejected, Subscribed

\* A message for a subscription that the application was told of, and has not
\* given up, never ends the session, whatever was lost, late or resumed. (For a
\* topic that ends in '/' isTopicMatch misses some filters: TopicMatchExact.)
THEOREM SubscriptionsGrantedTopicsAccepted ==
    ASSUME NoBlankEnd PROVE Spec => []GrantedTopicsAccepted
<1>1. Init => GrantedTopicsAccepted
  BY NoEffect DEF Init, GrantedTopicsAccepted
<1>2. ASSUME SubInv, GrantedTopicsAccepted, [Next]_vars PROVE GrantedTopicsAccepted'
  <2>1. CASE UNCHANGED vars
    BY <1>2, <2>1 DEF vars, GrantedTopicsAccepted
  <2>2. CASE Next /\ ~RecvPublish
    BY <2>2, OtherEffects, NoEffect DEF GrantedTopicsAccepted
  <2>3. CASE RecvPublish
    <3>1. Reported \/ Rejected
      BY <1>2, <2>3, PublishCases DEF SubInv, ChannelInv
    <3>2. CASE Reported
      BY <3>2 DEF Reported, GrantedTopicsAccepted
    <3>3. CASE Rejected
      <4>1. effect'.topic = Msg.topic /\ told' = told
        BY <3>3 DEF Rejected, SessionLost
      <4> QED BY <1>2, <2>3, <3>3, <4>1, RejectedMatchesNone DEF GrantedTopicsAccepted
    <3> QED BY <3>1, <3>2, <3>3
  <2> QED BY <1>2, <2>1, <2>2, <2>3
<1> QED BY <1>1, <1>2, SubInvHolds, PTL DEF Spec

\* A message that the broker owes to the client is refused only for a filter that
\* this program has asked for and whose SUBACK has not reached the application:
\* never for a subscription of a session that the program does not know.
THEOREM SubscriptionsDueRefusedOnlyIfUnanswered ==
    ASSUME NoBlankEnd PROVE Spec => []DueRefusedOnlyIfUnanswered
<1>1. Init => DueRefusedOnlyIfUnanswered
  BY NoEffect DEF Init, DueRefusedOnlyIfUnanswered
<1>2. ASSUME SubInv, DueRefusedOnlyIfUnanswered, [Next]_vars PROVE DueRefusedOnlyIfUnanswered'
  <2>1. CASE UNCHANGED vars
    BY <1>2, <2>1 DEF vars, DueRefusedOnlyIfUnanswered
  <2>2. CASE Next /\ ~RecvPublish
    BY <2>2, OtherEffects, NoEffect DEF DueRefusedOnlyIfUnanswered
  <2>3. CASE RecvPublish
    <3>1. /\ Reported \/ Rejected
          /\ Msg.type = "PUBLISH" /\ 1 \in DOMAIN toClient /\ toClient[1] = Msg
      BY <1>2, <2>3, PublishCases DEF SubInv, ChannelInv
    <3>2. CASE Reported
      BY <3>2 DEF Reported, DueRefusedOnlyIfUnanswered
    <3>3. CASE Rejected /\ Msg.due
      <4>1. PICK f \in Filters : Accounts(f, 1)
        BY <1>2, <3>1, <3>3 DEF SubInv, Due, IsDue
      <4>2. asked[f] # 0 /\ Matches(f, Msg.topic)
        BY <3>1, <4>1 DEF Accounts
      <4>3. f \notin told
        BY <1>2, <2>3, <3>3, <4>2, RejectedMatchesNone
      <4>4. effect'.topic = Msg.topic /\ told' = told /\ asked' = asked
        BY <3>3 DEF Rejected, SessionLost
      <4> QED BY <4>2, <4>3, <4>4 DEF DueRefusedOnlyIfUnanswered
    <3>4. CASE Rejected /\ ~Msg.due
      <4>1. effect'.due = Msg.due
        BY <3>4 DEF Rejected
      <4> QED BY <3>4, <4>1 DEF DueRefusedOnlyIfUnanswered
    <3> QED BY <3>1, <3>2, <3>3, <3>4
  <2> QED BY <1>2, <2>1, <2>2, <2>3
<1> QED BY <1>1, <1>2, SubInvHolds, PTL DEF Spec

=============================================================================
