--------------------------- MODULE Subscriptions ---------------------------
(***************************************************************************)
(* What the client keeps of its subscriptions: the filters in              *)
(* ReuseState::m_subFilters, which the SUBACK and UNSUBACK handlers change *)
(* and against which RecvOp checks every PUBLISH; together with a broker,  *)
(* over connections that break, requests that time out, and sessions that  *)
(* the broker keeps or has lost.                                           *)
(*                                                                         *)
(* The broker and the network are external. The broker takes requests in   *)
(* their order, may publish what a SUBSCRIBE asks for before it sends the  *)
(* SUBACK (MQTT 3.1.1, 3.8.4), and may also be rogue and publish anything. *)
(* m_verifySubFilter and the verification of topics are on.                *)
(***************************************************************************)
EXTENDS Topics, FiniteSets

CONSTANTS
    Lists,          \* the lists of filters of the application's requests
    PubTopics,      \* the topics that are published
    FiltersLimit,   \* m_subFilters.max_size()
    MaxRequests,    \* bound: SUBSCRIBE and UNSUBSCRIBE operations
    MaxConnects,    \* bound: connections
    ChannelBound    \* bound: messages on their way to the client

Elements(s) == {s[i] : i \in DOMAIN s}
Filters == UNION {Elements(s) : s \in Lists}

ASSUME SubAssumption ==
    /\ \A list \in Lists : list \in Seq(Filters)
    /\ \A f \in Filters : f \in Seq(STRING) /\ f # <<>> /\ VerifySubFilter(f)
    /\ \A t \in PubTopics : t \in Seq(STRING) /\ t # <<>> /\ VerifyPubTopic(t, FALSE)
    /\ FiltersLimit \in Nat /\ MaxRequests \in Nat /\ MaxConnects \in Nat /\ ChannelBound \in Nat

VARIABLES
    connected,      \* SessionState::m_connected
    firstConnect,   \* ClientState::m_firstConnect
    subFilters,     \* ReuseState::m_subFilters
    requests,       \* the subscribe and unsubscribe operations
    sends,          \* requests sent so far, which number them
    toBroker,       \* messages to the broker
    toClient,       \* messages to the client
    connects,       \* connections so far
    session,        \* the broker keeps the session when the connection ends
    subs,           \* subscriptions of the broker
    told,           \* filters the application takes for subscribed
    asked,          \* the last SUBSCRIBE sent for every filter
    effect          \* what the last PUBLISH came to

vars == <<connected, firstConnect, subFilters, requests, sends, toBroker, toClient,
          connects, session, subs, told, asked, effect>>

None == [what |-> "none", topic |-> EmptyString, due |-> FALSE]

\* A broker may remember a session of an earlier run of the program.
Init ==
    /\ connected = FALSE /\ firstConnect = TRUE /\ subFilters = {} /\ requests = {} /\ sends = 0
    /\ toBroker = <<>> /\ toClient = <<>> /\ connects = 0
    /\ session \in BOOLEAN /\ subs \in SUBSET Filters /\ (session \/ subs = {})
    /\ told = {} /\ asked = [f \in Filters |-> 0] /\ effect = None

-----------------------------------------------------------------------------
\* The connection.

\* Mutant of MayConnect: any session may be resumed.
MayConnectAny(clean) == ~connected /\ connects < MaxConnects

\* ConnectOp::config and send: the first connection must ask for a clean session.
MayConnect(clean) == ~connected /\ connects < MaxConnects /\ (firstConnect => clean)

\* CONNECT reaches the broker, which answers. It may have lost a session it kept.
Connect(clean) ==
    /\ MayConnect(clean)
    /\ connects' = connects + 1
    /\ toBroker' = <<>>
    /\ \E present \in IF session /\ ~clean THEN BOOLEAN ELSE {FALSE} :
          /\ subs' = IF present THEN subs ELSE {}
          /\ toClient' = <<[type |-> "CONNACK", present |-> present]>>
    /\ session' = ~clean
    /\ effect' = None
    /\ UNCHANGED <<connected, firstConnect, subFilters, requests, sends, told, asked>>

Receives(type) == toClient # <<>> /\ Head(toClient).type = type
Msg == Head(toClient)

\* Mutants of KeptFilters: the filters of the session before are kept; the
\* filters of the session that goes on are forgotten.
KeptFiltersAlways(present) == subFilters
KeptFiltersNever(present) == {}

\* ConnectOp::handle: without the old session the reused state is reset.
KeptFilters(present) == IF present THEN subFilters ELSE {}

RecvConnack ==
    /\ Receives("CONNACK")
    /\ toClient' = Tail(toClient)
    /\ connected' = TRUE /\ firstConnect' = FALSE
    /\ subFilters' = KeptFilters(Msg.present)
    /\ told' = IF Msg.present THEN told ELSE {}
    /\ asked' = IF Msg.present THEN asked ELSE [f \in Filters |-> 0]
    /\ effect' = None
    /\ UNCHANGED <<requests, sends, toBroker, connects, session, subs>>

\* The session ends: subscribe and unsubscribe operations are terminated, and
\* what is on its way is lost.
SessionLost ==
    /\ connected' = FALSE /\ requests' = {} /\ toBroker' = <<>> /\ toClient' = <<>>
    /\ UNCHANGED <<firstConnect, sends, connects, session, told, asked>>

ConnectionBreaks ==
    /\ connected \/ toClient # <<>>
    /\ SessionLost /\ effect' = None
    /\ UNCHANGED <<subFilters, subs>>

-----------------------------------------------------------------------------
\* Requests of the application.

Request(type, list) ==
    /\ connected /\ sends < MaxRequests
    /\ sends' = sends + 1
    /\ requests' = requests \cup {[id |-> sends + 1, type |-> type, list |-> list]}
    /\ toBroker' = Append(toBroker, [id |-> sends + 1, type |-> type, list |-> list,
                                     taken |-> FALSE, granted |-> <<>>])
    /\ effect' = None

\* SubscribeOp::configTopic for every filter of the list, and send.
Subscribe(list) ==
    /\ Request("SUBSCRIBE", list)
    /\ asked' = [f \in Filters |-> IF f \in Elements(list) THEN sends + 1 ELSE asked[f]]
    /\ UNCHANGED <<connected, firstConnect, subFilters, toClient, connects, session, subs, told>>

\* UnsubscribeOp::configTopic, which only takes filters of m_subFilters, and send.
Unsubscribe(list) ==
    /\ Elements(list) \subseteq subFilters
    /\ Request("UNSUBSCRIBE", list)
    /\ told' = told \ Elements(list)
    /\ UNCHANGED <<connected, firstConnect, subFilters, toClient, connects, session, subs, asked>>

\* The response timer: the operation is gone, its answer may still come.
RequestTimeout(r) ==
    /\ requests' = requests \ {r} /\ effect' = None
    /\ UNCHANGED <<connected, firstConnect, subFilters, sends, toBroker, toClient, connects, session,
                   subs, told, asked>>

\* The filters after the first k iterations of the loop over the return codes:
\* a filter the broker refused is skipped.
StoredUpTo(list, granted, k) == subFilters \cup {list[i] : i \in {j \in 1..k : granted[j]}}

\* Mutant of Fits: the storage takes one filter more than it has room for.
FitsOneMore(list, granted, k) == Cardinality(StoredUpTo(list, granted, k)) <= FiltersLimit + 1

\* The first k iterations found room for their filters.
Fits(list, granted, k) == Cardinality(StoredUpTo(list, granted, k)) <= FiltersLimit

\* SubscribeOp::handle(SubackMsg). The loop stops at the return code k when the
\* storage is full, and anywhere when the SUBACK of a broker is not as it should
\* be: the number of codes is wrong (found before the first one), a code is
\* invalid, or grants more than was asked for. The filters before stay, and the
\* session is given up. The application takes a granted filter for subscribed
\* unless it has asked to unsubscribe meanwhile.
RecvSuback ==
    /\ Receives("SUBACK")
    /\ LET about == {r \in requests : r.id = Msg.id}
           list == (CHOOSE r \in about : TRUE).list
           all == Len(list)
           given == UNION {Elements(r.list) : r \in {q \in requests : q.type = "UNSUBSCRIBE" /\ q.id > Msg.id}}
       IN  \/ /\ about = {} /\ toClient' = Tail(toClient)
              /\ UNCHANGED <<connected, firstConnect, subFilters, requests, sends, toBroker, connects,
                             session, told, asked>>
           \/ /\ about # {} /\ Fits(list, Msg.granted, all)
              /\ subFilters' = StoredUpTo(list, Msg.granted, all)
              /\ told' = told \cup ({list[i] : i \in {j \in 1..all : Msg.granted[j]}} \ given)
              /\ requests' = requests \ about /\ toClient' = Tail(toClient)
              /\ UNCHANGED <<connected, firstConnect, sends, toBroker, connects, session, asked>>
           \/ /\ about # {}
              /\ \E k \in 1..all : /\ Fits(list, Msg.granted, k - 1)
                                   /\ subFilters' = StoredUpTo(list, Msg.granted, k - 1)
              /\ SessionLost
    /\ effect' = None
    /\ UNCHANGED subs

\* UnsubscribeOp::handle(UnsubackMsg).
RecvUnsuback ==
    /\ Receives("UNSUBACK") /\ toClient' = Tail(toClient)
    /\ LET about == {r \in requests : r.id = Msg.id}
           gone == UNION {Elements(r.list) : r \in about}
       IN  /\ subFilters' = subFilters \ gone
           /\ asked' = [f \in Filters |-> IF f \in gone /\ asked[f] < Msg.id THEN 0 ELSE asked[f]]
           /\ requests' = requests \ about
    /\ effect' = None
    /\ UNCHANGED <<connected, firstConnect, sends, toBroker, connects, session, subs, told>>

-----------------------------------------------------------------------------
\* Messages.

\* The search of RecvOp::handle.
Subscribed(topic) == \E f \in subFilters : IsTopicMatch(f, topic)

\* RecvOp::handle(PublishMsg): report the message, or end the session.
RecvPublish ==
    /\ Receives("PUBLISH")
    /\ IF VerifyPubTopic(Msg.topic, FALSE) /\ Subscribed(Msg.topic)
       THEN /\ toClient' = Tail(toClient)
            /\ effect' = [what |-> "reported", topic |-> Msg.topic, due |-> Msg.due]
            /\ UNCHANGED <<connected, firstConnect, requests, sends, toBroker, connects, session, told, asked>>
       ELSE /\ SessionLost
            /\ effect' = [what |-> "rejected", topic |-> Msg.topic, due |-> Msg.due]
    /\ UNCHANGED <<subFilters, subs>>

BrokerUp == connected \/ toClient # <<>>

\* The broker takes a request: it grants or refuses every filter, or removes them.
BrokerTakes ==
    /\ toBroker # <<>> /\ ~Head(toBroker).taken
    /\ LET r == Head(toBroker) IN
       \E granted \in IF r.type = "SUBSCRIBE" THEN [DOMAIN r.list -> BOOLEAN] ELSE {<<>>} :
          /\ toBroker' = [toBroker EXCEPT ![1].taken = TRUE, ![1].granted = granted]
          /\ subs' = IF r.type = "SUBSCRIBE"
                     THEN subs \cup {r.list[i] : i \in {j \in DOMAIN r.list : granted[j]}}
                     ELSE subs \ Elements(r.list)
    /\ effect' = None
    /\ UNCHANGED <<connected, firstConnect, subFilters, requests, sends, toClient, connects, session,
                   told, asked>>

\* SUBACK or UNSUBACK.
BrokerAnswers ==
    /\ toBroker # <<>> /\ Head(toBroker).taken /\ Len(toClient) < ChannelBound
    /\ toBroker' = Tail(toBroker)
    /\ LET r == Head(toBroker)
           type == IF r.type = "SUBSCRIBE" THEN "SUBACK" ELSE "UNSUBACK"
       IN  toClient' = Append(toClient, [type |-> type, id |-> r.id, granted |-> r.granted])
    /\ effect' = None
    /\ UNCHANGED <<connected, firstConnect, subFilters, requests, sends, connects, session, subs, told,
                   asked>>

BrokerPublishes(topic) ==
    /\ BrokerUp /\ Len(toClient) < ChannelBound
    /\ LET due == \E f \in subs : Matches(f, topic) IN
          toClient' = Append(toClient, [type |-> "PUBLISH", topic |-> topic, due |-> due])
    /\ effect' = None
    /\ UNCHANGED <<connected, firstConnect, subFilters, requests, sends, toBroker, connects, session,
                   subs, told, asked>>

-----------------------------------------------------------------------------

Next ==
    \/ \E clean \in BOOLEAN : Connect(clean)
    \/ RecvConnack \/ RecvSuback \/ RecvUnsuback \/ RecvPublish
    \/ \E list \in Lists : Subscribe(list) \/ Unsubscribe(list)
    \/ \E r \in requests : RequestTimeout(r)
    \/ ConnectionBreaks \/ BrokerTakes \/ BrokerAnswers
    \/ \E topic \in PubTopics : BrokerPublishes(topic)

Spec == Init /\ [][Next]_vars

-----------------------------------------------------------------------------
\* Properties.

\* Types; the stored filters stay within the storage.
SubTypeOK ==
    /\ subFilters \subseteq Filters /\ Cardinality(subFilters) <= FiltersLimit
    /\ told \subseteq Filters /\ subs \subseteq Filters
    /\ \A r \in requests : r.id \in 1..sends /\ r.list \in Lists

\* A PUBLISH is refused only if it matches no subscription that the application
\* was told of and has not given up: whatever was lost, late, or resumed, a
\* message the application waits for does not end the session.
GrantedTopicsAccepted ==
    effect.what = "rejected" => ~\E f \in told : Matches(f, effect.topic)

\* "The library monitors the topics the client application subscribed to and does
\* not report rogue messages from the broker" (main.dox): what is reported
\* matches a filter the application has subscribed to in this session and that
\* no UNSUBACK has ended since.
ReportedWasAskedFor ==
    effect.what = "reported" => \E f \in Filters : asked[f] # 0 /\ Matches(f, effect.topic)

\* The first connection asks for a clean session "to prevent potential errors of
\* the client and broker inner states being out of sync" (main.dox): a message
\* the broker owes to the client is refused only when it matches a filter that
\* the program has asked for in this session and does not take for subscribed,
\* because its SUBACK is outstanding, was late or refused it, or because it has
\* asked to unsubscribe; never for a session that the program does not know.
DueRefusedOnlyIfUnanswered ==
    effect.what = "rejected" /\ effect.due =>
        \E f \in Filters \ told : asked[f] # 0 /\ Matches(f, effect.topic)

=============================================================================
