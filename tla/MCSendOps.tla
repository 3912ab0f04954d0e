----------------------------- MODULE MCSendOps -----------------------------
(***************************************************************************)
(* SendOps for TLC, and the loop of ClientImpl::resumeSendOpsSince as it   *)
(* is written, to compare with its closed form SendOps!Resumable.          *)
(***************************************************************************)
EXTENDS SendOps, TLC

Ordered == INSTANCE SequencesExt

\* SendOp::canSend of the operation at place idx of the list, through
\* hasPausedSendsBefore and hasHigherQosSendsBefore.
CanSendAt(f, list, idx) ==
    \/ publishOrdering = "SameQos"
    \/ /\ idx = 1 \/ ~f[list[idx - 1]].paused
       /\ \A i \in 1..(idx - 1) : f[list[i]].qos <= f[list[idx]].qos

\* The loop of resumeSendOpsSince from place idx on; st holds the operations,
\* the list and the operations resumed so far. An operation that completes at
\* once leaves the list, runs the loop again from its place (opComplete_Send)
\* and returns to this loop.
RECURSIVE ResumeSendOpsSince(_, _)
ResumeSendOpsSince(st, idx) ==
    IF idx > Len(st.list) THEN st
    ELSE LET s == st.list[idx] IN
         IF ~st.f[s].paused THEN ResumeSendOpsSince(st, idx + 1)
         ELSE IF ~CanSendAt(st.f, st.list, idx) THEN st
         ELSE IF CompletesAtOnce(st.f[s])
              THEN ResumeSendOpsSince(
                       ResumeSendOpsSince(
                           [f       |-> [st.f EXCEPT ![s] = NoOp],
                            list    |-> Ordered!RemoveAt(st.list, idx),
                            resumed |-> st.resumed \cup {s}], idx), idx)
              ELSE ResumeSendOpsSince(
                       [f       |-> [st.f EXCEPT ![s] = SentOnce(@)],
                        list    |-> st.list,
                        resumed |-> st.resumed \cup {s}], idx)

\* The closed form used in the actions resumes what the loop resumes and
\* leaves the operations in the same state, from every place of every list
\* the client can have.
ResumeIsTheLoop ==
    \A i \in 1..(Cardinality(sendOps) + 1) :
        LET list == InOrder(sendOps)
            from == IF i <= Len(list) THEN list[i] ELSE nextOp
            R    == Resumable(op, sendOps, from)
            end  == ResumeSendOpsSince([f |-> op, list |-> list, resumed |-> {}], i)
        IN /\ end.resumed = R
           /\ end.f = AfterResume(op, R)
=============================================================================
