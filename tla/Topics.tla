------------------------------- MODULE Topics -------------------------------
(***************************************************************************)
(* Topic names and topic filters (RecvOp.cpp isTopicMatch, Op.cpp          *)
(* verifySubFilterInternal and verifyPubTopicInternal). A string is the    *)
(* sequence of its levels, the parts between the separators '/': the empty *)
(* string is <<"">>, a string without separator has one level, and what    *)
(* follows the first separator is the tail.                                *)
(***************************************************************************)
EXTENDS Integers, Sequences

CONSTANTS
    Mixed,      \* levels in which a wildcard stands with other characters
    Dollar      \* levels that begin with '$'

\* The levels that matter: the wildcards, and the level without characters.
Plus == "+"
Hash == "#"
Blank == ""

EmptyString == <<Blank>>
MultiLevel == <<Hash>>
HasSeparator(s) == Len(s) > 1

\* One level of the filter against one of the topic.
LevelMatches(f, t) == f = Plus \/ f = t

\* What is left of a string after n separators; nothing is the empty string.
After(s, n) == IF n < Len(s) THEN SubSeq(s, n + 1, Len(s)) ELSE EmptyString

\* isTopicMatch, case by case; rest is the call for what follows the first
\* separator. The last level of the filter may be '+' only for a level of the
\* topic that is not empty.
MatchLevels(f, t, rest) ==
    CASE f = MultiLevel -> TRUE
      [] f # MultiLevel /\ t = EmptyString -> f = EmptyString
      [] f # MultiLevel /\ HasSeparator(t) ->
            HasSeparator(f) /\ LevelMatches(Head(f), Head(t)) /\ rest
      [] f # MultiLevel /\ t # EmptyString /\ ~HasSeparator(t) /\ HasSeparator(f) ->
            Tail(f) # EmptyString /\ LevelMatches(Head(f), Head(t)) /\ rest
      [] OTHER -> LevelMatches(Head(f), Head(t))

\* match[n] is the call after n separators.
IsTopicMatch(filter, topic) ==
    LET match[n \in 0..Len(topic)] == MatchLevels(After(filter, n), After(topic, n), match[n + 1])
    IN  match[0]

\* verifySubFilterInternal: a wildcard is a level of its own, '#' the last one.
VerifySubFilter(filter) ==
    /\ filter # EmptyString
    /\ \A i \in DOMAIN filter :
          /\ filter[i] \notin Mixed
          /\ filter[i] = Hash => i = Len(filter)

\* verifyPubTopicInternal.
VerifyPubTopic(topic, outgoing) ==
    /\ topic # EmptyString
    /\ outgoing => topic[1] \notin Dollar
    /\ \A i \in DOMAIN topic : topic[i] \notin {Plus, Hash} \cup Mixed

\* The reference: what a filter matches in the words of MQTT 3.1.1, section 4.7,
\* level by level. The rule on '$' is left to the broker.
Matches(filter, topic) ==
    LET n == Len(filter)
        same(k) == \A i \in 1..k : filter[i] = Plus \/ filter[i] = topic[i]
    IN  IF filter[n] = Hash THEN Len(topic) >= n - 1 /\ same(n - 1)
        ELSE Len(topic) = n /\ same(n)

\* Where isTopicMatch is narrower: the last level of the topic is empty (the
\* topic ends in '/'), and the filter has for it '+' as its last level, or a
\* level that '#' follows.
EmptyLevelMissed(filter, topic) ==
    /\ topic[Len(topic)] = Blank
    /\ \/ Len(filter) = Len(topic) + 1
       \/ Len(filter) = Len(topic) /\ filter[Len(filter)] = Plus

=============================================================================
