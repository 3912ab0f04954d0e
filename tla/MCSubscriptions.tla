-------------------------- MODULE MCSubscriptions --------------------------
(***************************************************************************)
(* Instances of Subscriptions. Constants of the configurations, and the    *)
(* comparison of isTopicMatch with the standard over all short strings.    *)
(***************************************************************************)
EXTENDS Subscriptions

MCMixed == {"a+"}
MCDollar == {"$s"}

\* Lists of the filters "a", "a/+" and "#"; the topics "a/b" and "b".
PlainLists == {<< <<"a", "+">> >>, << <<"#">> >>, << <<"a", "+">>, <<"#">> >>, << <<"a">>, <<"a", "+">> >>}
PlainTopics == {<<"a", "b">>, <<"b">>}

Strings(levels, n) == UNION {[1..k -> levels] : k \in 1..n}
ValidFilters == {f \in Strings({"", "a", "b", "+", "#", "a+"}, 3) : VerifySubFilter(f)}
ValidTopics == {t \in Strings({"", "a", "b", "+", "a+"}, 3) : VerifyPubTopic(t, FALSE)}

\* isTopicMatch is the matching of the standard but for an empty last level of
\* the topic.
ASSUME MatchAssumption ==
    \A f \in ValidFilters, t \in ValidTopics :
        IsTopicMatch(f, t) <=> Matches(f, t) /\ ~EmptyLevelMissed(f, t)

=============================================================================
