---------------------------- MODULE MCMqttClient -----------------------------
\* A filter of each kind, a topic that both match and the parent level of one.
EXTENDS MqttClient

MCCharacters == {"a", "b", "/", "+", "#"}
MCFilters    == {<< <<"a">>, <<"+">> >>, << <<"a">>, <<"#">> >>}
MCTopics     == {<< <<"a">>, <<"a", "b">> >>, << <<"a">> >>}

Words == {<<"a">>, <<"b">>, <<"a", "b">>}
Upto(n, S) == UNION {[1..k -> S] : k \in 1..n}
AllTopics  == Upto(3, Words)
AllFilters == LET F == Upto(2, Words \cup {<<"+">>})
              IN F \cup {f \o << <<"+">> >> : f \in F}
                   \cup {f \o << <<"#">> >> : f \in F} \cup {<< <<"#">> >>}

\* isTopicMatched agrees with MQTT's definition but for the parent level of '#', for every
\* filter and topic of up to three levels.
ASSUME MatchesByLevels ==
    \A f \in AllFilters, t \in AllTopics :
        isTopicMatched(Chars(f), Chars(t)) = (Matches(f, t) /\ ~ParentLevel(f, t))
===============================================================================
