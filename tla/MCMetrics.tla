----------------------------- MODULE MCMetrics -----------------------------
(* Instances of Metrics for TLC. *)
EXTENDS Metrics

MCLabels == {[team |-> "a"], [team |-> "b"], [zone |-> "a"]}

MCFirst == [labels |-> {[team |-> "a"]}, infoKeys |-> {"some"}, primaries |-> 1,
            standalone |-> FALSE, secret |-> "s1"]

\* Other labels or none, another Secret or none, no info keys, no cluster, no
\* nodes.
MCConfigs ==
  {[MCFirst EXCEPT !.labels = {l}] : l \in MCLabels}
  \cup {[MCFirst EXCEPT !.labels = {}, !.secret = NoSecret, !.infoKeys = {}],
        [MCFirst EXCEPT !.labels = {[zone |-> "a"]}, !.infoKeys = {"none"}, !.standalone = TRUE],
        [MCFirst EXCEPT !.primaries = 0]}
=============================================================================
