-------------------------- MODULE MCContextWindow ---------------------------
(***************************************************************************)
(* Instances of ContextWindow for TLC.  Four messages: the task, two       *)
(* outputs of one tool and something between or after them.  An output of  *)
(* 8 is trimmed by all configurations.  Of the configurations, plain and   *)
(* reversed trim to less; tight is micro_compact_max_chars = 2000 of the   *)
(* strategy candidates beside the default head of 1500 and tail of 800;    *)
(* summary adds the third layer and overflows.                             *)
(***************************************************************************)
EXTENDS ContextWindow

Plain == [maxChars |-> 20, microMax |-> 6, keepHead |-> 2, keepTail |-> 1,
          summarizes |-> FALSE, maxSkills |-> 1, routing |-> "hybrid",
          layers |-> <<"stale_snip", "micro_compact">>]
Reversed == [Plain EXCEPT !.layers = <<"micro_compact", "stale_snip">>,
                          !.routing = "keyword", !.maxSkills = 2]
Tight == [Plain EXCEPT !.microMax = 2, !.keepHead = 2, !.keepTail = 2,
                       !.routing = "semantic"]
Summary == [Plain EXCEPT !.maxChars = 12, !.summarizes = TRUE,
                         !.layers = Append(@, "auto_compact")]
MCConfigs == {Plain, Reversed, Tight, Summary}
MCRoleSize == [user |-> 1, assistant |-> 2, tool |-> 1]
MCSkillSize == <<2, 3>>
MCRankings == {[keyword |-> <<0, 1>>, cosine |-> <<1, 0>>],
               [keyword |-> <<1, 1>>, cosine |-> <<0, 1>>]}
=============================================================================
