---------------------------- MODULE ProfileSearch ----------------------------
(***************************************************************************)
(* ProfileSearch.cs: what a profile search remembers between two profiles, *)
(* the score of each one tried and whether a voice session is wanted.      *)
(***************************************************************************)
EXTENDS TransportPolicy, ProfileRotation

Unscored == -1

NoScores == [p \in Profiles |-> Unscored]

\* VoiceRequired after a probe list has been looked at.
VoiceRequired(required, ps) ==
  /\ "discord-voice-idle" \notin DOMAIN ps
  /\ required \/ "discord-voice" \in DOMAIN ps

\* A wanted voice session nobody reports on counts as a failed probe.
IncludeVoiceRequirement(required, ps) ==
  IF VoiceRequired(required, ps) /\ "discord-voice" \notin DOMAIN ps
  THEN [n \in DOMAIN ps \cup {"discord-voice"} |-> Passed(ps, n)]
  ELSE ps

Weight(ps, n, w) == IF Passed(ps, n) THEN w ELSE 0

Score(ps) ==
  Weight(ps, "discord-voice", 100) + Weight(ps, "discord-client", 40)
    + Weight(ps, "gateway", 30) + Weight(ps, "www.youtube.com", 20)
    + Weight(ps, "discord.com", 10) + Weight(ps, "cdn.discordapp.com", 5)

\* The profiles Best may return: the current one when it ties with the best.
Best(scores, current) ==
  LET top == {p \in Profiles :
                /\ scores[p] # Unscored
                /\ \A q \in Profiles : scores[q] <= scores[p]}
  IN  IF current \in top THEN {current} ELSE top

PreserveConnectedClient(ps) ==
  /\ \A n \in {"discord-client", "gateway", "www.youtube.com"} : Passed(ps, n)
  /\ \A n \in DOMAIN ps :
       ps[n] \/ n \in {"discord.com", "cdn.discordapp.com", "dns"}
=============================================================================
