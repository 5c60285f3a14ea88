---------------------------- MODULE MCSupervisor ----------------------------
(***************************************************************************)
(* Values of the constants of EngineSupervisor for model checking.         *)
(***************************************************************************)
EXTENDS SupervisorProperties, TLC

Base == {"gateway", "discord.com", "cdn.discordapp.com", "www.youtube.com"}

\* A check of the four startup endpoints where the given ones fail.
Check(bad) == [n \in Base |-> n \notin bad]

AllOk == Check({})
Blocked == Check(Base)
YouTubeOnly == Check(Base \ {"www.youtube.com"})

\* Evidence of the Discord desktop client is appended to a check.
With(ps, n, ok) == ps @@ (n :> ok)

Ancillary == With(Check({"discord.com"}), "discord-client", TRUE)
VoiceFails == With(AllOk, "discord-voice", FALSE)
VoiceIdle == With(Blocked, "discord-voice-idle", TRUE)

OkOrBlocked == {AllOk, Blocked}
Varied == {AllOk, Blocked, Ancillary, VoiceFails, VoiceIdle}
OnlyOk == {AllOk}
Graded == {AllOk, Blocked, YouTubeOnly}
Preserved == {AllOk, Blocked, Ancillary}

PidSymmetry == Permutations(Pids)
=============================================================================
