------------------------------ MODULE TlsFakes ------------------------------
(***************************************************************************)
(* The TLS hellos sent as fakes and how --dpi-desync-fake-tls-mod changes  *)
(* them once at start (onetime_tls_mod in nfqws.c): a new server name and  *)
(* a padding extension move the bytes that follow and the lengths around   *)
(* them.                                                                   *)
(*                                                                         *)
(* A hello is [size, ofs, buf, hello, exts, sni, pad, rec, hs, ext, mods,  *)
(* name]: its bytes, the offset it is sent from, the room it has, whether  *)
(* it is a hello with extensions, the length of its server name (-1 with   *)
(* none), where its padding is, and the three lengths written in it.       *)
(***************************************************************************)
EXTENDS Integers, TLC

CONSTANT SniBuffer    \* sizeof(fake_tls_mod.sni)
ASSUME BufferAssumption == SniBuffer \in Nat /\ SniBuffer >= 2

\* Room for the padding's head and for a name.
TlsReserve == 4 + SniBuffer
\* fake_tls_clienthello_default: www.microsoft.com and no padding.
DefaultHello == [src |-> "default", size |-> 680, ofs |-> 0, hello |-> TRUE, exts |-> TRUE,
                 sni |-> 17, pad |-> "none", rec |-> 675, hs |-> 671, ext |-> 564]

\* parse_tlsmod_list: the words replace those given before; a name is cut to
\* what its buffer holds.
TlsWords == {"none", "rnd", "rndsni", "sni", "padencap", "dupsid"}
Marks == {"set", "custom"}   \* FAKE_TLS_MOD_SAVE_MASK
NoMod == [mods |-> {}, name |-> 0]
GoodTlsMod(a) == a.mods \subseteq TlsWords /\ ("sni" \in a.mods => a.name > 0)
CutName(n) == IF n > SniBuffer - 2 THEN SniBuffer - 2 ELSE n
ParseTlsMod(last, a) ==
  [mods |-> (last.mods \cap Marks) \cup {"set"} \cup (a.mods \ {"none"}),
   name |-> IF "sni" \in a.mods THEN CutName(a.name) ELSE last.name]

-----------------------------------------------------------------------------
\* onetime_tls_mod_blob. Bytes are put in or taken out, and the lengths of the
\* record, of the handshake and of the extensions follow.
Grown(b, n) == [b EXCEPT !.size = @ + n, !.rec = @ + n, !.hs = @ + n, !.ext = @ + n]
Needs(b, words) == b.mods \cap words # {}
\* Mutant: the record's length is not written again.
NewNameSameRecord(b) == [Grown(b, b.name - b.sni) EXCEPT !.rec = b.rec, !.sni = b.name]
NewName(b) ==
  IF "sni" \in b.mods THEN [Grown(b, b.name - b.sni) EXCEPT !.sni = b.name] ELSE b
Padded(b) ==
  IF "padencap" \in b.mods /\ b.pad = "none" THEN [Grown(b, 4) EXCEPT !.pad = "end"] ELSE b
RoomForName(b) == "sni" \in b.mods /\ b.name # b.sni => b.size + (b.name - b.sni) <= b.buf
RoomForPad(b) == "padencap" \in b.mods /\ b.pad = "none" => b.size + 4 <= b.buf
BlobMod(b) == Padded(NewName(b))
BlobModOk(b) ==
  /\ Needs(b, {"rndsni", "sni", "padencap"}) => b.exts
  /\ Needs(b, {"rndsni", "sni"}) => b.sni >= 0 /\ RoomForName(b)
  /\ "rndsni" \in b.mods => NewName(b).sni > 0
  /\ "padencap" \in b.mods => b.pad # "inside" /\ RoomForPad(NewName(b))

\* onetime_tls_mod: a fake that was neither chosen nor modified gets the old
\* default modifications, except in the default profile.
DefaultMods(n, b) ==
  IF n # 0 /\ b.mods \cap Marks = {}
  THEN [b EXCEPT !.mods = @ \cup {"rnd", "rndsni", "dupsid"}] ELSE b
OnetimeMod(n, b) ==
  LET c == DefaultMods(n, b)
      d == BlobMod(c)
  IN IF c.mods \ Marks = {} THEN [ok |-> TRUE] @@ c
     ELSE IF ~c.hello \/ ~BlobModOk(c) THEN [ok |-> FALSE] @@ c
     ELSE [ok |-> d.ofs < d.size] @@ d

\* A hello as it is loaded, with the room it is given.
LoadedHello(b) ==
  /\ {b.size, b.rec, b.hs, b.ext, b.ofs} \subseteq Nat /\ b.sni \in Int /\ b.sni >= -1
  /\ b.buf = b.size + TlsReserve
  /\ b.name \in 0..(SniBuffer - 2)
=============================================================================
