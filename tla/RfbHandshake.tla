---------------------------- MODULE RfbHandshake -----------------------------
(***************************************************************************)
(* The handshake of the VNC viewer (core/rfb.js).  _initMsg handles what   *)
(* has arrived, or waits for more; a state that needs no message from the  *)
(* server runs in the same call.  Fields of the viewer:                    *)
(*   init, version, scheme   _rfbInitState, _rfbVersion, _rfbAuthScheme    *)
(*   tight, vencrypt   _rfbTightVNC, _rfbVeNCryptState                     *)
(*   creds, answer, askings   the credentials, those the page gives when   *)
(*                  asked, and its timers that resume the handshake        *)
(*   asked          the server owes the answer to an update request        *)
(***************************************************************************)
EXTENDS RfbConnection, FiniteSets

ClientInitialisation(c) == Say([c EXCEPT !.init = "ServerInitialisation"], <<"init">>)

HandleSecurityReason(c) ==
    LET d == Skip(c, 4)
    IN  CASE Short(c, 4) -> c
          [] ~Short(c, 4) /\ Short(d, Part(c).n) -> Back(d, 4)
          [] OTHER -> Fail(Skip(d, Part(c).n))

HandleSecurityResult(c) ==
    LET d == Skip(c, 4)
    IN  CASE Short(c, 4) -> c
          [] ~Short(c, 4) /\ Part(c).ok -> ClientInitialisation(d)
          [] ~Short(c, 4) /\ ~Part(c).ok /\ c.version >= 38 ->
                HandleSecurityReason([d EXCEPT !.init = "SecurityReason"])
          [] OTHER -> Fail(d)

(* The page answers in its listener; the handshake resumes on a timer. *)
RequireCredentials(c) == [c EXCEPT !.creds = c.answer, !.askings = @ + 1]

NegotiateStdVNCAuth(c) ==
    CASE Short(c, 16) -> c
      [] ~Short(c, 16) /\ "password" \notin c.creds -> RequireCredentials(c)
      [] OTHER -> Say([Skip(c, 16) EXCEPT !.init = "SecurityResult"], <<"response">>)

NegotiateTightUnixAuth(c) ==
    IF {"username", "password"} \subseteq c.creds
      THEN Say([c EXCEPT !.init = "SecurityResult"], <<"login">>)
      ELSE RequireCredentials(c)

NegotiateXvpAuth(c) ==
    IF {"username", "password", "target"} \subseteq c.creds
      THEN NegotiateStdVNCAuth(Say([c EXCEPT !.scheme = 2], <<"target">>))
      ELSE RequireCredentials(c)

-----------------------------------------------------------------------------
(* VeNCrypt: version, ack, number and list of subtypes, login.  Each state *)
(* falls through to the next.                                              *)
VeNCryptLogin(c) ==
    IF {"username", "password"} \subseteq c.creds
      THEN Say([c EXCEPT !.init = "SecurityResult"], <<"login">>)
      ELSE RequireCredentials(c)

VeNCryptSubtypes(c) ==
    LET d == Skip(c, 4 * c.subtypes)
    IN  CASE Short(c, 4 * c.subtypes) -> c
          [] ~Short(c, 4 * c.subtypes) /\ ~Part(c).plain -> Fail(d)
          [] OTHER -> VeNCryptLogin(Say([d EXCEPT !.vencrypt = 4], <<"plain">>))

VeNCryptCount(c) ==
    CASE Short(c, 1) -> c
      [] ~Short(c, 1) /\ Part(c).n = 0 -> Fail(Skip(c, 1))
      [] OTHER -> VeNCryptSubtypes([Skip(c, 1) EXCEPT !.vencrypt = 3, !.subtypes = Part(c).n])

VeNCryptAck_Returns(c) ==
    CASE Short(c, 1) -> c
      [] ~Short(c, 1) /\ ~Part(c).ok -> Fail(Skip(c, 1))
      [] OTHER -> [Skip(c, 1) EXCEPT !.vencrypt = 2]

VeNCryptAck(c) ==
    CASE Short(c, 1) -> c
      [] ~Short(c, 1) /\ ~Part(c).ok -> Fail(Skip(c, 1))
      [] OTHER -> VeNCryptCount([Skip(c, 1) EXCEPT !.vencrypt = 2])

VeNCryptVersion(c) ==
    CASE Short(c, 2) -> c
      [] ~Short(c, 2) /\ ~Part(c).ok -> Fail(Skip(c, 2))
      [] OTHER -> VeNCryptAck(Say([Skip(c, 2) EXCEPT !.vencrypt = 1], <<"vencrypt">>))

NegotiateVeNCryptAuth(c) ==
    CASE c.vencrypt = 0 -> VeNCryptVersion(c)
      [] c.vencrypt = 1 -> VeNCryptAck(c)
      [] c.vencrypt = 2 -> VeNCryptCount(c)
      [] c.vencrypt = 3 -> VeNCryptSubtypes(c)
      [] OTHER -> VeNCryptLogin(c)

-----------------------------------------------------------------------------
(* Tight: tunnels, then a list of authentications.  A capability has 16    *)
(* bytes.                                                                  *)
NegotiateTightTunnels(c, part) ==
    IF part.notunnel THEN Say(Skip(c, 16 * part.n), <<"notunnel">>)
    ELSE Fail(Skip(c, 16 * part.n))

NegotiateTightSubAuth(c) ==
    LET part == Part(c)
        d == Skip(Skip(c, 4), 16 * part.n)
        chosen(type) == Say(d, <<"subauth", type>>)
    IN  CASE Short(c, 4) -> c
          [] ~Short(c, 4) /\ part.n > 0 /\ Short(c, 4 + 16 * part.n) -> Back(Skip(c, 4), 4)
          [] ~Short(c, 4) /\ part.n = 0 -> [Skip(c, 4) EXCEPT !.init = "SecurityResult"]
          [] OTHER ->
                CASE 1 \in part.types -> [chosen(1) EXCEPT !.init = "SecurityResult"]
                  [] 1 \notin part.types /\ 2 \in part.types ->
                        NegotiateStdVNCAuth([chosen(2) EXCEPT !.scheme = 2])
                  [] part.types \cap {1, 2, 129} = {129} ->
                        NegotiateTightUnixAuth([chosen(129) EXCEPT !.scheme = 129])
                  [] OTHER -> Fail(d)

NegotiateTightAuth(c) ==
    LET part == Part(c)
        d == [Skip(c, 4) EXCEPT !.tight = TRUE]
    IN  CASE c.tight -> NegotiateTightSubAuth(c)
          [] ~c.tight /\ Short(c, 4) -> c
          [] ~c.tight /\ ~Short(c, 4) /\ part.n > 0 /\ Short(c, 4 + 16 * part.n) ->
                Back(Skip(c, 4), 4)
          [] ~c.tight /\ ~Short(c, 4) /\ part.n = 0 -> NegotiateTightSubAuth(d)
          [] OTHER -> NegotiateTightTunnels(d, part)

-----------------------------------------------------------------------------
NegotiateAuthentication(c) ==
    CASE c.scheme = 1 /\ c.version >= 38 -> [c EXCEPT !.init = "SecurityResult"]
      [] c.scheme = 1 /\ c.version < 38 -> ClientInitialisation(c)
      [] c.scheme = 22 -> NegotiateXvpAuth(c)
      [] c.scheme = 2 -> NegotiateStdVNCAuth(c)
      [] c.scheme = 16 -> NegotiateTightAuth(c)
      [] c.scheme = 19 -> NegotiateVeNCryptAuth(c)
      [] c.scheme = 129 -> NegotiateTightUnixAuth(c)
      [] OTHER -> Fail(c)

Preferred == <<1, 22, 16, 2, 19>>

(* The server offers a list, or decides (3.3).  The first byte is there,   *)
(* whoever called.                                                         *)
ChooseSecurity(c) ==
    LET part == Part(c)
        d == Skip(c, 1)
        e == Skip(d, part.n)
        known == {i \in DOMAIN Preferred : Preferred[i] \in part.types}
        scheme == Preferred[CHOOSE i \in known : \A j \in known : i <= j]
    IN  CASE part.n = 0 -> HandleSecurityReason([d EXCEPT !.init = "SecurityReason"])
          [] part.n > 0 /\ Short(d, part.n) -> Back(d, 1)
          [] part.n > 0 /\ ~Short(d, part.n) /\ known = {} -> Fail(e)
          [] OTHER -> NegotiateAuthentication(
                        Say([e EXCEPT !.scheme = scheme, !.init = "Authentication"],
                            <<"choice", scheme>>))

AcceptSecurity(c) ==
    LET d == [Skip(c, 4) EXCEPT !.scheme = Part(c).scheme]
    IN  CASE Short(c, 4) -> c
          [] ~Short(c, 4) /\ Part(c).scheme = 0 ->
                HandleSecurityReason([d EXCEPT !.init = "SecurityReason"])
          [] OTHER -> NegotiateAuthentication([d EXCEPT !.init = "Authentication"])

NegotiateSecurity(c) == IF c.version >= 37 THEN ChooseSecurity(c) ELSE AcceptSecurity(c)

NegotiateProtocolVersion(c) ==
    LET d == Skip(c, 12)
    IN  CASE Short(c, 12) -> c
          [] ~Short(c, 12) /\ Part(c).version = Repeater -> Say(d, <<"id">>)
          [] ~Short(c, 12) /\ Part(c).version = Unknown -> Fail(d)
          [] OTHER -> Say([d EXCEPT !.version = Part(c).version, !.init = "Security"],
                          <<"version">>)
=============================================================================
