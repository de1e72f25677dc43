------------------------------ MODULE VncServer ------------------------------
(***************************************************************************)
(* A VNC server as the viewer's code expects one (it is outside of the     *)
(* repository): what it may say next, given what the viewer said.  The     *)
(* state s is a record:                                                    *)
(*   phase      what it waits for, or "normal"                             *)
(*   version, tight   what was agreed on                                   *)
(*   repertoire    the kind of server it is                                *)
(*   owed, open    rectangles it still has to send, the header left their  *)
(*              number open                                                *)
(*   continuous    it said that it can send updates unasked                *)
(*   fenced        it waits for the answer to a fence                      *)
(***************************************************************************)
EXTENDS RfbConnection, FiniteSets

CONSTANTS
    Versions,       \* versions a server may announce, 10 times
    TypeLists,      \* lists (sets) of security types
    SubAuths,       \* lists of authentications of Tight
    Repertoires,    \* what servers send: functions to sets of rectangles and
                    \* of messages other than updates
    MaxRects        \* rectangles of one update

ReasonLength == 3
NameLength == 2
TightCaps == 1
OpenCount == 65535

Reason == [type |-> "reason", n |-> ReasonLength, len |-> 4 + ReasonLength]
Challenge == [type |-> "challenge", len |-> 16]

Turn(s, phase, parts) == [parts |-> parts, next |-> [s EXCEPT !.phase = phase]]

Announce(s) ==
    {[parts |-> <<[type |-> "version", version |-> v, len |-> 12]>>,
      next |-> [s EXCEPT !.phase = IF v = Repeater THEN "id" ELSE "version",
                         !.version = v]] : v \in Versions}

(* 3.3: the server decides, and goes on if it need not wait. *)
Decide(s) ==
    LET scheme(n) == [type |-> "scheme", scheme |-> n, len |-> 4]
    IN  {Turn(s, "init", <<scheme(1)>>), Turn(s, "response", <<scheme(2), Challenge>>),
         Turn(s, "end", <<scheme(0), Reason>>), Turn(s, "end", <<scheme(7)>>)}

OfferTypes(s) ==
    {Turn(s, IF T = {} THEN "end" ELSE "choice",
          <<[type |-> "types", types |-> T, n |-> Cardinality(T), len |-> 1 + Cardinality(T)]>>
          \o (IF T = {} THEN <<Reason>> ELSE <<>>)) : T \in TypeLists}

OfferTight(s) ==
    LET tunnels(n, ok) == [type |-> "tunnels", n |-> n, notunnel |-> ok, len |-> 4 + 16 * n]
    IN  {Turn(s, "subauths", <<tunnels(0, TRUE)>>), Turn(s, "notunnel", <<tunnels(1, TRUE)>>),
         Turn(s, "end", <<tunnels(1, FALSE)>>)}

OfferSubAuths(s) ==
    {Turn(s, IF T = {} THEN "result" ELSE "subauth",
          <<[type |-> "subauths", types |-> T, n |-> Cardinality(T),
             len |-> 4 + 16 * Cardinality(T)]>>) : T \in SubAuths}

OfferSubtypes(s) ==
    {Turn(s, IF ok THEN "plain" ELSE "end",
          <<[type |-> "veAck", ok |-> TRUE, len |-> 1], [type |-> "veCount", n |-> 1, len |-> 1],
            [type |-> "veTypes", plain |-> ok, len |-> 4]>>) : ok \in BOOLEAN}
    \cup {Turn(s, "end", <<[type |-> "veAck", ok |-> FALSE, len |-> 1]>>)}

Judge(s) ==
    LET result(ok) == [type |-> "result", ok |-> ok, len |-> 4]
    IN  {Turn(s, "init", <<result(TRUE)>>),
         Turn(s, "end", <<result(FALSE)>> \o (IF s.version >= 38 THEN <<Reason>> ELSE <<>>))}

Initialise(s) ==
    {Turn([s EXCEPT !.repertoire = k], "normal",
          <<[type |-> "serverInit", n |-> NameLength, size |-> 1, caps |-> TightCaps,
             len |-> 24 + NameLength + (IF s.tight THEN 8 + 16 * TightCaps ELSE 0)]>>) :
        k \in DOMAIN Repertoires}

(* What the viewer's message m, the last it said, makes the server say *)
Answer(s, m) ==
    LET tight == [s EXCEPT !.tight = TRUE]
        veVersion(ok) == <<[type |-> "veVersion", ok |-> ok, len |-> 2]>>
    IN  CASE s.phase = "id" /\ m = <<"id">> -> Announce(s)
          [] s.phase = "version" /\ m = <<"version">> ->
                IF s.version >= 37 THEN OfferTypes(s) ELSE Decide(s)
          [] s.phase = "choice" /\ m = <<"choice", 1>> ->
                IF s.version >= 38 THEN Judge(s) ELSE {Turn(s, "init", <<>>)}
          [] s.phase = "choice" /\ m = <<"choice", 2>> -> {Turn(s, "response", <<Challenge>>)}
          [] s.phase = "choice" /\ m = <<"choice", 16>> -> OfferTight(tight)
          [] s.phase = "choice" /\ m = <<"choice", 19>> ->
                {Turn(s, "vencrypt", veVersion(TRUE)), Turn(s, "end", veVersion(FALSE))}
          [] s.phase = "choice" /\ m = <<"choice", 22>> -> {Turn(s, "target", <<>>)}
          [] s.phase = "target" /\ m = <<"target">> -> {Turn(s, "response", <<Challenge>>)}
          [] s.phase = "notunnel" /\ m = <<"notunnel">> -> OfferSubAuths(s)
          [] s.phase = "subauth" /\ m = <<"subauth", 1>> -> Judge(s)
          [] s.phase = "subauth" /\ m = <<"subauth", 2>> -> {Turn(s, "response", <<Challenge>>)}
          [] s.phase = "subauth" /\ m = <<"subauth", 129>> -> {Turn(s, "login", <<>>)}
          [] s.phase = "vencrypt" /\ m = <<"vencrypt">> -> OfferSubtypes(s)
          [] s.phase = "plain" /\ m = <<"plain">> -> {Turn(s, "login", <<>>)}
          [] s.phase = "login" /\ m = <<"login">> -> Judge(s)
          [] s.phase = "response" /\ m = <<"response">> -> Judge(s)
          [] s.phase = "normal" /\ m = <<"fence">> ->
                {[parts |-> <<>>, next |-> [s EXCEPT !.fenced = FALSE]]}
          [] s.phase = "init" /\ m = <<"init">> -> Initialise(s)
          [] OTHER -> {}

(* What it says of its own accord *)
Unasked(s) ==
    CASE s.phase = "announce" -> Announce(s)
      [] s.phase = "subauths" -> OfferSubAuths(s)
      [] s.phase = "result" -> Judge(s)
      [] OTHER -> {}

-----------------------------------------------------------------------------
(* After the handshake: an update begins if one was asked for, or updates  *)
(* are continuous; its rectangles follow; other messages come in between.  *)
Update(s, n, open) ==
    [parts |-> <<[type |-> "update", n |-> IF open THEN OpenCount ELSE n, len |-> 4]>>,
     next |-> [s EXCEPT !.owed = n, !.open = open]]

Updates(s) ==
    {Update(s, n, FALSE) : n \in 0 .. MaxRects} \cup {Update(s, MaxRects, TRUE)}

LastRect == [type |-> "rect", encoding |-> "lastRect", len |-> 12]

Continuation(s) ==
    {[parts |-> <<r>>, next |-> [s EXCEPT !.owed = @ - 1]] :
        r \in IF s.open /\ s.owed = 1 THEN {LastRect}
             ELSE Repertoires[s.repertoire].rectangles}

Others(s) ==
    {[parts |-> <<m>>,
      next |-> [s EXCEPT !.continuous = @ \/ m.type = "endOfContinuousUpdates",
                         !.fenced = @ \/ (m.type = "fence" /\ m.request)]] :
        m \in {x \in Repertoires[s.repertoire].messages :
                /\ x.type = "endOfContinuousUpdates" => ~s.continuous
                /\ x.type = "fence" => ~s.fenced}}

Says(s, asked) ==
    CASE s.phase # "normal" -> {}
      [] s.phase = "normal" /\ s.owed > 0 -> Continuation(s)
      [] OTHER -> Others(s) \cup IF asked \/ s.continuous THEN Updates(s) ELSE {}
=============================================================================
