---------------------------- MODULE GameProtocol ----------------------------
(***************************************************************************)
(* The three programs of the game.  A client asks the auth server for a    *)
(* token, takes its answer for one, connects to the game server and sends  *)
(* it every command it executed itself.  The game server never gets a      *)
(* token: it takes the first command of a session for one.  A message may  *)
(* arrive garbled; that a wrong length makes several messages of one, or   *)
(* one of several, is AsioLink's subject and left out here.                *)
(***************************************************************************)
EXTENDS Commands, FiniteSets, Functions

CONSTANTS
  Clients,
  Known,    (* the clients whose name and password the auth server has     *)
  Keys,     (* what the keys of a client do: parts of commands             *)
  Garbled,  (* a message that is not the one sent (see AsioLink)           *)
  MaxKeys,  (* bound: keys pressed at all clients                          *)
  MaxFaults (* bound: connections broken and clients with a garbled message *)

\* Name and password: not a command.
Login == [type |-> "login", by |-> 0]

ASSUME GameAssumption ==
  /\ Known \subseteq Clients
  /\ Keys \subseteq [type : {"Move", "Rotate"}, by : Int]
  /\ Garbled \notin Keys /\ Garbled # Login
  /\ Garbled \notin {"token", "bad format", "bad login"}
  /\ MaxKeys \in Nat
  /\ MaxFaults \in Nat

Servers == {"auth", "game"}

VARIABLES
  phase,          (* how far a client is                                   *)
  own,            (* the ship in a client's own world                      *)
  link,           (* a client's connection to a server                     *)
  wire,           (* messages on their way to a server                     *)
  answers,        (* messages on their way from the auth server            *)
  session,        (* the server's session for a client                     *)
  clients_,       (* clients_ of a server                                  *)
  authenticated_, (* authenticated_ of a game session                      *)
  ship,           (* what the game server's world has of a client's ship   *)
  running,        (* the game server runs and its turns end                *)
  trail,          (* history: own after each command                       *)
  handled,        (* history: messages of a client the game server handled *)
  spoilt          (* history: clients a message of which was garbled       *)

clientVars == <<phase, own, trail>>
serverVars == <<session, clients_, authenticated_, ship, running, handled>>
vars == <<clientVars, serverVars, link, wire, answers, spoilt>>

\* A ship where it was put, as a displacement from there.
NewShip == [p \in {"position", "rotation"} |-> 0]

NoShip == [p \in {} |-> 0]

Afloat(c) == HasProperty(ship[c], "position")

Init ==
  /\ phase = [c \in Clients |-> "start"]
  /\ own = [c \in Clients |-> NewShip]
  /\ link = [s \in Servers |-> [c \in Clients |-> "none"]]
  /\ wire = [s \in Servers |-> [c \in Clients |-> <<>>]]
  /\ answers = [c \in Clients |-> <<>>]
  /\ session = [s \in Servers |-> [c \in Clients |-> "none"]]
  /\ clients_ = [s \in Servers |-> {}]
  /\ authenticated_ = [c \in Clients |-> FALSE]
  /\ ship = [c \in Clients |-> NoShip]
  /\ running = TRUE
  /\ trail = [c \in Clients |-> <<NewShip>>]
  /\ handled = [c \in Clients |-> 0]
  /\ spoilt = {}

-----------------------------------------------------------------------------
(* A client.                                                               *)

\* Connected to the auth server: on_connect sends the login.
Ask(c) ==
  /\ phase[c] = "start"
  /\ phase' = [phase EXCEPT ![c] = "asked"]
  /\ link' = [link EXCEPT !["auth"][c] = "up"]
  /\ wire' = [wire EXCEPT !["auth"][c] = <<Login>>]
  /\ UNCHANGED <<own, trail, serverVars, answers, spoilt>>

\* Connections that broke under a client, and clients with a garbled message.
Faults ==
  Cardinality(spoilt)
    + Cardinality({p \in Servers \X Clients : link[p[1]][p[2]] = "cut" /\ phase[p[2]] # "left"})

\* A message that arrives is the one sent, or c is spoilt.
Arrives(m, c, sent) ==
  \/ m = sent /\ UNCHANGED spoilt
  \/ m = Garbled /\ Faults < MaxFaults /\ spoilt' = spoilt \cup {c}

\* on_message: an answer is a token unless its first byte is zero.
IsToken(m) == m \in {"token", "bad login"}

TakeAnswer(c) ==
  /\ phase[c] = "asked"
  /\ answers[c] # <<>>
  /\ \E m \in {Head(answers[c]), Garbled} :
       /\ Arrives(m, c, Head(answers[c]))
       /\ \/ (IsToken(m) \/ m = Garbled) /\ phase' = [phase EXCEPT ![c] = "entitled"]
          \/ ~IsToken(m) /\ UNCHANGED phase
  /\ answers' = [answers EXCEPT ![c] = Tail(@)]
  /\ UNCHANGED <<own, trail, serverVars, link, wire>>

\* Connected to the game server: on_connect lets the keys work.
Join(c) ==
  /\ phase[c] = "entitled"
  /\ running
  /\ phase' = [phase EXCEPT ![c] = "playing"]
  /\ link' = [link EXCEPT !["game"][c] = "up"]
  /\ UNCHANGED <<own, trail, serverVars, wire, answers, spoilt>>

\* A key's slot: the command is executed at home and sent.
Press(c, key) ==
  /\ phase[c] = "playing"
  /\ SumFunction([d \in Clients |-> Len(trail[d]) - 1]) < MaxKeys
  /\ own' = [own EXCEPT ![c] = Apply(key, @)]
  /\ trail' = [trail EXCEPT ![c] = Append(@, own'[c])]
  /\ wire' = IF link["game"][c] = "up"
             THEN [wire EXCEPT !["game"][c] = Append(@, key)] ELSE wire
  /\ UNCHANGED <<phase, serverVars, link, answers, spoilt>>

\* What was on its way may be lost, from some message on.
Cut(c, down) ==
  /\ link' = [s \in Servers |->
       IF s \in down /\ link[s][c] = "up" THEN [link[s] EXCEPT ![c] = "cut"] ELSE link[s]]
  /\ \E left \in [down -> 0 .. MaxKeys + 1] :
       /\ \A s \in down : left[s] <= Len(wire[s][c])
       /\ wire' = [s \in Servers |->
            IF s \in down THEN [wire[s] EXCEPT ![c] = SubSeq(@, 1, left[s])] ELSE wire[s]]

\* The window is closed, or the process dies.
Leave(c) ==
  /\ phase[c] # "left"
  /\ phase' = [phase EXCEPT ![c] = "left"]
  /\ answers' = [answers EXCEPT ![c] = <<>>]
  /\ Cut(c, Servers)
  /\ UNCHANGED <<own, trail, serverVars, spoilt>>

\* A connection breaks: no handler of the client tells it, and it plays on.
Break(s, c) ==
  /\ link[s][c] = "up"
  /\ Faults < MaxFaults
  /\ Cut(c, {s})
  /\ answers' = IF s = "auth" THEN [answers EXCEPT ![c] = <<>>] ELSE answers
  /\ UNCHANGED <<clientVars, serverVars, spoilt>>

-----------------------------------------------------------------------------
(* The servers.                                                            *)

Serving(s) == s = "game" => running

\* doAccept and the on_connect it calls.
Accept(s, c) ==
  /\ Serving(s)
  /\ link[s][c] # "none"
  /\ session[s][c] = "none"
  /\ session' = [session EXCEPT ![s][c] = "active"]
  /\ clients_' = [clients_ EXCEPT ![s] = @ \cup {c}]
  /\ ship' = IF s = "game" THEN [ship EXCEPT ![c] = NewShip] ELSE ship
  /\ UNCHANGED <<clientVars, authenticated_, running, handled, link, wire, answers, spoilt>>

\* The message at the head of a wire is taken from it.
Takes(s, c) ==
  /\ Serving(s)
  /\ session[s][c] = "active"
  /\ wire[s][c] # <<>>
  /\ wire' = [wire EXCEPT ![s][c] = Tail(@)]
  /\ UNCHANGED <<clientVars, session, clients_, link>>

\* Wrong on purpose: a refusal looks like a format error.
SameAnswer(c) == IF c \in Known THEN "token" ELSE "bad format"

\* The auth server's answer to a login.
Answer(c) == IF c \in Known THEN "token" ELSE "bad login"

\* on_message of the auth server.
HandleLogin(c) ==
  /\ Takes("auth", c)
  /\ \E m \in {Login, Garbled} :
       /\ Arrives(m, c, Login)
       /\ \E answer \in IF m = Login THEN {Answer(c)} ELSE {"bad format", "bad login"} :
            answers' = IF link["auth"][c] = "up"
                       THEN [answers EXCEPT ![c] = Append(@, answer)] ELSE answers
  /\ UNCHANGED <<authenticated_, ship, running, handled>>

\* DestroyEntity takes the position of a ship; the rest it may leave.
Wrecks(object) ==
  {Restrict(object, left) : left \in SUBSET (DOMAIN object \ {"position"})}

\* The turn after a command, over the ships it left: the collision system
\* destroys some of them, and may never come back.
Turn(ships) ==
  /\ running' \in BOOLEAN
  /\ \E lost \in SUBSET {c \in Clients : HasProperty(ships[c], "position")} :
       \E wrecks \in [lost -> UNION {Wrecks(ships[c]) : c \in lost}] :
         /\ \A c \in lost : wrecks[c] \in Wrecks(ships[c])
         /\ ship' = [c \in Clients |-> IF c \in lost THEN wrecks[c] ELSE ships[c]]

\* Wrong on purpose: no message is taken for a token.
NeverAToken(c) == FALSE

\* Whether the next message is taken for a token.
TakenForToken(c) == ~authenticated_[c]

\* on_message of the game server: a token, whatever it is, or a command.  What
\* is no command is dereferenced.
HandleMessage(c) ==
  /\ Takes("game", c)
  /\ handled' = [handled EXCEPT ![c] = @ + 1]
  /\ authenticated_' = [authenticated_ EXCEPT ![c] = TRUE]
  /\ \E m \in {Head(wire["game"][c]), Garbled} :
       /\ Arrives(m, c, Head(wire["game"][c]))
       /\ \/ TakenForToken(c) /\ UNCHANGED <<ship, running>>
          \/ /\ ~TakenForToken(c)
             /\ \E key \in IF m = Garbled THEN Keys ELSE {m} :
                  Turn([ship EXCEPT ![c] = Apply(key, @)])
          \/ /\ ~TakenForToken(c)
             /\ m = Garbled
             /\ running' = FALSE /\ UNCHANGED ship
  /\ UNCHANGED answers

\* Wrong on purpose: a session that got no token has no ship to destroy.
ShipOfPlayer(c) == IF authenticated_[c] THEN Wrecks(ship[c]) ELSE {ship[c]}

\* What a disconnect leaves of the ship of c.
ShipAfterDisconnect(c) == IF Afloat(c) THEN Wrecks(ship[c]) ELSE {ship[c]}

\* The auth server's on_disconnect is the one doAccept sets; the game server's
\* is its own and erases nobody.
ClientsAfterDisconnect(s, c) == IF s = "auth" THEN clients_[s] \ {c} ELSE clients_[s]

\* handleReadError and on_disconnect.
Disconnect(s, c) ==
  /\ Serving(s)
  /\ session[s][c] = "active"
  /\ link[s][c] = "cut"
  /\ wire[s][c] = <<>>
  /\ session' = [session EXCEPT ![s][c] = "closed"]
  /\ clients_' = [clients_ EXCEPT ![s] = ClientsAfterDisconnect(s, c)]
  /\ IF s = "auth" THEN UNCHANGED ship
     ELSE \E left \in ShipAfterDisconnect(c) : ship' = [ship EXCEPT ![c] = left]
  /\ UNCHANGED <<clientVars, authenticated_, running, handled, link, wire, answers, spoilt>>

Next == \E c \in Clients :
  \/ Ask(c)
  \/ TakeAnswer(c)
  \/ Join(c)
  \/ \E key \in Keys : Press(c, key)
  \/ Leave(c)
  \/ HandleLogin(c)
  \/ HandleMessage(c)
  \/ \E s \in Servers : Break(s, c) \/ Accept(s, c) \/ Disconnect(s, c)

\* Every program polls its connections in its main loop.
Fairness == \A c \in Clients :
  /\ WF_vars(TakeAnswer(c))
  /\ WF_vars(HandleLogin(c))
  /\ WF_vars(HandleMessage(c))
  /\ \A s \in Servers : WF_vars(Accept(s, c)) /\ WF_vars(Disconnect(s, c))

Spec == Init /\ [][Next]_vars /\ Fairness

-----------------------------------------------------------------------------
(* Properties.                                                             *)

\* A ship, and what may be left of one.
Objects == [{"position", "rotation"} -> Int] \cup [{"rotation"} -> Int] \cup {NoShip}

TypeOK ==
  /\ phase \in [Clients -> {"start", "asked", "entitled", "playing", "left"}]
  /\ own \in [Clients -> [{"position", "rotation"} -> Int]]
  /\ link \in [Servers -> [Clients -> {"none", "up", "cut"}]]
  /\ wire \in [Servers -> [Clients -> Seq(Keys \cup {Login})]]
  /\ \A c \in Clients : wire["game"][c] \in Seq(Keys)
  /\ answers \in [Clients -> Seq({"token", "bad format", "bad login"})]
  /\ session \in [Servers -> [Clients -> {"none", "active", "closed"}]]
  /\ clients_ \in [Servers -> SUBSET Clients]
  /\ authenticated_ \in [Clients -> BOOLEAN]
  /\ ship \in [Clients -> Objects]
  /\ running \in BOOLEAN
  /\ trail \in [Clients -> Seq([{"position", "rotation"} -> Int])]
  /\ handled \in [Clients -> Nat]
  /\ spoilt \subseteq Clients

\* Before the garbling of a message or its destruction, the ship the server has
\* is where the client's own was after as many keys as the server handled, but
\* for the first, which it took for the token: they differ by that key for ever.
ServerFollowsClient ==
  \A c \in Clients \ spoilt : Afloat(c) =>
    \A p \in {"position", "rotation"} :
      IF handled[c] = 0 THEN ship[c][p] = 0
      ELSE ship[c][p] = trail[c][handled[c] + 1][p] - trail[c][2][p]

\* The game server's world had a ship for c and has it no more.
Wrecked(c) == session["game"][c] # "none" /\ ~Afloat(c)

\* A ship that a turn or a disconnect destroyed stays destroyed: the commands
\* its client goes on sending, those still on the wire and those of the other
\* clients are executed all the same, and none of them puts it back.
WrecksStayWrecked == [][\A c \in Clients : Wrecked(c) => Wrecked(c)']_vars

\* The ship of a client that is gone does not stay, whether it ever sent
\* anything or not, unless the server hangs or dies.
GoneShipsAreRemoved ==
  \A c \in Clients :
    phase[c] = "left" ~> ~running \/ (~Afloat(c) /\ session["game"][c] # "active")

\* A client that waits for a token gets an answer that ends its loop, whoever it
\* is, unless its connection breaks or an answer is garbled.
AnswersEndTheWait ==
  \A c \in Clients :
    phase[c] = "asked" ~> phase[c] # "asked" \/ link["auth"][c] = "cut" \/ c \in spoilt
=============================================================================
