------------------------- MODULE GameProtocolProofs -------------------------
(***************************************************************************)
(* GameProtocol's types, that the game server's ships follow those of      *)
(* their players and that none that is gone comes back, for any clients,   *)
(* keys and number of faults.                                              *)
(***************************************************************************)
EXTENDS GameProtocol, SequenceTheorems, TLAPS

Whole == [{"position", "rotation"} -> Int]

Shift(key, p) == IF p = PropertyOf[key.type] THEN key.by ELSE 0

\* What a key's command does to a ship, or to what is left of one.
LEMMA ApplyKey ==
  ASSUME NEW key \in Keys, NEW object \in Objects
  PROVE  /\ Apply(key, object) \in Objects
         /\ DOMAIN Apply(key, object) = DOMAIN object
         /\ \A p \in DOMAIN object : Apply(key, object)[p] = object[p] + Shift(key, p)
<1>1. key.type \in {"Move", "Rotate"} /\ key.by \in Int
  BY GameAssumption
<1>2. ASSUME NEW value PROVE Changed(key, value) = value + key.by
  BY <1>1 DEF Changed
<1>3. DOMAIN Apply(key, object) = DOMAIN object
  BY DEF Apply
<1>4. \A p \in DOMAIN object : object[p] \in Int
  BY DEF Objects, NoShip
<1>5. \A p \in DOMAIN object : Apply(key, object)[p] = object[p] + Shift(key, p)
  BY <1>2, <1>4 DEF Apply, Shift
<1>6. \A p \in DOMAIN object : Apply(key, object)[p] \in Int
  BY <1>1, <1>4, <1>5 DEF Shift
<1>7. Apply(key, object) = [p \in DOMAIN object |-> Apply(key, object)[p]]
  BY DEF Apply
<1>8. Apply(key, object) \in [DOMAIN object -> Int]
  BY <1>6, <1>7
<1>9. DOMAIN object \in {{"position", "rotation"}, {"rotation"}, {}}
  BY DEF Objects, NoShip
<1>10. [{} -> Int] \subseteq {NoShip}
  BY DEF NoShip
<1>11. Apply(key, object) \in Objects
  BY <1>8, <1>9, <1>10 DEF Objects
<1>. QED
  BY <1>3, <1>5, <1>11

\* What is afloat has both properties.
LEMMA AfloatIsWhole ==
  ASSUME NEW object \in Objects, HasProperty(object, "position")
  PROVE  object \in Whole
BY DEF Objects, Whole, HasProperty, NoShip

\* What is left of a ship is not afloat.
LEMMA WrecksType ==
  ASSUME NEW object \in Objects, HasProperty(object, "position"), NEW left \in Wrecks(object)
  PROVE  left \in Objects /\ ~HasProperty(left, "position")
<1>1. object \in Whole
  BY AfloatIsWhole
<1>2. PICK props \in SUBSET (DOMAIN object \ {"position"}) : left = Restrict(object, props)
  BY DEF Wrecks
<1>3. props \in SUBSET {"rotation"}
  BY <1>1, <1>2 DEF Whole
<1>4. props = {} \/ props = {"rotation"}
  BY <1>3
<1>5. left = [p \in props |-> object[p]]
  BY <1>2 DEF Restrict
<1>6. \A p \in props : object[p] \in Int
  BY <1>1, <1>3 DEF Whole
<1>7. left \in [props -> Int] /\ DOMAIN left = props
  BY <1>5, <1>6
<1>8. [{} -> Int] \subseteq {NoShip}
  BY DEF NoShip
<1>. QED
  BY <1>4, <1>7, <1>8 DEF Objects, HasProperty

\* A turn keeps the type of the ships, and leaves a ship as it was or sinks it.
LEMMA TurnShips ==
  ASSUME NEW ships \in [Clients -> Objects], Turn(ships)
  PROVE  /\ ship' \in [Clients -> Objects]
         /\ running' \in BOOLEAN
         /\ \A c \in Clients : Afloat(c)' => ship'[c] = ships[c]
<1>1. PICK lost \in SUBSET {c \in Clients : HasProperty(ships[c], "position")} :
        \E wrecks \in [lost -> UNION {Wrecks(ships[c]) : c \in lost}] :
          /\ \A c \in lost : wrecks[c] \in Wrecks(ships[c])
          /\ ship' = [c \in Clients |-> IF c \in lost THEN wrecks[c] ELSE ships[c]]
  BY Zenon DEF Turn
<1>2. PICK wrecks \in [lost -> UNION {Wrecks(ships[c]) : c \in lost}] :
          /\ \A c \in lost : wrecks[c] \in Wrecks(ships[c])
          /\ ship' = [c \in Clients |-> IF c \in lost THEN wrecks[c] ELSE ships[c]]
  BY <1>1, Zenon
<1>3. \A c \in lost : wrecks[c] \in Objects /\ ~HasProperty(wrecks[c], "position")
  BY <1>2, WrecksType
<1>4. ship' \in [Clients -> Objects]
  BY <1>2, <1>3
<1>5. \A c \in Clients : Afloat(c)' => ship'[c] = ships[c]
  BY <1>2, <1>3 DEF Afloat
<1>6. running' \in BOOLEAN
  BY Zenon DEF Turn
<1>. QED
  BY <1>4, <1>5, <1>6

-----------------------------------------------------------------------------
(* Types.                                                                  *)

Wires ==
  {w \in [Servers -> [Clients -> Seq(Keys \cup {Login})]] :
     \A c \in Clients : w["game"][c] \in Seq(Keys)}
Links == [Servers -> [Clients -> {"none", "up", "cut"}]]

\* What Cut leaves of wires and links.
LEMMA CutType ==
  ASSUME NEW c \in Clients, NEW down \in SUBSET Servers, Cut(c, down),
         wire \in Wires, link \in Links
  PROVE  wire' \in Wires /\ link' \in Links
<1>1. link' \in Links
  BY DEF Cut, Links, Servers
<1>2. PICK left \in [down -> 0 .. MaxKeys + 1] :
       /\ \A s \in down : left[s] <= Len(wire[s][c])
       /\ wire' = [s \in Servers |->
            IF s \in down THEN [wire[s] EXCEPT ![c] = SubSeq(@, 1, left[s])] ELSE wire[s]]
  BY DEF Cut
<1>3. ASSUME NEW s \in down, NEW S, wire[s][c] \in Seq(S)
      PROVE  SubSeq(wire[s][c], 1, left[s]) \in Seq(S)
  <2>1. left[s] \in 0 .. MaxKeys + 1 /\ left[s] <= Len(wire[s][c])
    BY <1>2
  <2>2. left[s] \in Nat
    <3>1. \A n : n \in 0 .. MaxKeys + 1 => n \in Nat
      OBVIOUS
    <3>. QED
      BY <2>1, <3>1, Zenon
  <2>. QED
    BY <1>3, <2>1, <2>2, SubSeqProperties
<1>4. ASSUME NEW s \in Servers
      PROVE  wire'[s] \in [Clients -> Seq(Keys \cup {Login})]
  BY <1>2, <1>3 DEF Wires
<1>5. ASSUME NEW d \in Clients
      PROVE  wire'["game"][d] \in Seq(Keys)
  BY <1>2, <1>3 DEF Wires, Servers
<1>. QED
  BY <1>1, <1>2, <1>4, <1>5 DEF Wires

\* What Takes leaves of them.
LEMMA TakesType ==
  ASSUME NEW s \in Servers, NEW c \in Clients, Takes(s, c), wire \in Wires
  PROVE  wire' \in Wires
<1>1. wire[s][c] \in Seq(Keys \cup {Login}) /\ wire[s][c] # <<>>
  BY DEF Takes, Wires
<1>2. Tail(wire[s][c]) \in Seq(Keys \cup {Login})
  BY <1>1
<1>3. s = "game" => Tail(wire[s][c]) \in Seq(Keys)
  BY <1>1 DEF Wires
<1>4. wire' = [wire EXCEPT ![s][c] = Tail(wire[s][c])]
  BY DEF Takes
<1>5. wire' \in [Servers -> [Clients -> Seq(Keys \cup {Login})]]
  BY <1>2, <1>4 DEF Wires
<1>6. \A d \in Clients : wire'["game"][d] \in Seq(Keys)
  BY <1>3, <1>4 DEF Wires, Servers
<1>. QED
  BY <1>5, <1>6 DEF Wires

Answers == Seq({"token", "bad format", "bad login"})

\* Every initial state is well typed.
LEMMA TypeInit == Init => TypeOK
<1>. SUFFICES ASSUME Init PROVE TypeOK
  OBVIOUS
<1>1. NewShip \in Whole /\ NoShip \in Objects /\ NewShip \in Objects
  BY DEF NewShip, NoShip, Objects, Whole
<1>2. <<NewShip>> \in Seq(Whole)
  BY <1>1
<1>3. <<>> \in Answers /\ <<>> \in Seq(Keys \cup {Login})
  BY DEF Answers
<1>4. trail \in [Clients -> Seq(Whole)] /\ own \in [Clients -> Whole]
  BY <1>1, <1>2 DEF Init
<1>5. ship \in [Clients -> Objects]
  BY <1>1 DEF Init
<1>6. answers \in [Clients -> Answers]
  BY <1>3 DEF Init
<1>9. wire \in Wires
  <2>1. wire \in [Servers -> [Clients -> Seq(Keys \cup {Login})]]
    BY <1>3 DEF Init
  <2>2. \A d \in Clients : wire["game"][d] = <<>>
    BY DEF Init, Servers
  <2>3. <<>> \in Seq(Keys)
    OBVIOUS
  <2>. QED
    BY <2>1, <2>2, <2>3 DEF Wires
<1>7. authenticated_ \in [Clients -> BOOLEAN] /\ running \in BOOLEAN
  BY DEF Init
<1>8. /\ phase \in [Clients -> {"start", "asked", "entitled", "playing", "left"}]
      /\ link \in Links
      /\ session \in [Servers -> [Clients -> {"none", "active", "closed"}]]
      /\ clients_ \in [Servers -> SUBSET Clients]
      /\ handled \in [Clients -> Nat]
      /\ spoilt \subseteq Clients
  BY DEF Init, Links
<1>. QED
  BY <1>4, <1>5, <1>6, <1>7, <1>8, <1>9 DEF TypeOK, Whole, Wires, Links, Answers

\* Every step keeps the type.
LEMMA TypeNext == TypeOK /\ [Next]_vars => TypeOK'
<1>. SUFFICES ASSUME TypeOK, [Next]_vars PROVE TypeOK'
  OBVIOUS
<1>0. /\ wire \in Wires /\ link \in Links /\ answers \in [Clients -> Answers]
      /\ own \in [Clients -> Whole] /\ trail \in [Clients -> Seq(Whole)]
      /\ ship \in [Clients -> Objects]
  BY DEF TypeOK, Wires, Links, Answers, Whole
<1>1. ASSUME NEW c \in Clients, Ask(c) PROVE TypeOK'
  <2>1. <<Login>> \in Seq(Keys \cup {Login})
    OBVIOUS
  <2>2. wire' \in Wires
    BY <1>0, <1>1, <2>1 DEF Ask, Wires, Servers
  <2>3. link' \in Links
    BY <1>0, <1>1 DEF Ask, Links
  <2>4. phase' \in [Clients -> {"start", "asked", "entitled", "playing", "left"}]
    BY <1>1 DEF Ask, TypeOK
  <2>. QED
    BY <1>1, <2>2, <2>3, <2>4 DEF Ask, TypeOK, Wires, Links, serverVars
<1>2. ASSUME NEW c \in Clients, TakeAnswer(c) PROVE TypeOK'
  <2>1. answers[c] \in Answers /\ answers[c] # <<>>
    BY <1>0, <1>2 DEF TakeAnswer
  <2>2. Tail(answers[c]) \in Answers
    BY <2>1, HeadTailProperties DEF Answers
  <2>3. answers' \in [Clients -> Answers]
    BY <1>0, <1>2, <2>2 DEF TakeAnswer
  <2>4. phase' \in [Clients -> {"start", "asked", "entitled", "playing", "left"}]
    BY <1>2 DEF TakeAnswer, TypeOK
  <2>5. spoilt' \subseteq Clients
    BY <1>2 DEF TakeAnswer, Arrives, TypeOK
  <2>. QED
    BY <1>2, <2>3, <2>4, <2>5 DEF TakeAnswer, TypeOK, Answers, serverVars
<1>3. ASSUME NEW c \in Clients, Join(c) PROVE TypeOK'
  <2>1. link' \in Links
    BY <1>0, <1>3 DEF Join, Links
  <2>2. phase' \in [Clients -> {"start", "asked", "entitled", "playing", "left"}]
    BY <1>3 DEF Join, TypeOK
  <2>. QED
    BY <1>3, <2>1, <2>2 DEF Join, TypeOK, Links, serverVars
<1>4. ASSUME NEW c \in Clients, NEW key \in Keys, Press(c, key) PROVE TypeOK'
  <2>1. own[c] \in Objects /\ DOMAIN own[c] = {"position", "rotation"}
    BY <1>0 DEF Objects, Whole
  <2>2. Apply(key, own[c]) \in Whole
    BY <2>1, ApplyKey DEF Objects, Whole, NoShip
  <2>3. own' \in [Clients -> Whole] /\ own'[c] \in Whole
    BY <1>0, <1>4, <2>2 DEF Press
  <2>4. trail' \in [Clients -> Seq(Whole)]
    BY <1>0, <1>4, <2>3 DEF Press
  <2>5. wire' \in Wires
    <3>1. Append(wire["game"][c], key) \in Seq(Keys)
      BY <1>0 DEF Wires, Servers
    <3>2. Append(wire["game"][c], key) \in Seq(Keys \cup {Login})
      BY <1>0 DEF Wires, Servers
    <3>. QED
      BY <1>0, <1>4, <3>1, <3>2 DEF Press, Wires, Servers
  <2>. QED
    BY <1>4, <2>3, <2>4, <2>5 DEF Press, TypeOK, Wires, Whole, serverVars
<1>5. ASSUME NEW c \in Clients, Leave(c) PROVE TypeOK'
  <2>1. wire' \in Wires /\ link' \in Links
    BY <1>0, <1>5, CutType DEF Leave
  <2>2. answers' \in [Clients -> Answers]
    <3>1. <<>> \in Answers
      BY DEF Answers
    <3>. QED
      BY <1>0, <1>5, <3>1 DEF Leave
  <2>3. phase' \in [Clients -> {"start", "asked", "entitled", "playing", "left"}]
    BY <1>5 DEF Leave, TypeOK
  <2>. QED
    BY <1>5, <2>1, <2>2, <2>3 DEF Leave, TypeOK, Wires, Links, Answers, serverVars
<1>6. ASSUME NEW c \in Clients, NEW s \in Servers, Break(s, c) PROVE TypeOK'
  <2>1. wire' \in Wires /\ link' \in Links
    BY <1>0, <1>6, CutType DEF Break
  <2>2. answers' \in [Clients -> Answers]
    <3>1. <<>> \in Answers
      BY DEF Answers
    <3>. QED
      BY <1>0, <1>6, <3>1 DEF Break
  <2>. QED
    BY <1>6, <2>1, <2>2 DEF Break, TypeOK, Wires, Links, Answers, serverVars, clientVars
<1>7. ASSUME NEW c \in Clients, HandleLogin(c) PROVE TypeOK'
  <2>1. wire' \in Wires
    BY <1>0, <1>7, TakesType DEF HandleLogin, Servers
  <2>2. PICK answer \in {"token", "bad format", "bad login"} :
          answers' = IF link["auth"][c] = "up"
                     THEN [answers EXCEPT ![c] = Append(@, answer)] ELSE answers
    BY <1>7 DEF HandleLogin, Answer
  <2>3. answers' \in [Clients -> Answers]
    <3>1. Append(answers[c], answer) \in Answers
      BY <1>0, AppendProperties DEF Answers
    <3>. QED
      BY <1>0, <2>2, <3>1
  <2>4. spoilt' \subseteq Clients
    BY <1>7 DEF HandleLogin, Arrives, TypeOK
  <2>. QED
    BY <1>7, <2>1, <2>3, <2>4 DEF HandleLogin, Takes, TypeOK, Wires, Answers, clientVars
<1>8. ASSUME NEW c \in Clients, HandleMessage(c) PROVE TypeOK'
  <2>1. wire' \in Wires
    BY <1>0, <1>8, TakesType DEF HandleMessage, Servers
  <2>2. Head(wire["game"][c]) \in Keys
    BY <1>0, <1>8, HeadTailProperties DEF HandleMessage, Takes, Wires
  <2>3. ship' \in [Clients -> Objects] /\ running' \in BOOLEAN
    <3>1. CASE UNCHANGED ship /\ running' \in {running, FALSE}
      BY <1>0, <3>1 DEF TypeOK
    <3>2. ASSUME NEW key \in Keys, Turn([ship EXCEPT ![c] = Apply(key, ship[c])])
          PROVE  ship' \in [Clients -> Objects] /\ running' \in BOOLEAN
      <4>1. [ship EXCEPT ![c] = Apply(key, ship[c])] \in [Clients -> Objects]
        BY <1>0, ApplyKey
      <4>. QED
        BY <3>2, <4>1, TurnShips
    <3>. QED
      BY <1>8, <2>2, <3>1, <3>2 DEF HandleMessage
  <2>4. spoilt' \subseteq Clients
    BY <1>8 DEF HandleMessage, Arrives, TypeOK
  <2>5. handled' \in [Clients -> Nat]
    <3>1. handled' = [handled EXCEPT ![c] = handled[c] + 1]
      BY <1>8 DEF HandleMessage
    <3>2. handled \in [Clients -> Nat]
      BY DEF TypeOK
    <3>3. handled[c] \in Nat
      BY <3>2
    <3>4. handled[c] + 1 \in Nat
      BY <3>3
    <3>. QED
      BY <3>1, <3>2, <3>4
  <2>6. authenticated_' \in [Clients -> BOOLEAN]
    BY <1>8, Zenon DEF HandleMessage, TypeOK
  <2>. QED
    BY <1>8, <2>1, <2>3, <2>4, <2>5, <2>6 DEF HandleMessage, Takes, TypeOK, Wires, clientVars
<1>9. ASSUME NEW c \in Clients, NEW s \in Servers, Accept(s, c) PROVE TypeOK'
  <2>1. NewShip \in Objects
    BY DEF NewShip, Objects
  <2>2. ship' \in [Clients -> Objects]
    BY <1>0, <1>9, <2>1 DEF Accept
  <2>3. session' \in [Servers -> [Clients -> {"none", "active", "closed"}]]
    BY <1>9 DEF Accept, TypeOK
  <2>4. clients_' \in [Servers -> SUBSET Clients]
    BY <1>9 DEF Accept, TypeOK
  <2>. QED
    BY <1>9, <2>2, <2>3, <2>4 DEF Accept, TypeOK, clientVars
<1>10. ASSUME NEW c \in Clients, NEW s \in Servers, Disconnect(s, c) PROVE TypeOK'
  <2>1. \A left \in ShipAfterDisconnect(c) : left \in Objects
    BY <1>0, WrecksType DEF ShipAfterDisconnect, Afloat
  <2>2. ship' \in [Clients -> Objects]
    BY <1>0, <1>10, <2>1 DEF Disconnect
  <2>3. session' \in [Servers -> [Clients -> {"none", "active", "closed"}]]
    BY <1>10 DEF Disconnect, TypeOK
  <2>4. clients_' \in [Servers -> SUBSET Clients]
    BY <1>10 DEF Disconnect, ClientsAfterDisconnect, TypeOK
  <2>. QED
    BY <1>10, <2>2, <2>3, <2>4 DEF Disconnect, TypeOK, clientVars
<1>11. CASE UNCHANGED vars
  BY <1>11 DEF TypeOK, vars, clientVars, serverVars
<1>. QED
  BY <1>1, <1>2, <1>3, <1>4, <1>5, <1>6, <1>7, <1>8, <1>9, <1>10, <1>11 DEF Next

\* Every reachable state is well typed.
THEOREM TypeCorrect == Spec => []TypeOK
<1>. QED
  BY TypeInit, TypeNext, PTL DEF Spec

-----------------------------------------------------------------------------
(* Following.                                                              *)

Props == {"position", "rotation"}

\* The keys on the wire are those of the trail after the first h.
Carried(T, h, w) ==
  /\ h + Len(w) + 1 <= Len(T)
  /\ \A i \in 1 .. Len(w) : \A p \in Props : T[h + i + 1][p] = T[h + i][p] + Shift(w[i], p)

\* The ship is where the trail was after h keys, without the first.
Matches(object, T, h) ==
  \A p \in Props : IF h = 0 THEN object[p] = 0 ELSE object[p] = T[h + 1][p] - T[2][p]

\* A key that is handled.
LEMMA CarriedTail ==
  ASSUME NEW T \in Seq(Whole), NEW h \in Nat, NEW w \in Seq(Keys), w # <<>>, Carried(T, h, w)
  PROVE  /\ Carried(T, h + 1, Tail(w))
         /\ \A p \in Props : T[h + 2][p] = T[h + 1][p] + Shift(Head(w), p)
         /\ h + Len(w) = h + 1 + Len(Tail(w))
         /\ Len(T) >= h + 2
<1>1. /\ Len(w) \in Nat /\ Len(w) >= 1 /\ Len(Tail(w)) = Len(w) - 1
      /\ Head(w) = w[1]
      /\ \A i \in 1 .. Len(Tail(w)) : Tail(w)[i] = w[i + 1]
  BY HeadTailProperties, EmptySeq
<1>2. \A i \in 1 .. Len(Tail(w)) : \A p \in Props :
        T[(h + 1) + i + 1][p] = T[(h + 1) + i][p] + Shift(Tail(w)[i], p)
  <2>. SUFFICES ASSUME NEW i \in 1 .. Len(Tail(w)), NEW p \in Props
                PROVE  T[(h + 1) + i + 1][p] = T[(h + 1) + i][p] + Shift(Tail(w)[i], p)
    OBVIOUS
  <2>1. i \in Nat /\ i + 1 \in 1 .. Len(w)
    BY <1>1
  <2>2. T[h + (i + 1) + 1][p] = T[h + (i + 1)][p] + Shift(w[i + 1], p)
    BY <2>1 DEF Carried
  <2>3. h + (i + 1) + 1 = (h + 1) + i + 1 /\ h + (i + 1) = (h + 1) + i
    BY <2>1
  <2>. QED
    BY <1>1, <2>2, <2>3
<1>3. Len(T) \in Nat /\ h + Len(w) + 1 <= Len(T)
  BY DEF Carried
<1>4. (h + 1) + Len(Tail(w)) + 1 <= Len(T)
  BY <1>1, <1>3
<1>5. \A p \in Props : T[h + 2][p] = T[h + 1][p] + Shift(Head(w), p)
  <2>1. 1 \in 1 .. Len(w) /\ h + 1 + 1 = h + 2
    BY <1>1
  <2>. QED
    BY <1>1, <2>1 DEF Carried
<1>6. h + Len(w) = h + 1 + Len(Tail(w)) /\ Len(T) >= h + 2
  BY <1>1, <1>3
<1>. QED
  BY <1>2, <1>4, <1>5, <1>6 DEF Carried

\* A key that is executed and sent.
LEMMA CarriedAppend ==
  ASSUME NEW T \in Seq(Whole), NEW h \in Nat, NEW w \in Seq(Keys), Carried(T, h, w),
         h + Len(w) + 1 = Len(T),
         NEW key \in Keys, NEW y \in Whole,
         \A p \in Props : y[p] = T[Len(T)][p] + Shift(key, p)
  PROVE  /\ Carried(Append(T, y), h, Append(w, key))
         /\ h + Len(Append(w, key)) + 1 = Len(Append(T, y))
<1>. DEFINE v == Append(w, key)
            U == Append(T, y)
<1>1. /\ Len(v) = Len(w) + 1 /\ v[Len(w) + 1] = key
      /\ \A i \in 1 .. Len(w) : v[i] = w[i]
  BY AppendProperties
<1>2. /\ Len(U) = Len(T) + 1 /\ U[Len(T) + 1] = y
      /\ \A i \in 1 .. Len(T) : U[i] = T[i]
  BY AppendProperties
<1>3. Len(w) \in Nat /\ Len(T) \in Nat
  OBVIOUS
<1>. HIDE DEF v, U
<1>4. h + Len(v) + 1 = Len(U)
  BY <1>1, <1>2, <1>3
<1>5. ASSUME NEW i \in 1 .. Len(v), NEW p \in Props
      PROVE  U[h + i + 1][p] = U[h + i][p] + Shift(v[i], p)
  <2>1. CASE i = Len(w) + 1
    <3>1. h + i + 1 = Len(T) + 1 /\ h + i = Len(T) /\ Len(T) \in 1 .. Len(T)
      BY <1>3, <2>1
    <3>. QED
      BY <1>1, <1>2, <2>1, <3>1
  <2>2. CASE i # Len(w) + 1
    <3>1. i \in 1 .. Len(w)
      BY <1>1, <1>3, <2>2
    <3>2. h + i + 1 \in 1 .. Len(T) /\ h + i \in 1 .. Len(T)
      BY <1>3, <3>1
    <3>3. T[h + i + 1][p] = T[h + i][p] + Shift(w[i], p)
      BY <3>1 DEF Carried
    <3>. QED
      BY <1>1, <1>2, <3>1, <3>2, <3>3
  <2>. QED
    BY <2>1, <2>2
<1>6. h + Len(v) + 1 <= Len(U)
  BY <1>1, <1>2, <1>3, <1>4
<1>7. Carried(U, h, v)
  BY <1>5, <1>6 DEF Carried
<1>. QED
  BY <1>4, <1>7 DEF v, U

\* A key that is executed only.
LEMMA CarriedGrows ==
  ASSUME NEW T \in Seq(Whole), NEW h \in Nat, NEW w \in Seq(Keys), Carried(T, h, w),
         NEW y \in Whole
  PROVE  /\ Carried(Append(T, y), h, w)
         /\ \A object : Matches(object, T, h) => Matches(object, Append(T, y), h)
<1>. DEFINE U == Append(T, y)
<1>1. Len(U) = Len(T) + 1 /\ \A i \in 1 .. Len(T) : U[i] = T[i]
  BY AppendProperties
<1>2. Len(w) \in Nat /\ Len(T) \in Nat
  OBVIOUS
<1>3. h + Len(w) + 1 <= Len(T)
  BY DEF Carried
<1>. HIDE DEF U
<1>4. h + Len(w) + 1 <= Len(U)
  BY <1>1, <1>2, <1>3
<1>5. ASSUME NEW i \in 1 .. Len(w), NEW p \in Props
      PROVE  U[h + i + 1][p] = U[h + i][p] + Shift(w[i], p)
  <2>1. h + i + 1 \in 1 .. Len(T) /\ h + i \in 1 .. Len(T)
    BY <1>2, <1>3
  <2>2. T[h + i + 1][p] = T[h + i][p] + Shift(w[i], p)
    BY DEF Carried
  <2>. QED
    BY <1>1, <2>1, <2>2
<1>6. ASSUME NEW object, Matches(object, T, h) PROVE Matches(object, U, h)
  <2>1. CASE h = 0
    BY <1>6, <2>1 DEF Matches
  <2>2. CASE h # 0
    <3>1. h + 1 \in 1 .. Len(T) /\ 2 \in 1 .. Len(T)
      BY <1>2, <1>3, <2>2
    <3>. QED
      BY <1>1, <1>6, <2>2, <3>1 DEF Matches
  <2>. QED
    BY <2>1, <2>2
<1>7. Carried(U, h, w)
  BY <1>4, <1>5 DEF Carried
<1>. QED
  BY <1>6, <1>7 DEF U

\* Keys that are lost.
LEMMA CarriedCut ==
  ASSUME NEW T \in Seq(Whole), NEW h \in Nat, NEW w \in Seq(Keys), Carried(T, h, w),
         NEW n \in Nat, n <= Len(w)
  PROVE  Carried(T, h, SubSeq(w, 1, n))
<1>. DEFINE v == SubSeq(w, 1, n)
<1>1. Len(v) = n /\ \A i \in 1 .. n : v[i] = w[i]
  BY SubSeqProperties
<1>2. Len(w) \in Nat /\ Len(T) \in Nat /\ h + Len(w) + 1 <= Len(T)
  BY DEF Carried
<1>. HIDE DEF v
<1>3. h + Len(v) + 1 <= Len(T)
  BY <1>1, <1>2
<1>4. ASSUME NEW i \in 1 .. Len(v), NEW p \in Props
      PROVE  T[h + i + 1][p] = T[h + i][p] + Shift(v[i], p)
  <2>1. i \in 1 .. Len(w) /\ v[i] = w[i]
    BY <1>1, <1>2
  <2>. QED
    BY <2>1 DEF Carried
<1>5. Carried(T, h, v)
  BY <1>3, <1>4 DEF Carried
<1>. QED
  BY <1>5 DEF v

(***************************************************************************)
(* The inductive invariant, part by part, for a client.                    *)
(***************************************************************************)
SentInOrder(c) == Carried(trail[c], handled[c], wire["game"][c])

AllSent(c) ==
  link["game"][c] = "up" => handled[c] + Len(wire["game"][c]) + 1 = Len(trail[c])

AtTheEnd(c) == own[c] = trail[c][Len(trail[c])]

NotYet(c) == phase[c] \in {"start", "asked", "entitled"} => Len(trail[c]) = 1

Entered(c) == authenticated_[c] <=> handled[c] # 0

Unserved(c) == session["game"][c] = "none" => handled[c] = 0

InStep(c) == c \notin spoilt /\ Afloat(c) => Matches(ship[c], trail[c], handled[c])

Follows(c) ==
  /\ SentInOrder(c)
  /\ AllSent(c)
  /\ AtTheEnd(c)
  /\ NotYet(c)
  /\ Entered(c)
  /\ Unserved(c)
  /\ InStep(c)

IInv == TypeOK /\ \A c \in Clients : Follows(c)

\* What the parts need of the types.
LEMMA Typed ==
  ASSUME TypeOK, NEW c \in Clients
  PROVE  /\ trail[c] \in Seq(Whole)
         /\ handled[c] \in Nat
         /\ wire["game"][c] \in Seq(Keys)
         /\ own[c] \in Whole
         /\ ship[c] \in Objects
BY DEF TypeOK, Whole

LEMMA FollowsInit == Init => \A c \in Clients : Follows(c)
<1>. SUFFICES ASSUME Init, NEW c \in Clients PROVE Follows(c)
  OBVIOUS
<1>1. /\ trail[c] = <<NewShip>> /\ handled[c] = 0 /\ wire["game"][c] = <<>>
      /\ own[c] = NewShip /\ ship[c] = NoShip /\ link["game"][c] = "none"
  BY DEF Init, Servers
<1>2. Len(trail[c]) = 1 /\ trail[c][1] = NewShip /\ Len(wire["game"][c]) = 0
  BY <1>1
<1>3. authenticated_[c] = FALSE
  BY DEF Init
<1>4. SentInOrder(c) /\ AllSent(c) /\ AtTheEnd(c) /\ NotYet(c)
  BY <1>1, <1>2 DEF SentInOrder, Carried, AllSent, AtTheEnd, NotYet
<1>5. Entered(c)
  BY <1>1, <1>3 DEF Entered
<1>6. Unserved(c) /\ InStep(c)
  BY <1>1 DEF Unserved, InStep, Afloat, HasProperty, NoShip
<1>. QED
  BY <1>4, <1>5, <1>6 DEF Follows

\* A step that leaves what the parts of d are about follows.
LEMMA Apart ==
  ASSUME NEW d \in Clients, Follows(d),
         trail'[d] = trail[d], handled'[d] = handled[d],
         wire'["game"][d] = wire["game"][d], own'[d] = own[d],
         link'["game"][d] = "up" => link["game"][d] = "up" \/ Len(trail[d]) = 1,
         phase'[d] \in {"start", "asked", "entitled"}
           => phase[d] \in {"start", "asked", "entitled"},
         authenticated_'[d] <=> authenticated_[d],
         session'["game"][d] = "none" => session["game"][d] = "none",
         spoilt \subseteq spoilt',
         TypeOK,
         Afloat(d)' => ship'[d] = ship[d]
  PROVE  Follows(d)'
<1>1. SentInOrder(d)'
  BY DEF Follows, SentInOrder
<1>2. AllSent(d)'
  <2>1. CASE link["game"][d] = "up"
    BY <2>1 DEF Follows, AllSent
  <2>2. CASE Len(trail[d]) = 1
    <3>1. Len(wire["game"][d]) \in Nat /\ handled[d] \in Nat
      BY Typed
    <3>2. handled[d] + Len(wire["game"][d]) + 1 <= Len(trail[d])
      BY DEF Follows, SentInOrder, Carried
    <3>3. handled[d] + Len(wire["game"][d]) + 1 = Len(trail[d])
      BY <2>2, <3>1, <3>2
    <3>. QED
      BY <3>3 DEF AllSent
  <2>. QED
    BY <2>1, <2>2 DEF AllSent
<1>3. AtTheEnd(d)' /\ NotYet(d)' /\ Unserved(d)'
  BY DEF Follows, AtTheEnd, NotYet, Unserved
<1>4. Entered(d)'
  BY Zenon DEF Follows, Entered
<1>5. InStep(d)'
  <2>1. Afloat(d)' => Afloat(d)
    BY DEF Afloat
  <2>. QED
    BY <2>1 DEF Follows, InStep
<1>. QED
  BY <1>1, <1>2, <1>3, <1>4, <1>5 DEF Follows

\* Cut loses a tail of what is on the wire of c.
LEMMA CutFollows ==
  ASSUME TypeOK, NEW c \in Clients, NEW d \in Clients, Follows(d),
         NEW down \in SUBSET Servers, Cut(c, down)
  PROVE  /\ SentInOrder(d) /\ UNCHANGED <<trail, handled>> => SentInOrder(d)'
         /\ d # c \/ "game" \notin down => wire'["game"][d] = wire["game"][d]
         /\ link'["game"][d] = "up" => link["game"][d] = "up"
         /\ link'["game"][d] = "up" => wire'["game"][d] = wire["game"][d]
<1>0. link \in Links /\ wire \in Wires /\ "game" \in Servers
  BY DEF TypeOK, Links, Wires, Servers
<1>1. PICK left \in [down -> 0 .. MaxKeys + 1] :
       /\ \A s \in down : left[s] <= Len(wire[s][c])
       /\ wire' = [s \in Servers |->
            IF s \in down THEN [wire[s] EXCEPT ![c] = SubSeq(@, 1, left[s])] ELSE wire[s]]
  BY DEF Cut
<1>2. d # c \/ "game" \notin down => wire'["game"][d] = wire["game"][d]
  BY <1>0, <1>1 DEF Wires
<1>3. CASE d = c /\ "game" \in down
  <2>1. wire'["game"][c] = SubSeq(wire["game"][c], 1, left["game"])
    BY <1>0, <1>1, <1>3 DEF Wires
  <2>2. left["game"] \in 0 .. MaxKeys + 1 /\ left["game"] <= Len(wire["game"][c])
    BY <1>1, <1>3
  <2>3. \A n : n \in 0 .. MaxKeys + 1 => n \in Nat
    OBVIOUS
  <2>4. left["game"] \in Nat
    BY <2>2, <2>3, Zenon
  <2>5. SentInOrder(c) => Carried(trail[c], handled[c], wire'["game"][c])
    BY <2>1, <2>2, <2>4, CarriedCut, Typed DEF SentInOrder
  <2>6. SentInOrder(c) /\ UNCHANGED <<trail, handled>> => SentInOrder(c)'
    BY <2>5 DEF SentInOrder
  <2>7. link'["game"][c] # "up"
    BY <1>0, <1>3 DEF Cut, Links
  <2>. QED
    BY <1>3, <2>6, <2>7
<1>4. CASE ~(d = c /\ "game" \in down)
  <2>1. wire'["game"][d] = wire["game"][d]
    BY <1>2, <1>4
  <2>2. SentInOrder(d) /\ UNCHANGED <<trail, handled>> => SentInOrder(d)'
    BY <2>1 DEF SentInOrder
  <2>3. link'["game"][d] = "up" => link["game"][d] = "up"
    BY <1>0, <1>4 DEF Cut, Links
  <2>. QED
    BY <2>1, <2>2, <2>3
<1>. QED
  BY <1>3, <1>4

\* A message of the auth server's protocol garbled or not: no client is cured.
LEMMA OnlySpoils ==
  ASSUME NEW m, NEW c, NEW sent, Arrives(m, c, sent)
  PROVE  spoilt \subseteq spoilt' /\ (m = sent \/ c \in spoilt')
BY DEF Arrives

LEMMA PressFollows ==
  ASSUME TypeOK, NEW c \in Clients, NEW key \in Keys, Press(c, key), Follows(c)
  PROVE  Follows(c)'
<1>. DEFINE T == trail[c]
            w == wire["game"][c]
            h == handled[c]
            y == Apply(key, own[c])
<1>1. T \in Seq(Whole) /\ h \in Nat /\ w \in Seq(Keys) /\ own[c] \in Whole
  BY Typed
<1>2. y \in Whole /\ \A p \in Props : y[p] = own[c][p] + Shift(key, p)
  <2>1. own[c] \in Objects /\ DOMAIN own[c] = Props
    BY <1>1 DEF Objects, Whole, Props
  <2>. QED
    BY <2>1, ApplyKey DEF Objects, Whole, NoShip, Props
<1>3. own'[c] = y /\ trail'[c] = Append(T, y) /\ h' = h
  BY DEF Press, TypeOK, serverVars
<1>4. /\ UNCHANGED <<phase, link, ship, spoilt, authenticated_, session, handled>>
      /\ phase[c] = "playing"
      /\ link["game"][c] = "up" => w' = Append(w, key)
      /\ link["game"][c] # "up" => w' = w
  BY DEF Press, serverVars, TypeOK, Servers
<1>5. own[c] = T[Len(T)]
  BY DEF Follows, AtTheEnd
<1>. HIDE DEF y
<1>6. SentInOrder(c)' /\ AllSent(c)'
  <2>1. CASE link["game"][c] = "up"
    <3>1. Carried(T, h, w) /\ h + Len(w) + 1 = Len(T)
      BY <2>1 DEF Follows, SentInOrder, AllSent
    <3>2. \A p \in Props : y[p] = T[Len(T)][p] + Shift(key, p)
      BY <1>2, <1>5
    <3>3. /\ Carried(Append(T, y), h, Append(w, key))
          /\ h + Len(Append(w, key)) + 1 = Len(Append(T, y))
      BY <1>1, <1>2, <3>1, <3>2, CarriedAppend
    <3>. QED
      BY <1>3, <1>4, <2>1, <3>3 DEF SentInOrder, AllSent
  <2>2. CASE link["game"][c] # "up"
    <3>1. Carried(T, h, w)
      BY DEF Follows, SentInOrder
    <3>2. Carried(Append(T, y), h, w)
      BY <1>1, <1>2, <3>1, CarriedGrows
    <3>. QED
      BY <1>3, <1>4, <2>2, <3>2 DEF SentInOrder, AllSent
  <2>. QED
    BY <2>1, <2>2
<1>7. AtTheEnd(c)'
  <2>1. Append(T, y)[Len(Append(T, y))] = y
    BY <1>1, <1>2, AppendProperties
  <2>. QED
    BY <1>3, <2>1 DEF AtTheEnd
<1>8. NotYet(c)' /\ Unserved(c)'
  BY <1>4 DEF NotYet, Unserved, Follows
<1>9. Entered(c)'
  BY <1>4, Zenon DEF Entered, Follows
<1>10. InStep(c)'
  <2>1. Carried(T, h, w)
    BY DEF Follows, SentInOrder
  <2>2. Matches(ship[c], T, h) => Matches(ship[c], Append(T, y), h)
    BY <1>1, <1>2, <2>1, CarriedGrows
  <2>. QED
    BY <1>3, <1>4, <2>2 DEF InStep, Follows, Afloat
<1>. QED
  BY <1>6, <1>7, <1>8, <1>9, <1>10 DEF Follows

LEMMA HandleMessageFollows ==
  ASSUME TypeOK, NEW c \in Clients, HandleMessage(c), Follows(c)
  PROVE  Follows(c)'
<1>. DEFINE T == trail[c]
            w == wire["game"][c]
            h == handled[c]
<1>1. T \in Seq(Whole) /\ h \in Nat /\ w \in Seq(Keys) /\ ship[c] \in Objects
  BY Typed
<1>2. /\ w # <<>> /\ w' = Tail(w)
      /\ UNCHANGED <<trail, own, phase, link, session>>
      /\ session["game"][c] = "active"
  BY DEF HandleMessage, Takes, clientVars, TypeOK, Servers
<1>3. handled' = [handled EXCEPT ![c] = handled[c] + 1]
  BY DEF HandleMessage
<1>4. h' = h + 1
  BY <1>3 DEF TypeOK
<1>5. /\ Carried(T, h + 1, Tail(w))
      /\ \A p \in Props : T[h + 2][p] = T[h + 1][p] + Shift(Head(w), p)
      /\ h + Len(w) = h + 1 + Len(Tail(w))
      /\ Len(T) >= h + 2
  BY <1>1, <1>2, CarriedTail DEF Follows, SentInOrder
<1>6. SentInOrder(c)' /\ AllSent(c)'
  BY <1>2, <1>4, <1>5 DEF SentInOrder, AllSent, Follows
<1>7. AtTheEnd(c)' /\ NotYet(c)' /\ Unserved(c)'
  BY <1>2 DEF AtTheEnd, NotYet, Unserved, Follows
<1>8. Entered(c)'
  <2>1. handled'[c] # 0
    BY <1>1, <1>4
  <2>2. authenticated_'[c]
    BY Zenon DEF HandleMessage, TypeOK
  <2>. QED
    BY <2>1, <2>2, Zenon DEF Entered
<1>9. InStep(c)'
  <2>. SUFFICES ASSUME c \notin spoilt', Afloat(c)'
                PROVE  Matches(ship'[c], T, h + 1)
    BY <1>2, <1>4 DEF InStep
  <2>1. PICK m \in {Head(w), Garbled} :
       /\ Arrives(m, c, Head(w))
       /\ \/ TakenForToken(c) /\ UNCHANGED <<ship, running>>
          \/ /\ ~TakenForToken(c)
             /\ \E key \in IF m = Garbled THEN Keys ELSE {m} :
                  Turn([ship EXCEPT ![c] = Apply(key, @)])
          \/ /\ ~TakenForToken(c)
             /\ m = Garbled
             /\ running' = FALSE /\ UNCHANGED ship
    BY DEF HandleMessage
  <2>2. c \notin spoilt /\ m = Head(w)
    BY <2>1, OnlySpoils
  <2>3. m \in Keys /\ m # Garbled
    <3>1. Head(w) \in Keys
      BY <1>1, <1>2, HeadTailProperties
    <3>2. Garbled \notin Keys
      BY GameAssumption
    <3>. QED
      BY <2>2, <3>1, <3>2
  <2>4. CASE TakenForToken(c) /\ UNCHANGED <<ship, running>>
    <3>1. ~authenticated_[c]
      BY <2>4, Zenon DEF TakenForToken
    <3>2. h = 0
      BY <3>1, Zenon DEF Follows, Entered
    <3>3. Afloat(c) /\ ship' = ship
      BY <2>4 DEF Afloat
    <3>4. \A p \in Props : ship[c][p] = 0
      BY <2>2, <3>2, <3>3 DEF Follows, InStep, Matches
    <3>5. \A p \in Props : T[2][p] \in Int
      <4>1. T[2] \in Whole
        BY <1>1, <1>5, <3>2
      <4>. QED
        BY <4>1 DEF Whole, Props
    <3>. QED
      BY <3>2, <3>3, <3>4, <3>5 DEF Matches
  <2>5. ASSUME ~TakenForToken(c), Turn([ship EXCEPT ![c] = Apply(m, @)])
        PROVE  Matches(ship'[c], T, h + 1)
    <3>1. authenticated_[c]
      BY <2>5, Zenon DEF TakenForToken
    <3>2. h # 0
      BY <3>1, Zenon DEF Follows, Entered
    <3>. DEFINE ships == [ship EXCEPT ![c] = Apply(m, ship[c])]
    <3>3. /\ Apply(m, ship[c]) \in Objects
          /\ DOMAIN Apply(m, ship[c]) = DOMAIN ship[c]
          /\ \A p \in DOMAIN ship[c] : Apply(m, ship[c])[p] = ship[c][p] + Shift(m, p)
      BY <1>1, <2>3, ApplyKey
    <3>4. ships \in [Clients -> Objects] /\ ships[c] = Apply(m, ship[c])
      BY <3>3 DEF TypeOK
    <3>5. ship'[c] = Apply(m, ship[c])
      BY <2>5, <3>4, TurnShips
    <3>6. Afloat(c)
      BY <3>3, <3>5 DEF Afloat, HasProperty
    <3>7. DOMAIN ship[c] = Props
      BY <1>1, <3>6, AfloatIsWhole DEF Afloat, Whole, Props
    <3>8. \A p \in Props : ship[c][p] = T[h + 1][p] - T[2][p]
      BY <2>2, <3>2, <3>6 DEF Follows, InStep, Matches
    <3>9. \A p \in Props : ship'[c][p] = T[h + 1][p] - T[2][p] + Shift(m, p)
      BY <3>3, <3>5, <3>7, <3>8
    <3>10. \A p \in Props : T[h + 2][p] = T[h + 1][p] + Shift(m, p)
      BY <1>5, <2>2
    <3>11. \A p \in Props : T[h + 1][p] \in Int /\ T[2][p] \in Int /\ Shift(m, p) \in Int
      <4>1. h + 1 \in 1 .. Len(T) /\ 2 \in 1 .. Len(T)
        BY <1>1, <1>5
      <4>2. T[h + 1] \in Whole /\ T[2] \in Whole
        BY <1>1, <4>1
      <4>3. m.by \in Int
        BY <2>3, GameAssumption
      <4>. QED
        BY <4>2, <4>3 DEF Whole, Props, Shift
    <3>12. \A p \in Props : ship'[c][p] = T[h + 2][p] - T[2][p]
      BY <3>9, <3>10, <3>11
    <3>13. h + 1 # 0 /\ (h + 1) + 1 = h + 2
      BY <1>1
    <3>. QED
      BY <3>12, <3>13 DEF Matches
  <2>. QED
    BY <2>1, <2>3, <2>4, <2>5
<1>. QED
  BY <1>6, <1>7, <1>8, <1>9 DEF Follows

LEMMA AcceptFollows ==
  ASSUME TypeOK, NEW c \in Clients, Accept("game", c), Follows(c)
  PROVE  Follows(c)'
<1>1. /\ UNCHANGED <<trail, own, phase, link, wire, handled, authenticated_, spoilt>>
      /\ session["game"][c] = "none" /\ session'["game"][c] = "active"
      /\ ship'[c] = NewShip
  BY DEF Accept, clientVars, TypeOK, Servers
<1>2. SentInOrder(c)' /\ AllSent(c)' /\ AtTheEnd(c)' /\ NotYet(c)'
  BY <1>1 DEF Follows, SentInOrder, AllSent, AtTheEnd, NotYet
<1>3. Entered(c)'
  BY <1>1, Zenon DEF Follows, Entered
<1>4. handled[c] = 0
  BY <1>1 DEF Follows, Unserved
<1>5. Unserved(c)' /\ InStep(c)'
  BY <1>1, <1>4 DEF Unserved, InStep, Matches, NewShip, Props
<1>. QED
  BY <1>2, <1>3, <1>5 DEF Follows

LEMMA FollowsNext ==
  ASSUME IInv, Next, NEW d \in Clients
  PROVE  Follows(d)'
<1>0. TypeOK /\ Follows(d) /\ "game" \in Servers /\ "auth" # "game"
  BY DEF IInv, Servers
<1>1. ASSUME NEW c \in Clients, Ask(c) PROVE Follows(d)'
  <2>1. /\ UNCHANGED <<own, trail, handled, authenticated_, session, ship, spoilt>>
        /\ wire'["game"] = wire["game"] /\ link'["game"] = link["game"]
        /\ phase'[d] \in {"start", "asked", "entitled"}
             => phase[d] \in {"start", "asked", "entitled"}
    BY <1>1 DEF Ask, serverVars, TypeOK, Servers
  <2>. QED
    BY <1>0, <2>1, Apart
<1>2. ASSUME NEW c \in Clients, TakeAnswer(c) PROVE Follows(d)'
  <2>1. UNCHANGED <<own, trail, handled, authenticated_, session, ship, wire, link>>
    BY <1>2 DEF TakeAnswer, serverVars
  <2>3. phase'[d] \in {"start", "asked", "entitled"}
          => phase[d] \in {"start", "asked", "entitled"}
    <3>1. phase' = [phase EXCEPT ![c] = "entitled"] \/ phase' = phase
      BY <1>2 DEF TakeAnswer
    <3>2. phase[c] = "asked"
      BY <1>2 DEF TakeAnswer
    <3>3. phase \in [Clients -> {"start", "asked", "entitled", "playing", "left"}]
      BY <1>0 DEF TypeOK
    <3>. QED
      BY <3>1, <3>2, <3>3
  <2>2. spoilt \subseteq spoilt'
    BY <1>2, OnlySpoils DEF TakeAnswer
  <2>. QED
    BY <1>0, <2>1, <2>2, <2>3, Apart
<1>3. ASSUME NEW c \in Clients, Join(c) PROVE Follows(d)'
  <2>1. /\ UNCHANGED <<own, trail, handled, authenticated_, session, ship, wire, spoilt>>
        /\ phase'[d] \in {"start", "asked", "entitled"}
             => phase[d] \in {"start", "asked", "entitled"}
    BY <1>3 DEF Join, serverVars, TypeOK
  <2>2. link'["game"][d] = "up" => link["game"][d] = "up" \/ d = c
    BY <1>3 DEF Join, TypeOK, Servers
  <2>3. d = c => Len(trail[d]) = 1
    BY <1>0, <1>3 DEF Join, Follows, NotYet
  <2>. QED
    BY <1>0, <2>1, <2>2, <2>3, Apart
<1>4. ASSUME NEW c \in Clients, NEW key \in Keys, Press(c, key) PROVE Follows(d)'
  <2>1. CASE d = c
    BY <1>0, <1>4, <2>1, PressFollows
  <2>2. CASE d # c
    <3>1. /\ UNCHANGED <<handled, authenticated_, session, ship, spoilt, phase, link>>
          /\ own'[d] = own[d] /\ trail'[d] = trail[d]
          /\ wire'["game"][d] = wire["game"][d]
      BY <1>4, <2>2 DEF Press, serverVars, TypeOK, Servers
    <3>. QED
      BY <1>0, <3>1, Apart
  <2>. QED
    BY <2>1, <2>2
<1>5. ASSUME NEW c \in Clients, NEW down \in SUBSET Servers, Cut(c, down),
             UNCHANGED <<own, trail, handled, authenticated_, session, ship, spoilt>>,
             phase'[d] = phase[d] \/ phase'[d] = "left"
      PROVE  Follows(d)'
  <2>1. /\ SentInOrder(d)'
        /\ link'["game"][d] = "up" => link["game"][d] = "up"
        /\ link'["game"][d] = "up" => wire'["game"][d] = wire["game"][d]
    BY <1>0, <1>5, CutFollows DEF Follows
  <2>2. AllSent(d)'
    BY <1>0, <1>5, <2>1 DEF Follows, AllSent
  <2>3. AtTheEnd(d)' /\ NotYet(d)' /\ Unserved(d)' /\ InStep(d)'
    BY <1>0, <1>5 DEF Follows, AtTheEnd, NotYet, Unserved, InStep, Afloat
  <2>4. Entered(d)'
    BY <1>0, <1>5, Zenon DEF Follows, Entered
  <2>. QED
    BY <2>1, <2>2, <2>3, <2>4 DEF Follows
<1>6. ASSUME NEW c \in Clients, Leave(c) PROVE Follows(d)'
  <2>1. /\ UNCHANGED <<own, trail, handled, authenticated_, session, ship, spoilt>>
        /\ phase'[d] = phase[d] \/ phase'[d] = "left"
    BY <1>6 DEF Leave, serverVars, TypeOK
  <2>. QED
    BY <1>5, <1>6, <2>1 DEF Leave
<1>7. ASSUME NEW c \in Clients, NEW s \in Servers, Break(s, c) PROVE Follows(d)'
  <2>1. /\ UNCHANGED <<own, trail, handled, authenticated_, session, ship, spoilt>>
        /\ phase'[d] = phase[d]
    BY <1>7 DEF Break, clientVars, serverVars
  <2>2. {s} \in SUBSET Servers /\ Cut(c, {s})
    BY <1>7 DEF Break
  <2>. QED
    BY <1>5, <2>1, <2>2
<1>8. ASSUME NEW c \in Clients, HandleLogin(c) PROVE Follows(d)'
  <2>1. /\ UNCHANGED <<own, trail, handled, authenticated_, session, ship, phase, link>>
        /\ wire' = [wire EXCEPT !["auth"][c] = Tail(@)]
    BY <1>8 DEF HandleLogin, Takes, clientVars
  <2>3. wire'["game"] = wire["game"]
    BY <1>0, <2>1 DEF TypeOK
  <2>2. spoilt \subseteq spoilt'
    BY <1>8, OnlySpoils DEF HandleLogin
  <2>. QED
    BY <1>0, <2>1, <2>2, <2>3, Apart
<1>9. ASSUME NEW c \in Clients, HandleMessage(c) PROVE Follows(d)'
  <2>1. CASE d = c
    BY <1>0, <1>9, <2>1, HandleMessageFollows
  <2>2. CASE d # c
    <3>1. /\ UNCHANGED <<own, trail, session, phase, link>>
          /\ wire'["game"][d] = wire["game"][d]
      BY <1>9, <2>2 DEF HandleMessage, Takes, clientVars, TypeOK, Servers
    <3>2. handled'[d] = handled[d]
      BY <1>9, <2>2 DEF HandleMessage, TypeOK
    <3>3. authenticated_'[d] <=> authenticated_[d]
      <4>1. authenticated_' = [authenticated_ EXCEPT ![c] = TRUE]
        BY <1>9, Zenon DEF HandleMessage
      <4>2. authenticated_ \in [Clients -> BOOLEAN]
        BY <1>0, Zenon DEF TypeOK
      <4>. QED
        BY <2>2, <4>1, <4>2, Zenon
    <3>4. spoilt \subseteq spoilt'
      BY <1>9, OnlySpoils DEF HandleMessage
    <3>5. Afloat(d)' => ship'[d] = ship[d]
      <4>1. CASE UNCHANGED ship
        BY <4>1
      <4>2. ASSUME NEW key \in Keys, Turn([ship EXCEPT ![c] = Apply(key, ship[c])])
            PROVE  Afloat(d)' => ship'[d] = ship[d]
        <5>. DEFINE ships == [ship EXCEPT ![c] = Apply(key, ship[c])]
        <5>1. Apply(key, ship[c]) \in Objects
          BY <1>0, Typed, ApplyKey
        <5>2. ships \in [Clients -> Objects] /\ ships[d] = ship[d]
          BY <1>0, <2>2, <5>1 DEF TypeOK
        <5>. QED
          BY <4>2, <5>2, TurnShips
      <4>3. Head(wire["game"][c]) \in Keys
        BY <1>0, <1>9, Typed, HeadTailProperties DEF HandleMessage, Takes
      <4>. QED
        BY <1>9, <4>1, <4>2, <4>3 DEF HandleMessage
    <3>. QED
      BY <1>0, <3>1, <3>2, <3>3, <3>4, <3>5, Apart
  <2>. QED
    BY <2>1, <2>2
<1>10. ASSUME NEW c \in Clients, NEW s \in Servers, Accept(s, c) PROVE Follows(d)'
  <2>1. CASE s = "game" /\ d = c
    BY <1>0, <1>10, <2>1, AcceptFollows
  <2>2. CASE s # "game" \/ d # c
    <3>1. /\ UNCHANGED <<own, trail, phase, link, wire, handled, authenticated_, spoilt>>
          /\ session'["game"][d] = session["game"][d]
      BY <1>10, <2>2 DEF Accept, clientVars, TypeOK, Servers
    <3>2. ship'[d] = ship[d]
      BY <1>10, <2>2 DEF Accept, TypeOK
    <3>. QED
      BY <1>0, <3>1, <3>2, Apart
  <2>. QED
    BY <2>1, <2>2
<1>11. ASSUME NEW c \in Clients, NEW s \in Servers, Disconnect(s, c) PROVE Follows(d)'
  <2>1. UNCHANGED <<own, trail, phase, link, wire, handled, authenticated_, spoilt>>
    BY <1>11 DEF Disconnect, clientVars
  <2>2. session'["game"][d] = "none" => session["game"][d] = "none"
    BY <1>11 DEF Disconnect, TypeOK, Servers
  <2>3. Afloat(d)' => ship'[d] = ship[d]
    <3>1. \A left \in ShipAfterDisconnect(c) : HasProperty(left, "position") => left = ship[c]
      BY <1>0, Typed, WrecksType DEF ShipAfterDisconnect, Afloat
    <3>2. ship' = ship \/ \E left \in ShipAfterDisconnect(c) : ship' = [ship EXCEPT ![c] = left]
      BY <1>11 DEF Disconnect
    <3>. QED
      BY <1>0, <3>1, <3>2 DEF Afloat, TypeOK
  <2>. QED
    BY <1>0, <2>1, <2>2, <2>3, Apart
<1>. QED
  BY <1>1, <1>2, <1>3, <1>4, <1>6, <1>7, <1>8, <1>9, <1>10, <1>11 DEF Next

\* The invariant is inductive.
LEMMA IInvInductive ==
  /\ Init => IInv
  /\ IInv /\ [Next]_vars => IInv'
<1>1. Init => IInv
  BY TypeInit, FollowsInit DEF IInv
<1>2. ASSUME IInv, Next PROVE IInv'
  BY <1>2, TypeNext, FollowsNext DEF IInv
<1>3. ASSUME IInv, UNCHANGED vars PROVE IInv'
  <2>1. TypeOK'
    BY <1>3, TypeNext DEF IInv
  <2>2. ASSUME NEW d \in Clients PROVE Follows(d)'
    <3>1. /\ UNCHANGED <<own, trail, phase, link, wire, handled, authenticated_, session>>
          /\ UNCHANGED <<ship, spoilt>>
      BY <1>3 DEF vars, clientVars, serverVars
    <3>. QED
      BY <1>3, <3>1, Apart DEF IInv
  <2>. QED
    BY <2>1, <2>2 DEF IInv
<1>. QED
  BY <1>1, <1>2, <1>3

\* For every client and all keys: until a message of a client is garbled or its
\* ship destroyed, what on_message made of the client's messages is its own
\* ship as it was that many keys ago, without the first key.
THEOREM ServerFollows == Spec => []ServerFollowsClient
<1>1. IInv => ServerFollowsClient
  BY DEF IInv, Follows, InStep, Matches, Props, ServerFollowsClient
<1>. QED
  BY <1>1, IInvInductive, PTL DEF Spec

-----------------------------------------------------------------------------
(* Wrecks.                                                                 *)

\* No step of anybody makes a ship that is gone float again.
LEMMA WrecksStep ==
  ASSUME TypeOK, [Next]_vars, NEW d \in Clients, Wrecked(d)
  PROVE  Wrecked(d)'
<1>0. /\ ship \in [Clients -> Objects] /\ ~Afloat(d) /\ session["game"][d] # "none"
      /\ "game" \in Servers /\ "auth" # "game"
  BY DEF TypeOK, Wrecked, Servers
<1>1. CASE UNCHANGED <<session, ship>>
  BY <1>1 DEF Wrecked, Afloat
<1>2. ASSUME NEW c \in Clients, HandleMessage(c) PROVE Wrecked(d)'
  <2>1. session' = session
    BY <1>2 DEF HandleMessage, Takes
  <2>2. ASSUME NEW key \in Keys, Turn([ship EXCEPT ![c] = Apply(key, ship[c])])
        PROVE  ~Afloat(d)'
    <3>. DEFINE ships == [ship EXCEPT ![c] = Apply(key, ship[c])]
    <3>1. Apply(key, ship[c]) \in Objects /\ DOMAIN Apply(key, ship[c]) = DOMAIN ship[c]
      BY <1>0, ApplyKey
    <3>2. ships \in [Clients -> Objects] /\ DOMAIN ships[d] = DOMAIN ship[d]
      BY <1>0, <3>1
    <3>. HIDE DEF ships
    <3>3. Turn(ships)
      BY <2>2 DEF ships
    <3>4. Afloat(d)' => ship'[d] = ships[d]
      BY <3>2, <3>3, TurnShips
    <3>. QED
      BY <1>0, <3>2, <3>4 DEF Afloat, HasProperty
  <2>3. Head(wire["game"][c]) \in Keys
    BY <1>2, Typed, HeadTailProperties DEF HandleMessage, Takes
  <2>4. ~Afloat(d)'
    <3>1. CASE UNCHANGED ship
      BY <1>0, <3>1 DEF Afloat
    <3>. QED
      BY <1>2, <2>2, <2>3, <3>1 DEF HandleMessage
  <2>. QED
    BY <1>0, <2>1, <2>4 DEF Wrecked
<1>3. ASSUME NEW c \in Clients, NEW s \in Servers, Accept(s, c) PROVE Wrecked(d)'
  <2>1. session'["game"][d] # "none"
    BY <1>0, <1>3 DEF Accept, TypeOK
  <2>2. s = "game" => c # d
    BY <1>0, <1>3 DEF Accept
  <2>3. ship'[d] = ship[d]
    BY <1>0, <1>3, <2>2 DEF Accept
  <2>. QED
    BY <1>0, <2>1, <2>3 DEF Wrecked, Afloat
<1>4. ASSUME NEW c \in Clients, NEW s \in Servers, Disconnect(s, c) PROVE Wrecked(d)'
  <2>1. session'["game"][d] # "none"
    BY <1>0, <1>4 DEF Disconnect, TypeOK
  <2>2. \A left \in ShipAfterDisconnect(c) : HasProperty(left, "position") => left = ship[c]
    BY <1>0, WrecksType DEF ShipAfterDisconnect, Afloat
  <2>3. ship' = ship \/ \E left \in ShipAfterDisconnect(c) : ship' = [ship EXCEPT ![c] = left]
    BY <1>4 DEF Disconnect
  <2>4. Afloat(d)' => ship'[d] = ship[d]
    BY <1>0, <2>2, <2>3 DEF Afloat
  <2>. QED
    BY <1>0, <2>1, <2>4 DEF Wrecked, Afloat
<1>. QED
  BY <1>1, <1>2, <1>3, <1>4 DEF Next, vars, serverVars, clientVars, Ask, TakeAnswer, Join, Press,
     Leave, Break, HandleLogin, Takes

\* For any number of clients, keys and faults: a ship that was destroyed at the
\* game server never comes back.
THEOREM WrecksStay == Spec => WrecksStayWrecked
<1>1. TypeOK /\ [Next]_vars => [\A c \in Clients : Wrecked(c) => Wrecked(c)']_vars
  BY WrecksStep
<1>. QED
  BY <1>1, TypeInit, TypeNext, PTL DEF Spec, WrecksStayWrecked
=============================================================================
