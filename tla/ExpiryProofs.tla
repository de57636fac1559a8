---------------------------- MODULE ExpiryProofs ----------------------------
(***************************************************************************)
(* Theorems about Expiry: the types, the account of the notices, and the   *)
(* calendar under commands that check before they write.                   *)
(***************************************************************************)
EXTENDS Expiry, FiniteSetTheorems, WellFoundedInduction, TLAPS

----------------------------------------------------------------------------
(* Arithmetic.                                                             *)

(* A time is cut to its minute.                                            *)
LEMMA Floored ==
  ASSUME NEW a \in Int
  PROVE  FloorMinute(a) \in Int /\ FloorMinute(a) <= a /\ a < FloorMinute(a) + Minute
<1>1. Minute \in Nat /\ Minute > 0
  BY ExpiryAssumption
<1>2. a % Minute \in 0 .. Minute - 1
  BY <1>1
<1> QED
  BY <1>1, <1>2 DEF FloorMinute

(* The minutes of a time are those of the clock: nothing lies between.     *)
LEMMA MinuteGap ==
  ASSUME NEW a \in Int, NEW b \in Int, a <= b
  PROVE  FloorMinute(a) <= FloorMinute(b)
<1> DEFINE p == b \div Minute
           q == a \div Minute
           r == a % Minute
           u == b % Minute
<1>1. Minute \in Nat /\ Minute > 0
  BY ExpiryAssumption
<1>2. p \in Int /\ q \in Int /\ r \in Nat /\ r < Minute /\ u \in Nat /\ u < Minute
  BY <1>1
<1>3. a = Minute * q + r /\ b = Minute * p + u
  BY <1>1
<1>4. FloorMinute(a) = a - r /\ FloorMinute(b) = b - u
  BY DEF FloorMinute
<1> HIDE DEF p, q, r, u
<1>5. q <= p
  <2> SUFFICES ASSUME p + 1 <= q PROVE FALSE
    BY <1>2
  <2>1. Minute * (p + 1) <= Minute * q
    BY <1>1, <1>2
  <2>2. Minute * (p + 1) = Minute * p + Minute
    BY <1>1, <1>2
  <2> QED
    BY <2>1, <2>2, <1>1, <1>2, <1>3
<1>6. Minute * q <= Minute * p
  BY <1>1, <1>2, <1>5
<1> QED
  BY <1>1, <1>2, <1>3, <1>4, <1>6

(* A full minute in front of a time on the minute stays full.              *)
LEMMA NextMinute ==
  ASSUME NEW a \in Nat, NEW b \in Nat, b % Minute = 0, a < b
  PROVE  FloorMinute(a) + Minute <= b
<1> DEFINE p == b \div Minute
           q == a \div Minute
           r == a % Minute
<1>1. Minute \in Nat /\ Minute > 0
  BY ExpiryAssumption
<1>2. p \in Int /\ q \in Int /\ r \in Nat /\ r < Minute
  BY <1>1
<1>3. a = Minute * q + r
  BY <1>1
<1>4. b = Minute * p
  BY <1>1
<1> HIDE DEF p, q, r
<1>5. q < p
  <2> SUFFICES ASSUME p <= q PROVE FALSE
    BY <1>2
  <2>1. Minute * p <= Minute * q
    BY <1>1, <1>2
  <2> QED
    BY <2>1, <1>1, <1>2, <1>3, <1>4
<1>6. Minute * (q + 1) <= Minute * p
  BY <1>1, <1>2, <1>5
<1>7. Minute * (q + 1) = Minute * q + Minute
  BY <1>1, <1>2
<1> QED
  BY <1>1, <1>2, <1>3, <1>4, <1>6, <1>7 DEF FloorMinute, r

(* The cut of a natural number is one.                                     *)
LEMMA FlooredNat ==
  ASSUME NEW a \in Nat
  PROVE  FloorMinute(a) \in Nat
<1>1. Minute \in Nat /\ Minute > 0
  BY ExpiryAssumption
<1>2. FloorMinute(0) = 0
  BY <1>1 DEF FloorMinute
<1> QED
  BY <1>2, MinuteGap, Floored

(* The larger of two numbers.                                              *)
LEMMA MaxOfTwo ==
  ASSUME NEW a \in Int, NEW b \in Int
  PROVE  Max({a, b}) = IF a >= b THEN a ELSE b
<1>1. \E x \in {a, b} : \A y \in {a, b} : x >= y
  OBVIOUS
<1>2. Max({a, b}) \in {a, b} /\ \A y \in {a, b} : Max({a, b}) >= y
  BY <1>1, Zenon DEF Max
<1> QED
  BY <1>2

(* And the smaller.                                                        *)
LEMMA MinOfTwo ==
  ASSUME NEW a \in Int, NEW b \in Int
  PROVE  Min({a, b}) = IF a <= b THEN a ELSE b
<1>1. \E x \in {a, b} : \A y \in {a, b} : x <= y
  OBVIOUS
<1>2. Min({a, b}) \in {a, b} /\ \A y \in {a, b} : Min({a, b}) <= y
  BY <1>1, Zenon DEF Min
<1> QED
  BY <1>2

(* A multiple of the minute leaves no rest.                                *)
LEMMA Multiple ==
  ASSUME NEW x \in Int
  PROVE  (Minute * x) % Minute = 0
<1> DEFINE m == Minute * x
           p == m \div Minute
           r == m % Minute
<1>1. Minute \in Nat /\ Minute > 0
  BY ExpiryAssumption
<1>2. p \in Int /\ r \in Nat /\ r < Minute /\ m = Minute * p + r
  BY <1>1
<1> HIDE DEF p, r
<1>3. CASE x <= p
  <2>1. Minute * x <= Minute * p
    BY <1>1, <1>2, <1>3
  <2> QED
    BY <1>1, <1>2, <2>1 DEF r
<1>4. CASE p + 1 <= x
  <2>1. Minute * (p + 1) <= Minute * x
    BY <1>1, <1>2, <1>4
  <2>2. Minute * (p + 1) = Minute * p + Minute
    BY <1>1, <1>2
  <2> QED
    BY <1>1, <1>2, <2>1, <2>2
<1> QED
  BY <1>2, <1>3, <1>4

(* A self-schedule that ends later than now keeps a minute of its own.     *)
LEMMA SelfEndOK ==
  ASSUME now \in Nat
  PROVE  /\ SelfEnd \in Nat
         /\ now < SelfEnd => FloorMinute(now) + Minute <= SelfEnd
<1> DEFINE today == now \div Day
           ahead == (DeadlineDay - today) % 7
           deadline == (today + ahead) * Day + DeadlineHour
           lifetime == SelfLifetime * Day
           q == Day \div Minute
           p == DeadlineHour \div Minute
<1>1. /\ Minute \in Nat /\ Minute > 0 /\ Day \in Nat /\ Day > 0 /\ DeadlineHour \in Nat
      /\ DeadlineDay \in Int /\ SelfLifetime \in Nat /\ Day % Minute = 0 /\ DeadlineHour % Minute = 0
  BY ExpiryAssumption
<1>2. today \in Nat
  BY <1>1
<1>3. ahead \in Nat
  BY <1>1, <1>2
<1>4. q \in Int /\ p \in Int /\ Day = Minute * q /\ DeadlineHour = Minute * p
  BY <1>1
<1> HIDE DEF today, ahead, q, p
<1>5. deadline \in Nat /\ deadline % Minute = 0
  <2> DEFINE x == (today + ahead) * q + p
  <2>1. (today + ahead) * Day = Minute * ((today + ahead) * q)
    BY <1>1, <1>2, <1>3, <1>4
  <2>2. x \in Int /\ deadline = Minute * x
    BY <1>1, <1>2, <1>3, <1>4, <2>1
  <2>3. deadline \in Nat
    <3>1. (today + ahead) * Day \in Nat
      BY <1>1, <1>2, <1>3
    <3> QED
      BY <1>1, <3>1
  <2> HIDE DEF x, deadline
  <2> QED
    BY <2>2, <2>3, Multiple
<1>6. lifetime \in Nat /\ (lifetime > 0 => lifetime >= Minute)
  <2>1. Day >= Minute
    <3>1. FloorMinute(0) = 0
      BY <1>1 DEF FloorMinute
    <3> QED
      BY <1>1, <3>1, NextMinute
  <2>2. SelfLifetime >= 1 => lifetime >= Day
    BY <1>1
  <2>3. SelfLifetime = 0 => lifetime = 0
    BY <1>1
  <2>4. lifetime \in Nat
    BY <1>1
  <2> QED
    BY <1>1, <2>1, <2>2, <2>3, <2>4
<1>7. SelfEnd = IF ahead < SelfLifetime THEN deadline ELSE Min({now + lifetime, deadline})
  BY DEF SelfEnd, today, ahead
<1> HIDE DEF deadline, lifetime
<1>8. SelfEnd = deadline \/ SelfEnd = now + lifetime
  BY <1>5, <1>6, <1>7, MinOfTwo
<1>9. SelfEnd \in Nat
  BY <1>5, <1>6, <1>8
<1>10. FloorMinute(now) \in Int /\ FloorMinute(now) <= now
  BY Floored
<1> QED
  BY <1>1, <1>5, <1>6, <1>8, <1>9, <1>10, NextMinute

(* What is granted is a booking of the same host in the same cloud.        *)
LEMMA GrantedType ==
  ASSUME now \in Nat, NEW s \in Listed
  PROVE  /\ Granted(s).host = s.host /\ Granted(s).cloud = s.cloud
         /\ Granted(s).start \in Nat /\ Granted(s).end \in Nat
         /\ s.cloud \notin SelfClouds => Granted(s).start = s.start /\ Granted(s).end = s.end
         /\ s.cloud \in SelfClouds => Granted(s).start = now /\ Granted(s).end = SelfEnd
BY SelfEndOK DEF Granted, Listed

(* The next day to look at is one of those still to look at.               *)
LEMMA NextDayIn ==
  ASSUME NEW D, D \subseteq Notices, D # {}
  PROVE  Min(D) \in D
<1> DEFINE Below(x) == {y \in D : y <= x}
           T == {Below(x) : x \in D}
<1>1. IsFiniteSet(Notices) /\ \A x \in D : x \in Nat
  BY ExpiryAssumption
<1>2. T # {} /\ T \subseteq FiniteSubsetsOf(Notices)
  <2>1. FiniteSubsetsOf(Notices) = SUBSET Notices
    BY <1>1, FS_FiniteSubsetsOfFinite
  <2>2. \A x \in D : Below(x) \in SUBSET Notices
    OBVIOUS
  <2>3. T \subseteq SUBSET Notices
    BY <2>2, Zenon
  <2> QED
    BY <2>1, <2>3
<1>3. PICK B \in T : \A C \in T : ~(<<C, B>> \in StrictSubsetOrdering(Notices))
  <2>1. IsWellFoundedOn(StrictSubsetOrdering(Notices), FiniteSubsetsOf(Notices))
    BY FS_StrictSubsetOrderingWellFounded, Zenon
  <2> QED
    BY <1>2, <2>1, WFMin, Zenon
<1>4. PICK x \in D : B = Below(x)
  OBVIOUS
<1>5. \A y \in D : x <= y
  <2> SUFFICES ASSUME NEW y \in D, y < x PROVE FALSE
    BY <1>1
  <2>1. ASSUME NEW z \in Below(y) PROVE z \in Below(x)
    <3>1. x \in Nat /\ y \in Nat /\ z \in Nat
      BY <1>1
    <3> QED
      BY <3>1
  <2>2. x \in Below(x) /\ x \notin Below(y)
    BY <1>1
  <2>3. Below(y) \in T /\ Below(y) \subseteq Notices /\ B \subseteq Notices
    BY <1>4
  <2>4. <<Below(y), B>> \in StrictSubsetOrdering(Notices)
    BY <1>4, <2>1, <2>2, <2>3 DEF StrictSubsetOrdering
  <2> QED
    BY <1>3, <2>3, <2>4
<1> QED
  BY <1>5, Zenon DEF Min

----------------------------------------------------------------------------
(* Types.                                                                  *)

(* What the commands and the notifier read of the schedules.               *)
LEMMA ListedRows ==
  ASSUME TypeOK
  PROVE  /\ \A id \in DOMAIN rows : AsListed(id) \in Listed
         /\ \A ids \in SUBSET DOMAIN rows : Shown(ids) \subseteq Listed
         /\ \A cmd, t : /\ At(t) \subseteq DOMAIN rows
                        /\ Selected(cmd, At(t)) \subseteq DOMAIN rows
         /\ \A c, t : CurrentOf(c, t) \subseteq Listed
<1>1. \A id \in DOMAIN rows : AsListed(id) \in Listed
  <2> TAKE id \in DOMAIN rows
  <2>1. id \in Nat /\ rows[id] \in Row
    BY DEF TypeOK
  <2> QED
    BY <2>1 DEF Row, Listed, AsListed
<1>2. \A ids \in SUBSET DOMAIN rows : Shown(ids) \subseteq Listed
  BY <1>1 DEF Shown
<1>3. \A cmd, t : At(t) \subseteq DOMAIN rows /\ Selected(cmd, At(t)) \subseteq DOMAIN rows
  BY DEF At, Selected
<1>4. \A c, t : {id \in At(t) : rows[id].cloud = c} \in SUBSET DOMAIN rows
  BY <1>3
<1> QED
  BY <1>1, <1>2, <1>3, <1>4 DEF CurrentOf

(* The flags a command lowers.                                             *)
LEMMA LowerType ==
  ASSUME TypeOK, NEW c, NEW fs, Lower(c, fs)
  PROVE  raised' \in [Clouds -> SUBSET Flags] /\ mails' \in [Clouds -> [Flags -> Nat]]
BY DEF TypeOK, Lower

(* The ends of the commands.                                               *)
LEMMA NoLocalType == NoLocal \in Local
BY DEF NoLocal, Local

(* A command that ends leaves both maps of the clients typed.              *)
LEMMA QuitType ==
  ASSUME TypeOK, NEW k, NEW label \in Final, Quit(k, label)
  PROVE  pc' \in [Clients -> {"idle"} \union Busy \union Final] /\ my' \in [Clients -> Local]
BY NoLocalType DEF TypeOK, Quit, Goto

(* So does one that goes on.                                               *)
LEMMA GotoType ==
  ASSUME TypeOK, NEW k, NEW label \in {"idle"} \union Busy \union Final, Goto(k, label)
  PROVE  pc' \in [Clients -> {"idle"} \union Busy \union Final]
BY DEF TypeOK, Goto

(* The locals of a command, one at a time.                                 *)
LEMMA LocalType ==
  ASSUME NEW l \in Local
  PROVE  /\ \A x \in SUBSET Listed : [l EXCEPT !.all = x] \in Local
         /\ \A x \in SUBSET Listed : [l EXCEPT !.left = x] \in Local
         /\ \A x \in BOOLEAN : [l EXCEPT !.bad = x] \in Local
         /\ \A x \in SUBSET Hosts : [l EXCEPT !.touched = x] \in Local
         /\ \A x, y \in SUBSET Listed : [l EXCEPT !.all = x, !.left = y] \in Local
         /\ \A x, y \in SUBSET Listed, z \in SUBSET Hosts :
              [l EXCEPT !.all = x, !.left = y, !.touched = z] \in Local
         /\ \A x \in BOOLEAN, y \in SUBSET Listed : [l EXCEPT !.bad = x, !.left = y] \in Local
         /\ l.left \in SUBSET Listed /\ l.all \in SUBSET Listed /\ l.touched \in SUBSET Hosts
         /\ l.bad \in BOOLEAN /\ l.cmd \in Commands \union {None} /\ l.began \in Nat
BY DEF Local

(* What the others learn of a write keeps their locals typed, and the      *)
(* writer's own as they are.                                               *)
LEMMA TouchingType ==
  ASSUME TypeOK, NEW k \in Clients, NEW h \in Hosts
  PROVE  /\ Touching(k, h) \in [Clients -> Local]
         /\ Touching(k, h)[k] = my[k]
<1>1. \A j \in Clients : my[j] \in Local
  BY DEF TypeOK
<1>2. \A j \in Clients : [my[j] EXCEPT !.touched = @ \union {h}] \in Local
  BY <1>1 DEF Local
<1> QED
  BY <1>1, <1>2 DEF Touching

(* A row is moved.                                                         *)
LEMMA MoveType ==
  ASSUME TypeOK, NEW id \in DOMAIN rows, NEW start \in Nat, NEW end \in Nat, Move(id, start, end)
  PROVE  /\ DOMAIN rows' = DOMAIN rows /\ rows' \in [DOMAIN rows -> Row]
         /\ rows'[id] = [rows[id] EXCEPT !.start = start, !.end = end]
         /\ \A i \in DOMAIN rows \ {id} : rows'[i] = rows[i]
         /\ raised' \in [Clouds -> SUBSET Flags] /\ mails' \in [Clouds -> [Flags -> Nat]]
         /\ told' \subseteq Clouds \X Hosts /\ exempt' \subseteq Clouds
<1>1. rows[id] \in Row /\ rows[id].cloud \in Clouds
  BY DEF TypeOK, Row
<1>2. [rows[id] EXCEPT !.start = start, !.end = end] \in Row
  BY <1>1 DEF Row
<1>3. rows' = [rows EXCEPT ![id] = [rows[id] EXCEPT !.start = start, !.end = end]]
  BY DEF Move
<1>4. rows \in [DOMAIN rows -> Row]
  BY DEF TypeOK
<1>5. told' \subseteq Clouds \X Hosts /\ exempt' \subseteq Clouds
  BY <1>1, Zenon DEF Move, Crossing, TypeOK
<1> QED
  BY <1>2, <1>3, <1>4, <1>5, LowerType DEF Move


(* No command touches the clock, the notifier or the validated clouds.     *)
LEMMA StepFrame ==
  ASSUME NEW k, Step(k)
  PROVE  UNCHANGED <<now, validated, n>>
BY Zenon DEF Step, Type, ListCurrent, ListTo, ListFuture, Check, Reset, Extend, Judge, Shrink, PatchEnd,
       Modify, ModifyReset, Remove, Sift, Ask, Book, BookReset, Ticket, SetFlags, CallFails, history

(* Typing a command keeps the types.                                       *)
LEMMA TypeType ==
  ASSUME TypeOK, NEW k \in Clients, NEW cmd \in Commands, Type(k, cmd)
  PROVE  TypeOK'
<1>1. First(cmd) \in Busy
  <2>1. cmd.kind \in Kinds /\ cmd.omit \in BOOLEAN
    BY ExpiryAssumption DEF Command
  <2> QED
    BY <2>1 DEF First, Kinds, Busy
<1>2. Wanted(cmd) \subseteq Listed
  <2>1. cmd \in Command
    BY ExpiryAssumption
  <2>2. cmd.kind = "book" => cmd.cloud \in Clouds /\ (cmd.list = <<>> => cmd.host \in Hosts)
    BY <2>1, ExpiryAssumption DEF Command
  <2> QED
    <3>1. cmd.start \in Nat /\ cmd.end \in Nat /\ cmd.list \in Seq(Hosts)
      BY <2>1 DEF Command
    <3>2. \A i \in DOMAIN cmd.list : i \in Nat /\ cmd.list[i] \in Hosts
      BY <3>1
    <3>3. cmd.list # <<>> => cmd.kind = "book"
      BY ExpiryAssumption, Zenon
    <3>4. cmd.list = <<>> => DOMAIN cmd.list = {}
      OBVIOUS
    <3>5. CASE cmd.list = <<>>
      BY <2>2, <3>1, <3>4, <3>5 DEF Wanted, Wish, Listed
    <3>6. CASE cmd.list # <<>>
      BY <2>2, <3>1, <3>2, <3>3, <3>6 DEF Wanted, Wish, Listed
    <3> QED
      BY <3>5, <3>6
<1>3. [NoLocal EXCEPT !.cmd = cmd, !.began = now, !.all = Wanted(cmd), !.left = Wanted(cmd)] \in Local
  BY <1>2 DEF NoLocal, Local, TypeOK
<1>4. my' \in [Clients -> Local]
  BY <1>3 DEF Type, TypeOK
<1> QED
  BY <1>1, <1>4, GotoType DEF Type, TypeOK, history

(* Listing schedules keeps the types.                                      *)
LEMMA ListType ==
  ASSUME TypeOK, NEW k \in Clients,
         ListCurrent(k) \/ ListFuture(k)
  PROVE  TypeOK'
<1>1. my[k] \in Local
  BY DEF TypeOK
<1>2. \A x \in SUBSET Listed : [my[k] EXCEPT !.all = x, !.left = x, !.touched = {}] \in Local
  BY <1>1, LocalType
<1>3. NextStep(k) \in Busy
  BY DEF NextStep, Busy
<1>4. CASE ListCurrent(k)
  <2> DEFINE found == Shown(Selected(my[k].cmd, At(now)))
  <2>1. found \in SUBSET Listed
    BY ListedRows
  <2>2. my' = [my EXCEPT ![k] = [my[k] EXCEPT !.all = found, !.left = found, !.touched = {}]]
    BY <1>4 DEF ListCurrent, ListTo
  <2>3. my' \in [Clients -> Local]
    BY <1>2, <2>1, <2>2 DEF TypeOK
  <2>4. pc' \in [Clients -> {"idle"} \union Busy \union Final]
    BY <1>3, <1>4, GotoType, Zenon DEF ListCurrent, ListTo, Busy
  <2> QED
    BY <1>4, <2>3, <2>4 DEF ListCurrent, ListTo, TypeOK, history
<1>5. CASE ListFuture(k)
  <2> DEFINE ids == Selected(my[k].cmd, {id \in DOMAIN rows : now <= rows[id].start})
             listed == {AsListed(id) : id \in ids}
  <2>1. listed \in SUBSET Listed
    BY ListedRows, Zenon DEF Selected
  <2>2. pc' \in [Clients -> {"idle"} \union Busy \union Final] /\ my' \in [Clients -> Local]
    <3>1. CASE /\ my' = [my EXCEPT ![k].all = listed, ![k].left = listed, ![k].touched = {}]
               /\ Goto(k, NextStep(k))
      <4>1. my' = [my EXCEPT ![k] = [my[k] EXCEPT !.all = listed, !.left = listed, !.touched = {}]]
        BY <3>1
      <4>2. my' \in [Clients -> Local]
        BY <1>2, <2>1, <4>1 DEF TypeOK
      <4> QED
        BY <1>3, <3>1, <4>2, GotoType
    <3>2. CASE \E label \in Final : Quit(k, label)
      BY <3>2, QuitType
    <3> QED
      BY <1>5, <3>1, <3>2, Zenon DEF ListFuture, Final
  <2> QED
    BY <1>5, <2>2, Zenon DEF ListFuture, TypeOK, history
<1> QED
  BY <1>4, <1>5

(* The steps that go through the hosts of a command one by one.            *)
LEMMA EachType ==
  ASSUME TypeOK, NEW k \in Clients,
         Check(k) \/ Ask(k) \/ Sift(k) \/ Judge(k) \/ Ticket(k) \/ CallFails(k)
  PROVE  TypeOK'
<1>1. my[k] \in Local /\ my[k].left \subseteq Listed /\ my[k].all \subseteq Listed
  BY DEF TypeOK, Local
<1>2. /\ \A b \in BOOLEAN, x \in SUBSET Listed : [my[k] EXCEPT !.bad = b, !.left = x] \in Local
      /\ \A x, y \in SUBSET Listed : [my[k] EXCEPT !.all = x, !.left = y] \in Local
      /\ [my[k] EXCEPT !.left = my[k].all] \in Local
  BY <1>1, LocalType
<1>3. /\ pc' \in [Clients -> {"idle"} \union Busy \union Final] /\ my' \in [Clients -> Local]
      /\ faults' \in Nat /\ UNCHANGED <<now, rows, nextId, raised, validated, n, history>>
  <2>1. CASE \E label \in Final : Quit(k, label)
    <3>1. UNCHANGED <<now, rows, nextId, raised, validated, n, history>> /\ faults' \in {faults, faults + 1}
      BY DEF Check, Ask, Sift, Judge, Ticket, CallFails, history
    <3> QED
      BY <2>1, <3>1, QuitType DEF TypeOK
  <2>2. CASE Check(k) /\ ~\E label \in Final : Quit(k, label)
    <3>1. PICK s \in my[k].left :
             \/ my' = [my EXCEPT ![k].bad = Verdict(k, s), ![k].left = @ \ {s}] /\ UNCHANGED pc
             \/ my' = [my EXCEPT ![k].left = my[k].all] /\ Goto(k, "reset")
      BY <2>2 DEF Check, Final
    <3>2. Verdict(k, s) \in BOOLEAN
      BY DEF Verdict
    <3>3. \/ my' = [my EXCEPT ![k] = [my[k] EXCEPT !.bad = Verdict(k, s), !.left = my[k].left \ {s}]]
          \/ my' = [my EXCEPT ![k] = [my[k] EXCEPT !.left = my[k].all]]
      BY <3>1
    <3>4. my' \in [Clients -> Local]
      <4>1. my[k].left \ {s} \in SUBSET Listed
        BY <1>1
      <4>2. [my[k] EXCEPT !.bad = Verdict(k, s), !.left = my[k].left \ {s}] \in Local
        BY <1>1, <1>2, <3>2, <4>1
      <4>3. [my[k] EXCEPT !.left = my[k].all] \in Local
        BY <1>1, <1>2, <3>2
      <4> QED
        BY <3>3, <4>2, <4>3 DEF TypeOK
    <3>5. pc' \in [Clients -> {"idle"} \union Busy \union Final]
      BY <3>1, GotoType DEF TypeOK, Busy
    <3> QED
      BY <2>2, <3>4, <3>5 DEF Check, TypeOK
  <2>3. CASE Ask(k) /\ ~\E label \in Final : Quit(k, label)
    <3>1. PICK s \in my[k].left :
             \/ /\ my' = [my EXCEPT ![k].bad = @ \/ ~IsAvailable(s.host, s.start, s.end),
                                    ![k].left = @ \ {s}]
                /\ UNCHANGED pc
             \/ my' = [my EXCEPT ![k].left = my[k].all] /\ Goto(k, "send")
      BY <2>3 DEF Ask, Final
    <3> DEFINE b == my[k].bad \/ ~IsAvailable(s.host, s.start, s.end)
    <3>2. b \in BOOLEAN
      OBVIOUS
    <3>3. \/ my' = [my EXCEPT ![k] = [my[k] EXCEPT !.bad = b, !.left = my[k].left \ {s}]]
          \/ my' = [my EXCEPT ![k] = [my[k] EXCEPT !.left = my[k].all]]
      BY <3>1
    <3> HIDE DEF b
    <3>4. my' \in [Clients -> Local]
      <4>1. my[k].left \ {s} \in SUBSET Listed
        BY <1>1
      <4>2. [my[k] EXCEPT !.bad = b, !.left = my[k].left \ {s}] \in Local
        BY <1>1, <1>2, <3>2, <4>1
      <4>3. [my[k] EXCEPT !.left = my[k].all] \in Local
        BY <1>1, <1>2, <3>2
      <4> QED
        BY <3>3, <4>2, <4>3 DEF TypeOK
    <3>5. pc' \in [Clients -> {"idle"} \union Busy \union Final]
      BY <3>1, GotoType DEF TypeOK, Busy
    <3> QED
      BY <2>3, <3>4, <3>5 DEF Ask, TypeOK
  <2>4. CASE Sift(k) /\ ~\E label \in Final : Quit(k, label)
    <3>1. PICK s \in my[k].left : \E all \in {my[k].all, my[k].all \ {s}} :
             \/ my' = [my EXCEPT ![k].all = all, ![k].left = @ \ {s}] /\ UNCHANGED pc
             \/ /\ my' = [my EXCEPT ![k].all = all, ![k].left = all]
                /\ Goto(k, IF all = {} THEN "ticket" ELSE "ask")
      BY <2>4 DEF Sift, Final
    <3>2. PICK all \in {my[k].all, my[k].all \ {s}} :
             \/ my' = [my EXCEPT ![k].all = all, ![k].left = @ \ {s}] /\ UNCHANGED pc
             \/ /\ my' = [my EXCEPT ![k].all = all, ![k].left = all]
                /\ Goto(k, IF all = {} THEN "ticket" ELSE "ask")
      BY <3>1
    <3>3. all \subseteq Listed
      BY <1>1
    <3>4. \/ my' = [my EXCEPT ![k] = [my[k] EXCEPT !.all = all, !.left = my[k].left \ {s}]]
          \/ my' = [my EXCEPT ![k] = [my[k] EXCEPT !.all = all, !.left = all]]
      BY <3>2
    <3>5. my' \in [Clients -> Local]
      <4>1. my[k].left \ {s} \in SUBSET Listed
        BY <1>1
      <4>2. [my[k] EXCEPT !.all = all, !.left = my[k].left \ {s}] \in Local
        BY <1>1, <1>2, <3>3, <4>1
      <4>3. [my[k] EXCEPT !.all = all, !.left = all] \in Local
        BY <1>1, <1>2, <3>3
      <4> QED
        BY <3>4, <4>2, <4>3 DEF TypeOK
    <3>6. pc' \in [Clients -> {"idle"} \union Busy \union Final]
      BY <3>2, GotoType DEF TypeOK, Busy
    <3> QED
      BY <2>4, <3>5, <3>6 DEF Sift, TypeOK
  <2>5. CASE Judge(k) /\ ~\E label \in Final : Quit(k, label)
    BY <2>5, GotoType DEF Judge, TypeOK, Final, Busy
  <2> QED
    BY <2>1, <2>2, <2>3, <2>4, <2>5 DEF Ticket, CallFails, Final
<1> QED
  BY <1>3 DEF TypeOK, history


(* The steps that write the flags only.                                    *)
LEMMA FlagsType ==
  ASSUME TypeOK, NEW k \in Clients,
         Reset(k) \/ ModifyReset(k) \/ BookReset(k) \/ (my[k].cmd \in Commands /\ SetFlags(k))
  PROVE  TypeOK'
<1>1. my[k] \in Local /\ my[k].all \subseteq Listed
  BY DEF TypeOK, Local
<1>2. CASE Reset(k)
  <2>1. PICK s \in my[k].all : Lower(s.cloud, Notices) /\ Crossing(s.cloud)
    BY <1>2 DEF Reset, LowerNotices
  <2>2. s.cloud \in Clouds
    BY <1>1 DEF Listed
  <2>3. raised' \in [Clouds -> SUBSET Flags] /\ mails' \in [Clouds -> [Flags -> Nat]]
    BY <2>1, LowerType
  <2> QED
    BY <1>2, <2>1, <2>2, <2>3, GotoType DEF Reset, TypeOK, Crossing, Busy
<1>3. CASE ModifyReset(k)
  <2>1. PICK s \in my[k].all : Lower(s.cloud, {1, pre} \intersect Flags) /\ Crossing(s.cloud)
    BY <1>3 DEF ModifyReset
  <2>2. s.cloud \in Clouds
    BY <1>1 DEF Listed
  <2>3. raised' \in [Clouds -> SUBSET Flags] /\ mails' \in [Clouds -> [Flags -> Nat]]
    BY <2>1, LowerType
  <2> QED
    BY <1>3, <2>1, <2>2, <2>3, QuitType DEF ModifyReset, TypeOK, Crossing, Final
<1>4. CASE BookReset(k)
  <2>1. raised' \in [Clouds -> SUBSET Flags] /\ mails' \in [Clouds -> [Flags -> Nat]]
    BY <1>4, LowerType DEF BookReset
  <2>2. pc' \in [Clients -> {"idle"} \union Busy \union Final] /\ my' \in [Clients -> Local]
    BY <1>4, QuitType, GotoType DEF BookReset, TypeOK, Final, Busy
  <2> QED
    BY <1>4, <2>1, <2>2 DEF BookReset, TypeOK
<1>5. CASE my[k].cmd \in Commands /\ SetFlags(k)
  <2>1. my[k].cmd.cloud \in Clouds /\ my[k].cmd.flags \subseteq Flags
    BY <1>5, ExpiryAssumption DEF SetFlags, Command
  <2>2. raised' \in [Clouds -> SUBSET Flags] /\ mails' \in [Clouds -> [Flags -> Nat]]
    <3>1. CASE my[k].cmd.up
      BY <1>5, <2>1, <3>1 DEF SetFlags, TypeOK
    <3>2. CASE ~my[k].cmd.up
      BY <1>5, <3>2, LowerType DEF SetFlags
    <3> QED
      BY <3>1, <3>2
  <2> QED
    BY <1>5, <2>1, <2>2, QuitType DEF SetFlags, TypeOK, Final
<1> QED
  BY <1>2, <1>3, <1>4, <1>5

(* The new ends are times.                                                 *)
LEMMA EarlierType ==
  ASSUME TypeOK, NEW k \in Clients, my[k].cmd \in Commands, NEW s \in Listed
  PROVE  /\ Earlier(k, s) \in Int /\ ShrunkEnd(k, s) \in Nat
         /\ ShrunkEnd(k, s) = FloorMinute(IF Earlier(k, s) >= s.start + Minute
                                          THEN Earlier(k, s) ELSE s.start + Minute)
<1>1. my[k].cmd.weeks \in Nat /\ my[k].cmd.end \in Nat /\ my[k].cmd.asap \in BOOLEAN
  BY ExpiryAssumption DEF Command
<1>2. my[k].began \in Nat /\ s.start \in Nat /\ s.end \in Nat
  BY DEF TypeOK, Local, Listed
<1>3. Minute \in Nat /\ Week \in Nat
  BY ExpiryAssumption
<1>4. Earlier(k, s) \in Int
  <2>1. my[k].cmd.weeks * Week \in Nat
    BY <1>1, <1>3
  <2> QED
    BY <1>1, <1>2, <2>1 DEF Earlier
<1>5. ShrunkEnd(k, s) = FloorMinute(IF Earlier(k, s) >= s.start + Minute
                                    THEN Earlier(k, s) ELSE s.start + Minute)
  BY <1>2, <1>3, <1>4, MaxOfTwo DEF ShrunkEnd
<1>6. (IF Earlier(k, s) >= s.start + Minute THEN Earlier(k, s) ELSE s.start + Minute) \in Nat
  BY <1>2, <1>3, <1>4
<1> QED
  BY <1>4, <1>5, <1>6, FlooredNat

(* The end --extend asks for is a time.                                    *)
LEMMA LaterType ==
  ASSUME NEW cmd \in Commands, NEW s \in Listed
  PROVE  Later(cmd, s) \in Nat /\ FloorMinute(Later(cmd, s)) \in Nat
<1>1. cmd.weeks \in Nat /\ cmd.end \in Nat /\ s.end \in Nat /\ Week \in Nat
  BY ExpiryAssumption DEF Command, Listed
<1>2. cmd.weeks * Week \in Nat
  BY <1>1
<1> QED
  BY <1>1, <1>2, FlooredNat DEF Later

(* --extend and --shrink: the row of s gets its new end.                   *)
LEMMA PatchStep ==
  ASSUME TypeOK, NEW k \in Clients, my[k].cmd \in Commands, Extend(k) \/ Shrink(k)
  PROVE  \/ \E s \in my[k].left :
              /\ s.id \in DOMAIN rows /\ rows[s.id].start < NewEnd(k, s)
              /\ Move(s.id, rows[s.id].start, NewEnd(k, s))
              /\ unchecked' = IF s.host \in my[k].touched THEN unchecked \union {s.id} ELSE unchecked
              /\ my' = [Touching(k, rows[s.id].host) EXCEPT
                          ![k] = IF my[k].left = {s} THEN NoLocal ELSE [my[k] EXCEPT !.left = @ \ {s}]]
              /\ Goto(k, IF my[k].left = {s} THEN "done" ELSE "patch")
              /\ UNCHANGED <<now, nextId, validated, n, faults>>
         \/ /\ \E s \in my[k].left : ~(s.id \in DOMAIN rows /\ rows[s.id].start < NewEnd(k, s))
            /\ Quit(k, "error")
            /\ UNCHANGED <<now, rows, nextId, raised, validated, n, faults, history>>
<1>3. CASE Extend(k)
  <2> DEFINE end == [s \in my[k].left |-> FloorMinute(Later(my[k].cmd, s))]
  <2>1. \A s \in my[k].left : end[s] = NewEnd(k, s)
    BY <1>3 DEF Extend, PatchEnd, NewEnd
  <2>2. PatchEnd(k, "extend", end)
    BY <1>3 DEF Extend
  <2> HIDE DEF end
  <2>3. PICK s \in my[k].left :
       \/ /\ s.id \in DOMAIN rows /\ Acceptable(s.id, rows[s.id].start, end[s])
          /\ Move(s.id, rows[s.id].start, end[s])
          /\ unchecked' = IF s.host \in my[k].touched THEN unchecked \union {s.id} ELSE unchecked
          /\ my' = [Touching(k, rows[s.id].host) EXCEPT
                       ![k] = IF my[k].left = {s} THEN NoLocal ELSE [my[k] EXCEPT !.left = @ \ {s}]]
          /\ Goto(k, IF my[k].left = {s} THEN "done" ELSE "patch")
       \/ /\ ~(s.id \in DOMAIN rows /\ Acceptable(s.id, rows[s.id].start, end[s]))
          /\ Quit(k, "error")
          /\ UNCHANGED <<rows, raised, mails, told, unchecked, exempt>>
    BY <2>2 DEF PatchEnd
  <2>4. UNCHANGED <<now, nextId, validated, n, faults>>
    BY <2>2 DEF PatchEnd
  <2>5. end[s] = NewEnd(k, s)
    BY <2>1
  <2>6. s \in my[k].left
    BY <2>2 DEF PatchEnd
  <2> HIDE <2>2
  <2> QED
    BY <2>3, <2>4, <2>5, <2>6, Zenon DEF Acceptable, history
<1>4. CASE Shrink(k)
  <2> DEFINE end == [s \in my[k].left |-> ShrunkEnd(k, s)]
  <2>1. \A s \in my[k].left : end[s] = NewEnd(k, s)
    BY <1>4 DEF Shrink, PatchEnd, NewEnd
  <2>2. PatchEnd(k, "shrink", end)
    BY <1>4 DEF Shrink
  <2> HIDE DEF end
  <2>3. PICK s \in my[k].left :
       \/ /\ s.id \in DOMAIN rows /\ Acceptable(s.id, rows[s.id].start, end[s])
          /\ Move(s.id, rows[s.id].start, end[s])
          /\ unchecked' = IF s.host \in my[k].touched THEN unchecked \union {s.id} ELSE unchecked
          /\ my' = [Touching(k, rows[s.id].host) EXCEPT
                       ![k] = IF my[k].left = {s} THEN NoLocal ELSE [my[k] EXCEPT !.left = @ \ {s}]]
          /\ Goto(k, IF my[k].left = {s} THEN "done" ELSE "patch")
       \/ /\ ~(s.id \in DOMAIN rows /\ Acceptable(s.id, rows[s.id].start, end[s]))
          /\ Quit(k, "error")
          /\ UNCHANGED <<rows, raised, mails, told, unchecked, exempt>>
    BY <2>2 DEF PatchEnd
  <2>4. UNCHANGED <<now, nextId, validated, n, faults>>
    BY <2>2 DEF PatchEnd
  <2>5. end[s] = NewEnd(k, s)
    BY <2>1
  <2>6. s \in my[k].left
    BY <2>2 DEF PatchEnd
  <2> HIDE <2>2
  <2> QED
    BY <2>3, <2>4, <2>5, <2>6, Zenon DEF Acceptable, history
<1> QED
  BY <1>3, <1>4

(* The PATCHes of --extend and --shrink keep the types.                    *)
LEMMA PatchType ==
  ASSUME TypeOK, NEW k \in Clients, my[k].cmd \in Commands, Extend(k) \/ Shrink(k)
  PROVE  TypeOK'
<1>1. my[k] \in Local /\ my[k].left \subseteq Listed
  BY DEF TypeOK, Local
<1>2. CASE Quit(k, "error") /\ UNCHANGED <<now, rows, nextId, raised, validated, n, faults, history>>
  BY <1>2, QuitType DEF TypeOK, history, Final
<1>3. ASSUME NEW s \in my[k].left,
             s.id \in DOMAIN rows, Move(s.id, rows[s.id].start, NewEnd(k, s)),
             unchecked' = IF s.host \in my[k].touched THEN unchecked \union {s.id} ELSE unchecked,
             my' = [Touching(k, rows[s.id].host) EXCEPT
                      ![k] = IF my[k].left = {s} THEN NoLocal ELSE [my[k] EXCEPT !.left = @ \ {s}]],
             Goto(k, IF my[k].left = {s} THEN "done" ELSE "patch"),
             UNCHANGED <<now, nextId, validated, n, faults>>
      PROVE  TypeOK'
  <2>1. NewEnd(k, s) \in Nat
    BY <1>1, EarlierType, LaterType DEF NewEnd
  <2>2. rows[s.id].start \in Nat /\ rows[s.id].host \in Hosts /\ s.id \in Nat
    BY <1>1, <1>3 DEF TypeOK, Row, Listed
  <2>3. [my[k] EXCEPT !.left = @ \ {s}] \in Local
    BY <1>1, LocalType
  <2>4. my' \in [Clients -> Local]
    BY <1>3, <2>2, <2>3, TouchingType, NoLocalType
  <2>5. pc' \in [Clients -> {"idle"} \union Busy \union Final]
    BY <1>3, GotoType, Zenon DEF Busy, Final
  <2> QED
    BY <1>3, <2>1, <2>2, <2>4, <2>5, MoveType DEF TypeOK
<1> QED
  BY <1>2, <1>3, PatchStep

(* --mod-schedule keeps the types.                                         *)
LEMMA ModifyType ==
  ASSUME TypeOK, NEW k \in Clients, my[k].cmd \in Commands, Modify(k)
  PROVE  TypeOK'
<1> DEFINE cmd == my[k].cmd
           start == IF "start" \in cmd.fields THEN cmd.start ELSE rows[cmd.id].start
           end == IF "end" \in cmd.fields THEN cmd.end ELSE rows[cmd.id].end
<1>1. my[k] \in Local /\ cmd \in Command
  BY ExpiryAssumption, Zenon DEF TypeOK
<1>2. CASE Quit(k, "error") /\ UNCHANGED <<rows, raised, mails, told, unchecked, exempt>>
  BY <1>2, QuitType, Zenon DEF Modify, TypeOK, Final
<1>3. CASE /\ cmd.id \in DOMAIN rows /\ Move(cmd.id, start, end)
           /\ unchecked' = unchecked \union {cmd.id}
           /\ my' = [Touching(k, rows[cmd.id].host) EXCEPT ![k].all = {AsListed(cmd.id)}]
           /\ Goto(k, "clear")
  <2>1. cmd.id \in DOMAIN rows /\ cmd.id \in Nat /\ rows[cmd.id] \in Row
    BY <1>3 DEF TypeOK
  <2>2. start \in Nat /\ end \in Nat /\ rows[cmd.id].host \in Hosts
    BY <1>1, <2>1 DEF Command, Row
  <2>3. [my[k] EXCEPT !.all = {AsListed(cmd.id)}] \in Local
    <3>1. AsListed(cmd.id) \in Listed
      BY <2>1, ListedRows
    <3> HIDE DEF cmd
    <3> QED
      BY <1>1, <3>1, LocalType
  <2>4. my' \in [Clients -> Local]
    <3> DEFINE l == [my[k] EXCEPT !.all = {AsListed(cmd.id)}]
               T == Touching(k, rows[cmd.id].host)
    <3>1. T \in [Clients -> Local] /\ T[k] = my[k]
      BY <2>2, TouchingType
    <3>2. my' = [T EXCEPT ![k] = l]
      BY <1>3, <3>1
    <3> HIDE DEF l, T
    <3> QED
      BY <2>3, <3>1, <3>2 DEF l
  <2>5. pc' \in [Clients -> {"idle"} \union Busy \union Final]
    BY <1>3, GotoType DEF Busy
  <2>6. UNCHANGED <<now, nextId, validated, n, faults>>
    BY Zenon DEF Modify
  <2> HIDE DEF cmd, start, end
  <2> QED
    BY <1>3, <2>1, <2>2, <2>4, <2>5, <2>6, MoveType DEF TypeOK
<1> QED
  BY <1>2, <1>3, Zenon DEF Modify

(* --rm-schedule keeps the types.                                          *)
LEMMA RemoveType ==
  ASSUME TypeOK, NEW k \in Clients, my[k].cmd \in Commands, Remove(k)
  PROVE  TypeOK'
<1> DEFINE id == my[k].cmd.id
<1>1. CASE id \notin DOMAIN rows
  BY <1>1, QuitType DEF Remove, TypeOK, Final
<1>2. CASE id \in DOMAIN rows
  <2>1. rows[id] \in Row /\ rows[id].host \in Hosts /\ rows[id].cloud \in Clouds
    BY <1>2 DEF TypeOK, Row
  <2>2. my' \in [Clients -> Local]
    BY <1>2, <2>1, TouchingType, NoLocalType DEF Remove
  <2>3. pc' \in [Clients -> {"idle"} \union Busy \union Final]
    BY <1>2, GotoType DEF Remove, Final
  <2>4. DOMAIN rows' \subseteq 0 .. nextId' - 1 /\ rows' \in [DOMAIN rows' -> Row]
    BY <1>2 DEF Remove, TypeOK
  <2>5. exempt' \subseteq Clouds
    BY <1>2, <2>1 DEF Remove, Crossing, TypeOK
  <2> QED
    BY <1>2, <2>2, <2>3, <2>4, <2>5 DEF Remove, TypeOK
<1> QED
  BY <1>1, <1>2

(* A booking keeps the types: its number was free.                         *)
LEMMA BookType ==
  ASSUME TypeOK, NEW k \in Clients, Book(k)
  PROVE  TypeOK'
<1>1. my[k] \in Local /\ my[k].left \subseteq Listed
  BY DEF TypeOK, Local
<1>2. CASE Quit(k, "error") /\ UNCHANGED <<rows, nextId, exempt>>
  BY <1>2, QuitType DEF Book, TypeOK, Final
<1>3. CASE ~(Quit(k, "error") /\ UNCHANGED <<rows, nextId, exempt>>)
  <2> DEFINE row(s) == [host |-> Granted(s).host, cloud |-> Granted(s).cloud,
                        start |-> Granted(s).start, end |-> Granted(s).end]
  <2>1. PICK s \in my[k].left :
          /\ rows' = [i \in DOMAIN rows \union {nextId} |-> IF i = nextId THEN row(s) ELSE rows[i]]
          /\ nextId' = nextId + 1
          /\ my' = [Touching(k, s.host) EXCEPT ![k].left = @ \ {s}]
          /\ Goto(k, "clear")
          /\ exempt' = exempt \union {s.cloud}
    BY <1>3 DEF Book
  <2>2. row(s) \in Row /\ s.host \in Hosts /\ s.cloud \in Clouds
    BY <1>1, GrantedType DEF TypeOK, Listed, Row
  <2>3. [my[k] EXCEPT !.left = @ \ {s}] \in Local
    BY <1>1, LocalType
  <2>4. my' \in [Clients -> Local]
    BY <2>1, <2>2, <2>3, TouchingType
  <2>5. pc' \in [Clients -> {"idle"} \union Busy \union Final]
    BY <2>1, GotoType DEF Busy
  <2>6. DOMAIN rows' \subseteq 0 .. nextId' - 1 /\ rows' \in [DOMAIN rows' -> Row]
    BY <2>1, <2>2 DEF TypeOK
  <2> QED
    BY <2>1, <2>2, <2>4, <2>5, <2>6 DEF Book, TypeOK
<1> QED
  BY <1>2, <1>3

(***************************************************************************)
(* What a step of one command does to the others: at most the rows of one  *)
(* host are written, and every other command at work learns of it.         *)
(***************************************************************************)
RowsOf(h) == {id \in DOMAIN rows : rows[id].host = h}
Elsewhere(h) ==
  \A g \in Hosts \ {h} : RowsOf(g)' = RowsOf(g) /\ \A id \in RowsOf(g) : rows'[id] = rows[id]
Learned(j, h) ==
  /\ pc'[j] = pc[j]
  /\ my'[j] = IF pc[j] \in Busy THEN [my[j] EXCEPT !.touched = @ \union {h}] ELSE my[j]

(* A step of one command writes the schedules of one host at most, and the *)
(* other commands learn of it.                                             *)
LEMMA Others ==
  ASSUME TypeOK, NEW k \in Clients, pc[k] \in Busy => my[k].cmd \in Commands, Step(k)
  PROVE  \/ rows' = rows /\ \A j \in Clients \ {k} : pc'[j] = pc[j] /\ my'[j] = my[j]
         \/ \E h \in Hosts : Elsewhere(h) /\ \A j \in Clients \ {k} : Learned(j, h)
<1>1. CASE \/ \E cmd \in Commands : Type(k, cmd)
           \/ ListCurrent(k) \/ ListFuture(k) \/ Check(k) \/ Reset(k) \/ Judge(k) \/ ModifyReset(k)
           \/ Sift(k) \/ Ask(k) \/ BookReset(k) \/ Ticket(k) \/ SetFlags(k) \/ CallFails(k)
  BY <1>1, Zenon DEF TypeOK, Type, ListCurrent, ListTo, ListFuture, Check, Reset, Judge, ModifyReset, Sift,
              Ask, BookReset, Ticket, SetFlags, CallFails, Quit, Goto
<1>2. \A h \in Hosts, j \in Clients \ {k} :
        Touching(k, h)[j] = IF pc[j] \in Busy THEN [my[j] EXCEPT !.touched = @ \union {h}] ELSE my[j]
  BY DEF Touching
<1>3. \A id \in DOMAIN rows : rows[id].host \in Hosts /\ id \in Nat
  BY DEF TypeOK, Row
<1>4. ASSUME NEW label, Quit(k, label), rows' = rows
      PROVE  rows' = rows /\ \A j \in Clients \ {k} : pc'[j] = pc[j] /\ my'[j] = my[j]
  BY <1>4 DEF Quit, Goto, TypeOK
<1>5. ASSUME NEW h \in Hosts, NEW l, NEW label,
             my' = [Touching(k, h) EXCEPT ![k] = l], Goto(k, label)
      PROVE  \A j \in Clients \ {k} : Learned(j, h)
  <2> SUFFICES ASSUME NEW j \in Clients \ {k} PROVE Learned(j, h)
    OBVIOUS
  <2>1. pc'[j] = pc[j]
    BY <1>5 DEF Goto, TypeOK
  <2>2. my'[j] = Touching(k, h)[j]
    BY <1>5 DEF Touching
  <2> QED
    BY <1>2, <2>1, <2>2 DEF Learned
<1>6. ASSUME NEW id \in DOMAIN rows, NEW start \in Nat, NEW end \in Nat, Move(id, start, end)
      PROVE  Elsewhere(rows[id].host)
  <2>1. rows' = [rows EXCEPT ![id] = [rows[id] EXCEPT !.start = start, !.end = end]]
    BY <1>6 DEF Move
  <2>2. rows[id] \in Row
    BY DEF TypeOK
  <2>3. /\ DOMAIN rows' = DOMAIN rows /\ rows'[id].host = rows[id].host
        /\ \A i \in DOMAIN rows \ {id} : rows'[i] = rows[i]
    BY <2>1, <2>2 DEF Row
  <2> QED
    BY <2>3 DEF Elsewhere, RowsOf
<1>7. CASE Extend(k) \/ Shrink(k)
  <2>1. my[k].cmd \in Commands /\ my[k].left \subseteq Listed
    BY <1>7 DEF Extend, Shrink, PatchEnd, Busy, TypeOK, Local
  <2>2. CASE Quit(k, "error") /\ UNCHANGED rows
    BY <1>4, <2>2
  <2>3. ASSUME NEW s \in my[k].left, s.id \in DOMAIN rows,
               Move(s.id, rows[s.id].start, NewEnd(k, s)),
               my' = [Touching(k, rows[s.id].host) EXCEPT
                       ![k] = IF my[k].left = {s} THEN NoLocal ELSE [my[k] EXCEPT !.left = @ \ {s}]],
               Goto(k, IF my[k].left = {s} THEN "done" ELSE "patch")
        PROVE  \E h \in Hosts : Elsewhere(h) /\ \A j \in Clients \ {k} : Learned(j, h)
    <3>1. rows[s.id].host \in Hosts /\ rows[s.id].start \in Nat
      BY <2>3 DEF TypeOK, Row
    <3>2. NewEnd(k, s) \in Nat
      BY <2>1, EarlierType, LaterType, Zenon DEF NewEnd
    <3> QED
      BY <1>5, <1>6, <2>3, <3>1, <3>2
  <2> QED
    BY <1>7, <2>1, <2>2, <2>3, PatchStep
<1>8. CASE Modify(k)
  <2> DEFINE cmd == my[k].cmd
             start == IF "start" \in cmd.fields THEN cmd.start ELSE rows[cmd.id].start
             end == IF "end" \in cmd.fields THEN cmd.end ELSE rows[cmd.id].end
  <2>1. cmd \in Command
    BY <1>8, ExpiryAssumption, Zenon DEF Modify, Busy
  <2>2. CASE Quit(k, "error") /\ UNCHANGED rows
    BY <1>4, <2>2
  <2>3. CASE /\ cmd.id \in DOMAIN rows /\ Move(cmd.id, start, end)
             /\ my' = [Touching(k, rows[cmd.id].host) EXCEPT ![k].all = {AsListed(cmd.id)}]
             /\ Goto(k, "clear")
    <3>1. rows[cmd.id].host \in Hosts /\ start \in Nat /\ end \in Nat
      BY <2>1, <2>3 DEF TypeOK, Row, Command
    <3> DEFINE l == [Touching(k, rows[cmd.id].host)[k] EXCEPT !.all = {AsListed(cmd.id)}]
    <3>2. my' = [Touching(k, rows[cmd.id].host) EXCEPT ![k] = l]
      BY <2>3
    <3> HIDE DEF cmd, start, end, l
    <3> QED
      BY <1>5, <1>6, <2>3, <3>1, <3>2
  <2> QED
    BY <1>8, <2>2, <2>3 DEF Modify
<1>9. CASE Remove(k)
  <2> DEFINE id == my[k].cmd.id
  <2>1. CASE id \notin DOMAIN rows
    BY <1>4, <1>9, <2>1, Zenon DEF Remove
  <2>2. CASE id \in DOMAIN rows
    <3>1. Elsewhere(rows[id].host)
      BY <1>9, <2>2 DEF Remove, Elsewhere, RowsOf
    <3>2. rows[id].host \in Hosts
      BY <1>3, <2>2
    <3>3. my' = [Touching(k, rows[id].host) EXCEPT ![k] = NoLocal] /\ Goto(k, "done")
      BY <1>9, <2>2 DEF Remove
    <3> QED
      BY <1>5, <3>1, <3>2, <3>3
  <2> QED
    BY <2>1, <2>2
<1>10. CASE Book(k)
  <2>1. CASE Quit(k, "error") /\ UNCHANGED rows
    BY <1>4, <2>1
  <2> DEFINE row(s) == [host |-> Granted(s).host, cloud |-> Granted(s).cloud,
                        start |-> Granted(s).start, end |-> Granted(s).end]
  <2>2. ASSUME NEW s \in my[k].left,
               rows' = [i \in DOMAIN rows \union {nextId} |-> IF i = nextId THEN row(s) ELSE rows[i]],
               my' = [Touching(k, s.host) EXCEPT ![k].left = @ \ {s}],
               Goto(k, "clear")
        PROVE  \E h \in Hosts : Elsewhere(h) /\ \A j \in Clients \ {k} : Learned(j, h)
    <3>1. s.host \in Hosts
      BY DEF TypeOK, Local, Listed
    <3>2. Elsewhere(s.host)
      <4>1. row(s).host = s.host
        BY GrantedType DEF TypeOK, Local
      <4> HIDE DEF row
      <4> QED
        BY <2>2, <4>1 DEF Elsewhere, RowsOf, TypeOK
    <3> DEFINE l == [Touching(k, s.host)[k] EXCEPT !.left = @ \ {s}]
    <3>3. my' = [Touching(k, s.host) EXCEPT ![k] = l]
      BY <2>2
    <3> HIDE DEF l
    <3> QED
      BY <1>5, <2>2, <3>1, <3>2, <3>3
  <2> QED
    BY <1>10, <2>1, <2>2 DEF Book
<1> QED
  BY <1>1, <1>7, <1>8, <1>9, <1>10, Zenon DEF Step

(* A command stays what was typed.                                         *)
LEMMA SameCommand ==
  ASSUME TypeOK, CmdOK, NEW k \in Clients, Step(k)
  PROVE  pc'[k] \in Busy => \/ pc[k] = "idle" /\ \E cmd \in Commands : Type(k, cmd) /\ my'[k].cmd = cmd
                            \/ pc[k] \in Busy /\ my'[k].cmd = my[k].cmd
<1>1. my[k] \in Local
  BY DEF TypeOK
<1>2. Busy \intersect Final = {} /\ "idle" \notin Busy
  BY DEF Busy, Final
<1>3. ASSUME NEW label \in Final, Quit(k, label) PROVE pc'[k] \notin Busy
  BY <1>2, <1>3 DEF Quit, Goto, TypeOK
<1>4. CASE \E cmd \in Commands : Type(k, cmd)
  <2>1. PICK cmd \in Commands : Type(k, cmd)
    BY <1>4
  <2>2. my'[k] = [NoLocal EXCEPT !.cmd = cmd, !.began = now, !.all = Wanted(cmd), !.left = Wanted(cmd)]
    BY <2>1 DEF Type, TypeOK
  <2>3. my'[k].cmd = cmd /\ pc[k] = "idle"
    BY <2>1, <2>2 DEF Type, NoLocal
  <2> QED
    BY <2>1, <2>3
<1>5. CASE Reset(k) \/ Judge(k) \/ ModifyReset(k) \/ BookReset(k) \/ Ticket(k) \/ SetFlags(k) \/ CallFails(k)
  BY <1>1, <1>3, <1>5 DEF TypeOK, Reset, Judge, ModifyReset, BookReset, Ticket, SetFlags, CallFails, Busy, Final
<1>6. CASE ListCurrent(k) \/ ListFuture(k) \/ Check(k) \/ Sift(k) \/ Ask(k)
  <2>1. pc[k] \in Busy
    BY <1>6, Zenon DEF ListCurrent, ListFuture, Check, Sift, Ask, Busy
  <2>2. CASE \E label \in Final : Quit(k, label)
    BY <1>3, <2>2
  <2>4. CASE ListCurrent(k)
    BY <1>1, <2>1, <2>4 DEF ListCurrent, ListTo, TypeOK, Local
  <2>5. CASE ListFuture(k)
    <3>1. \/ \E label \in Final : Quit(k, label)
          \/ \E x : my' = [my EXCEPT ![k] = [my[k] EXCEPT !.all = x, !.left = x, !.touched = {}]]
      BY <2>5 DEF ListFuture, Final
    <3>2. ASSUME NEW x, my' = [my EXCEPT ![k] = [my[k] EXCEPT !.all = x, !.left = x, !.touched = {}]]
          PROVE  my'[k].cmd = my[k].cmd
      <4>1. my'[k] = [my[k] EXCEPT !.all = x, !.left = x, !.touched = {}]
        BY <3>2 DEF TypeOK
      <4> QED
        BY <1>1, <4>1 DEF Local
    <3> QED
      BY <2>1, <2>2, <3>1, <3>2
  <2>6. CASE Check(k)
    <3>1. PICK s \in my[k].left : \/ my' = [my EXCEPT ![k].bad = Verdict(k, s), ![k].left = @ \ {s}]
                                 \/ my' = [my EXCEPT ![k].left = my[k].all]
                                 \/ Quit(k, "refused")
      BY <2>6 DEF Check
    <3> QED
      BY <1>1, <2>1, <2>2, <3>1 DEF TypeOK, Local, Final
  <2>7. CASE Sift(k)
    <3>1. \/ Quit(k, "done")
          \/ \E x, y : my' = [my EXCEPT ![k] = [my[k] EXCEPT !.all = x, !.left = y]]
      BY <2>7 DEF Sift
    <3>2. ASSUME NEW x, NEW y, my' = [my EXCEPT ![k] = [my[k] EXCEPT !.all = x, !.left = y]]
          PROVE  my'[k].cmd = my[k].cmd
      <4>1. my'[k] = [my[k] EXCEPT !.all = x, !.left = y]
        BY <3>2 DEF TypeOK
      <4> QED
        BY <1>1, <4>1 DEF Local
    <3> QED
      BY <2>1, <2>2, <3>1, <3>2 DEF Final
  <2>8. CASE Ask(k)
    <3>1. \/ Quit(k, "refused")
          \/ \E x, y : my' = [my EXCEPT ![k].bad = x, ![k].left = y]
          \/ \E y : my' = [my EXCEPT ![k].left = y]
      BY <2>8 DEF Ask
    <3>2. ASSUME NEW x, NEW y, \/ my' = [my EXCEPT ![k].bad = x, ![k].left = y]
                               \/ my' = [my EXCEPT ![k].left = y]
          PROVE  my'[k].cmd = my[k].cmd
      <4>1. my'[k] = [my[k] EXCEPT !.bad = x, !.left = y] \/ my'[k] = [my[k] EXCEPT !.left = y]
        BY <3>2 DEF TypeOK
      <4> QED
        BY <1>1, <4>1 DEF Local
    <3> QED
      BY <2>1, <2>2, <3>1, <3>2 DEF Final
  <2> QED
    BY <1>6, <2>4, <2>5, <2>6, <2>7, <2>8
<1>7. \A h \in Hosts : Touching(k, h)[k] = my[k] /\ Touching(k, h) \in [Clients -> Local]
  BY TouchingType
<1>8. CASE Extend(k) \/ Shrink(k)
  <2>1. my[k].cmd \in Commands
    BY <1>8 DEF Extend, Shrink, PatchEnd, Busy, CmdOK
  <2>2. \A id \in DOMAIN rows : rows[id].host \in Hosts
    BY DEF TypeOK, Row
  <2>3. pc[k] \in Busy
    BY <1>8 DEF Extend, Shrink, PatchEnd, Busy
  <2>4. CASE Quit(k, "error")
    BY <1>3, <2>4 DEF Final
  <2>5. ASSUME NEW s \in my[k].left, s.id \in DOMAIN rows,
               my' = [Touching(k, rows[s.id].host) EXCEPT
                       ![k] = IF my[k].left = {s} THEN NoLocal ELSE [my[k] EXCEPT !.left = @ \ {s}]],
               Goto(k, IF my[k].left = {s} THEN "done" ELSE "patch")
        PROVE  pc'[k] \in Busy => my'[k].cmd = my[k].cmd
    <3>1. my'[k] = IF my[k].left = {s} THEN NoLocal ELSE [my[k] EXCEPT !.left = @ \ {s}]
      BY <1>7, <2>2, <2>5
    <3>2. pc'[k] = IF my[k].left = {s} THEN "done" ELSE "patch"
      BY <2>5 DEF Goto, TypeOK
    <3> QED
      BY <1>1, <1>2, <3>1, <3>2 DEF Final, Local
  <2> QED
    BY <1>8, <2>1, <2>3, <2>4, <2>5, PatchStep
<1>9. CASE Modify(k)
  <2>1. my[k].cmd.id \in DOMAIN rows => rows[my[k].cmd.id].host \in Hosts
    BY DEF TypeOK, Row
  <2> QED
    <3>1. \/ Quit(k, "error")
          \/ \E h \in Hosts : \E x : my' = [Touching(k, h) EXCEPT ![k].all = x]
      BY <1>9, <2>1, Zenon DEF Modify
    <3>2. pc[k] \in Busy
      BY <1>9, Zenon DEF Modify, Busy
    <3> QED
      BY <1>1, <1>3, <1>7, <3>1, <3>2, Zenon DEF Final, Local
<1>10. CASE Remove(k)
  BY <1>2, <1>3, <1>10 DEF Remove, Goto, Final, TypeOK
<1>11. CASE Book(k)
  <2>1. \A s \in my[k].left : s.host \in Hosts
    BY <1>1 DEF Local, Listed
  <2> QED
    <3>1. \/ Quit(k, "error")
          \/ \E h \in Hosts : \E x : my' = [Touching(k, h) EXCEPT ![k].left = x]
      BY <1>11, <2>1 DEF Book
    <3>2. pc[k] \in Busy
      BY <1>11 DEF Book, Busy
    <3> QED
      BY <1>1, <1>3, <1>7, <3>1, <3>2 DEF Final, Local
<1> QED
  BY <1>4, <1>5, <1>6, <1>8, <1>9, <1>10, <1>11 DEF Step

(* A step of a command keeps the types.                                    *)
LEMMA StepType ==
  ASSUME TypeInv, NEW k \in Clients, Step(k)
  PROVE  TypeInv'
<1>1. TypeOK /\ CmdOK /\ RunOK
  BY DEF TypeInv
<1>2. pc[k] \in Busy => my[k].cmd \in Commands
  BY <1>1 DEF CmdOK
<1>3. TypeOK'
  <2>1. CASE \/ Extend(k) \/ Shrink(k) \/ Modify(k) \/ Remove(k) \/ SetFlags(k)
    <3>1. my[k].cmd \in Commands
      BY <1>2, <2>1, Zenon DEF Extend, Shrink, PatchEnd, Modify, Remove, SetFlags, Busy
    <3> QED
      BY <1>1, <2>1, <3>1, PatchType, ModifyType, RemoveType, FlagsType, Zenon
  <2> QED
    BY <1>1, <2>1, TypeType, ListType, EachType, FlagsType, BookType DEF Step
<1>4. CmdOK'
  <2> SUFFICES ASSUME NEW j \in Clients, pc'[j] \in Busy PROVE my'[j].cmd \in Commands
    BY DEF CmdOK
  <2>1. CASE j = k
    BY <1>1, <1>2, <2>1, SameCommand
  <2>2. CASE j # k
    <3>1. pc'[j] = pc[j] /\ (my'[j] = my[j] \/ \E h : my'[j] = [my[j] EXCEPT !.touched = @ \union {h}])
      BY <1>1, <1>2, <2>2, Others DEF Learned
    <3>2. my[j] \in Local
      BY <1>1 DEF TypeOK
    <3> QED
      BY <1>1, <3>1, <3>2 DEF CmdOK, Local
  <2> QED
    BY <2>1, <2>2
<1>5. RunOK'
  BY <1>1, StepFrame DEF RunOK
<1> QED
  BY <1>3, <1>4, <1>5 DEF TypeInv

----------------------------------------------------------------------------
(* The notifier.                                                           *)

(* A run that takes up a cloud.                                            *)
LEMMA TurnType ==
  ASSUME TypeOK, NEW c \in Clouds, NEW next \in Labels, NEW notice \in Flags \union {None},
         NEW days \in SUBSET Notices, NEW then \in Labels, NEW flags \in SUBSET Flags,
         Turn(c, next, notice, days, then, flags)
  PROVE  /\ n' \in Run
         /\ n'.pc = next /\ n'.at = c /\ n'.notice = notice /\ n'.days = days /\ n'.then = then
         /\ n'.todo = n.todo \ {c} /\ n'.flags = [n.flags EXCEPT ![c] = flags]
<1>1. n \in Run /\ now \in Nat
  BY DEF TypeOK
<1>2. CurrentOf(c, now) \in SUBSET Listed
  BY ListedRows
<1>3. (IF Running("first") THEN now ELSE 0) \in Nat
  BY <1>1
<1>4. n' = [n EXCEPT !.pc = next, !.todo = n.todo \ {c}, !.at = c, !.current = CurrentOf(c, now),
                 !.asof = IF Running("first") THEN now ELSE 0, !.days = days, !.notice = notice,
                 !.leaving = {}, !.then = then, !.missed = FALSE,
                 !.flags = [n.flags EXCEPT ![c] = flags]]
  BY DEF Turn
<1>5. n.todo \ {c} \in SUBSET Clouds /\ [n.flags EXCEPT ![c] = flags] \in [Clouds -> SUBSET Flags]
  BY <1>1 DEF Run
<1> QED
  BY <1>1, <1>2, <1>3, <1>4, <1>5 DEF Run

(* The notifier between two runs is a run with nothing to do.              *)
LEMMA IdleType == Idle \in Run
BY DEF Idle, Run, Labels

(* The clouds of a run, and the days it has left.                          *)
LEMMA RunType ==
  ASSUME TypeOK
  PROVE  /\ n \in Run /\ n.todo \subseteq Clouds /\ n.days \subseteq Notices /\ Notices \subseteq Flags
         /\ n.flags \in [Clouds -> SUBSET Flags] /\ initial \in Flags /\ pre_initial \in Flags /\ pre \in Flags
         /\ n.days # {} => NextDay \in n.days
<1>1. n \in Run /\ n.todo \subseteq Clouds /\ n.days \subseteq Notices /\ n.flags \in [Clouds -> SUBSET Flags]
  BY DEF TypeOK, Run
<1>2. n.days # {} => NextDay \in n.days
  BY <1>1, NextDayIn DEF NextDay
<1> QED
  BY <1>1, <1>2 DEF Flags

(* The parts of a run that a step replaces.                                *)
LEMMA RunEdits ==
  ASSUME NEW r \in Run
  PROVE  /\ r.then \in Labels /\ r.pc \in Labels
         /\ \A p \in Labels, f \in Flags, hs \in SUBSET Hosts, t \in Labels :
              [r EXCEPT !.pc = p, !.notice = f, !.leaving = hs, !.days = {}, !.then = t] \in Run
         /\ \A p \in Labels, f \in Flags, t \in Labels :
              [r EXCEPT !.pc = p, !.notice = f, !.days = {}, !.then = t] \in Run
         /\ \A days \in SUBSET Notices : [r EXCEPT !.days = days] \in Run
         /\ \A days \in SUBSET Notices : [r EXCEPT !.days = days, !.missed = TRUE] \in Run
         /\ \A p \in Labels : [r EXCEPT !.pc = p, !.notice = None, !.leaving = {}] \in Run
         /\ \A todo \in SUBSET Clouds : [r EXCEPT !.todo = todo, !.at = None] \in Run
         /\ \A todo \in SUBSET Clouds : [Idle EXCEPT !.pc = "second", !.todo = todo] \in Run
<1>1. r.then \in Labels /\ r.pc \in Labels
  BY DEF Run
<1>2. \A todo \in SUBSET Clouds : [Idle EXCEPT !.pc = "second", !.todo = todo] \in Run
  BY DEF Idle, Run, Labels
<1> QED
  BY <1>1, <1>2 DEF Run

(* Every step of the notifier keeps its own types.                         *)
LEMMA RunStep ==
  ASSUME TypeOK, RunOK, Notify \/ QueryFails \/ MarkFails \/ Dies
  PROVE  n' \in Run /\ RunOK'
<1>1. n \in Run
  BY DEF TypeOK
<1>2. CASE NStart
  BY <1>2 DEF NStart, Idle, Run, Labels, TypeOK, RunOK
<1>3. CASE FirstLoop
  <2>1. PICK c \in n.todo :
          \/ Turn(c, Resume("days", c), None, Days("days", c), Resume("days", c), n.flags[c])
          \/ Turn(c, "send", initial, Days("days", c), Resume("days", c), n.flags[c])
    BY <1>3 DEF FirstLoop
  <2>2. PICK on \in {"first", "days"}, days \in {{}, Notices}, flags \in SUBSET Flags :
          /\ on = "first" => days = {}
          /\ Turn(c, on, None, days, on, flags) \/ Turn(c, "send", initial, days, on, flags)
    <3>1. Resume("days", c) \in {"first", "days"} /\ Days("days", c) \in {{}, Notices}
          /\ (Resume("days", c) = "first" => Days("days", c) = {})
      BY DEF Resume, Days
    <3>2. n.flags[c] \in SUBSET Flags
      BY RunType
    <3> QED
      BY <2>1, <3>1, <3>2, Zenon
  <2>3. c \in Clouds /\ initial \in Flags /\ days \in SUBSET Notices /\ initial \notin Notices
    BY RunType, ExpiryAssumption
  <2>4. on \in Labels /\ "send" \in Labels
    BY DEF Labels
  <2>5. /\ n' \in Run /\ n'.at = c /\ n'.todo = n.todo \ {c}
        /\ n'.pc = on \/ (n'.pc = "send" /\ n'.notice = initial /\ n'.days = days /\ n'.then = on)
    BY <2>2, <2>3, <2>4, TurnType
  <2> QED
    BY <2>2, <2>3, <2>5 DEF RunOK
<1>4. CASE LookAhead
  <2>1. NextDay \in n.days /\ NextDay \in Notices /\ Notices \subseteq Flags
    BY <1>4, RunType DEF LookAhead
  <2>2. Leaving(NextDay) \subseteq Hosts
    BY <1>1 DEF Leaving, HostsOf, Run, Listed
  <2>3. \/ n' = [n EXCEPT !.pc = "send", !.notice = NextDay, !.leaving = Leaving(NextDay),
                          !.days = {}, !.then = "first"]
        \/ n' = [n EXCEPT !.days = n.days \ {NextDay}]
    BY <1>4 DEF LookAhead
  <2>4. n.pc = "days"
    BY <1>4 DEF LookAhead, Running
  <2>5. n' \in Run
    <3>1. "send" \in Labels /\ "first" \in Labels /\ n.days \ {NextDay} \in SUBSET Notices
      BY RunType DEF Labels
    <3>2. [n EXCEPT !.pc = "send", !.notice = NextDay, !.leaving = Leaving(NextDay),
                    !.days = {}, !.then = "first"] \in Run
      BY <1>1, <2>1, <2>2, <3>1, RunEdits
    <3>3. [n EXCEPT !.days = n.days \ {NextDay}] \in Run
      BY <1>1, <3>1, RunEdits
    <3> QED
      BY <2>3, <3>2, <3>3
  <2> QED
    <3>1. /\ n'.at = n.at /\ n'.todo = n.todo
          /\ n'.pc = "days" \/ (n'.pc = "send" /\ n'.notice = NextDay /\ n'.days = {} /\ n'.then = "first")
      BY <1>1, <2>3, <2>4 DEF Run
    <3> QED
      BY <2>1, <2>4, <2>5, <3>1 DEF RunOK
<1>5. CASE DaysDone
  BY <1>1, <1>5 DEF DaysDone, Run, Labels, RunOK
<1>6. CASE Send
  BY <1>1, <1>6 DEF Send, Run, Labels, RunOK, Running
<1>7. CASE Mark \/ MarkFails
  <2>1. Marked /\ n.pc = "mark"
    BY <1>7 DEF Mark, MarkFails, Running
  <2>2. CASE n.then = "second"
    <3>1. n' = [Idle EXCEPT !.pc = "second", !.todo = n.todo]
      BY <2>1, <2>2 DEF Marked, Afresh
    <3>2. n' \in Run
      BY <1>1, <3>1, RunEdits, RunType
    <3> QED
      BY <3>1, <3>2 DEF RunOK, Idle
  <2>3. CASE n.then # "second"
    <3>1. n' = [n EXCEPT !.pc = n.then, !.notice = None, !.leaving = {}]
      BY <2>1, <2>3 DEF Marked
    <3>2. n' \in Run
      BY <1>1, <3>1, RunEdits
    <3>3. n'.pc = n.then /\ n'.at = n.at /\ n'.todo = n.todo
      BY <1>1, <3>1 DEF Run
    <3> QED
      BY <2>1, <2>3, <3>2, <3>3 DEF RunOK
  <2> QED
    BY <2>2, <2>3
<1>8. CASE SecondStart
  <2>1. Owned \subseteq Clouds
    BY ExpiryAssumption
  <2> QED
    BY <1>8, <2>1 DEF SecondStart, Idle, Run, Labels, RunOK
<1>9. CASE SecondLoop
  <2>1. PICK c \in n.todo : \E days \in {{}, Notices} :
          \/ Turn(c, "later", None, days, "later", raised[c])
          \/ Turn(c, "send", pre_initial, days, "later", raised[c])
    BY <1>9 DEF SecondLoop
  <2>2. PICK days \in {{}, Notices} :
          \/ Turn(c, "later", None, days, "later", raised[c])
          \/ Turn(c, "send", pre_initial, days, "later", raised[c])
    BY <2>1
  <2>3. c \in Clouds /\ raised[c] \in SUBSET Flags /\ pre_initial \in Flags /\ days \in SUBSET Notices
    BY RunType DEF TypeOK
  <2>4. pre_initial \notin Notices
    BY ExpiryAssumption
  <2>5. "later" \in Labels /\ "send" \in Labels
    BY DEF Labels
  <2>6. /\ n' \in Run /\ n'.at = c /\ n'.todo = n.todo \ {c}
        /\ n'.pc = "later" \/ (n'.pc = "send" /\ n'.notice = pre_initial /\ n'.days = days /\ n'.then = "later")
    BY <2>2, <2>3, <2>5, TurnType
  <2> QED
    BY <2>3, <2>4, <2>6 DEF RunOK
<1>10. CASE LookLater
  <2>1. Min(n.days) \in n.days /\ Min(n.days) \in Notices
    BY <1>10, RunType DEF LookLater, NextDay
  <2>2. \/ n' = [n EXCEPT !.pc = "send", !.notice = pre, !.days = {}, !.then = "second"]
        \/ n' = [n EXCEPT !.days = n.days \ {Min(n.days)}]
    BY <1>10 DEF LookLater
  <2>3. n.pc = "later" /\ pre \in Flags
    BY <1>10, RunType DEF LookLater, Running
  <2>4. n' \in Run
    <3>1. "send" \in Labels /\ "second" \in Labels /\ n.days \ {Min(n.days)} \in SUBSET Notices
      BY RunType DEF Labels
    <3>2. [n EXCEPT !.pc = "send", !.notice = pre, !.days = {}, !.then = "second"] \in Run
      BY <1>1, <2>3, <3>1, RunEdits
    <3>3. [n EXCEPT !.days = n.days \ {Min(n.days)}] \in Run
      BY <1>1, <3>1, RunEdits
    <3> QED
      BY <2>2, <3>2, <3>3
  <2> QED
    <3>1. /\ n'.at = n.at /\ n'.todo = n.todo
          /\ n'.pc = "later" \/ (n'.pc = "send" /\ n'.notice = pre /\ n'.days = {} /\ n'.then = "second")
      BY <1>1, <2>2, <2>3 DEF Run
    <3> QED
      BY <2>3, <2>4, <3>1 DEF RunOK
<1>11. CASE LaterDone
  BY <1>1, <1>11 DEF LaterDone, Afresh, Idle, Run, Labels, RunOK
<1>12. CASE NEnd \/ Dies
  <2>1. n' = Idle
    BY <1>12 DEF NEnd, Dies
  <2> QED
    BY <2>1, IdleType DEF Idle, RunOK
<1>13. CASE QueryFails
  <2>1. CASE /\ n.pc \in {"first", "second"}
             /\ \E c \in n.todo : n' = [n EXCEPT !.todo = n.todo \ {c}, !.at = None]
    <3>1. n' \in Run
      <4>1. \A c \in n.todo : n.todo \ {c} \in SUBSET Clouds
        BY RunType
      <4> QED
        BY <1>1, <2>1, <4>1, RunEdits
    <3>2. n'.pc = n.pc
      BY <1>1, <2>1 DEF Run
    <3> QED
      BY <2>1, <3>1, <3>2 DEF RunOK
  <2>2. CASE n.pc \in {"days", "later"} /\ n' = [n EXCEPT !.days = n.days \ {NextDay}, !.missed = TRUE]
    BY <1>1, <2>2 DEF RunOK, Run
  <2> QED
    BY <1>13, <2>1, <2>2 DEF QueryFails
<1> QED
  BY <1>2, <1>3, <1>4, <1>5, <1>6, <1>7, <1>8, <1>9, <1>10, <1>11, <1>12, <1>13 DEF Notify

(* The notifier writes flags and the account of its mails, nothing else.   *)
LEMMA NotifyFrame ==
  ASSUME TypeOK, RunOK, Notify \/ QueryFails \/ MarkFails \/ Dies
  PROVE  /\ UNCHANGED <<now, rows, nextId, validated, pc, my, unchecked>>
         /\ raised' \in [Clouds -> SUBSET Flags] /\ mails' \in [Clouds -> [Flags -> Nat]]
         /\ told' \subseteq Clouds \X Hosts /\ exempt' \subseteq Clouds /\ faults' \in Nat
<1>1. UNCHANGED <<now, rows, nextId, validated, pc, my, unchecked>>
  BY DEF Notify, NStart, FirstLoop, LookAhead, DaysDone, Send, Mark, SecondStart, SecondLoop, LookLater,
         LaterDone, NEnd, QueryFails, MarkFails, Dies, Still, client, history
<1>2. CASE Send
  <2>1. n.at \in Clouds /\ n.notice \in Flags /\ n.leaving \subseteq Hosts
    BY <1>2 DEF Send, Running, RunOK, TypeOK, Run
  <2>2. mails' \in [Clouds -> [Flags -> Nat]]
    BY <1>2, <2>1 DEF Send, TypeOK
  <2> QED
    BY <1>1, <1>2, <2>1, <2>2 DEF Send, TypeOK
<1>3. CASE Mark
  <2>1. n.at \in Clouds /\ n.notice \in Flags
    BY <1>3 DEF Mark, Running, RunOK
  <2> QED
    BY <1>1, <1>3, <2>1 DEF Mark, TypeOK, history
<1>4. CASE ~Send /\ ~Mark
  <2>1. UNCHANGED <<raised, mails, told, exempt>> /\ faults' \in {faults, faults + 1}
    BY <1>4 DEF Notify, NStart, FirstLoop, LookAhead, DaysDone, SecondStart, SecondLoop, LookLater,
                LaterDone, NEnd, QueryFails, MarkFails, Dies, Fault, history
  <2> QED
    BY <1>1, <2>1 DEF TypeOK
<1> QED
  BY <1>2, <1>3, <1>4

(* The types hold at the start and are kept.                               *)
LEMMA InitType == Init => TypeInv
<1> SUFFICES ASSUME Init PROVE TypeInv
  OBVIOUS
<1>1. DOMAIN rows \subseteq 0 .. nextId - 1 /\ nextId \in Nat /\ rows \in [DOMAIN rows -> Row]
  BY ExpiryAssumption DEF Init
<1>2. my \in [Clients -> Local] /\ pc \in [Clients -> {"idle"}]
  BY NoLocalType DEF Init
<1>3. TypeOK
  BY <1>1, <1>2, IdleType DEF Init, TypeOK
<1>4. CmdOK /\ RunOK
  BY <1>3 DEF Init, CmdOK, Busy, RunOK, Idle
<1> QED
  BY <1>3, <1>4 DEF TypeInv

(* Every step keeps the types.                                             *)
LEMMA NextType == TypeInv /\ [Next]_vars => TypeInv'
<1> SUFFICES ASSUME TypeInv, [Next]_vars PROVE TypeInv'
  OBVIOUS
<1>1. TypeOK /\ CmdOK /\ RunOK
  BY DEF TypeInv
<1>2. CASE \E k \in Clients : Step(k)
  BY <1>2, StepType
<1>3. CASE Notify \/ QueryFails \/ MarkFails \/ Dies
  <2>1. TypeOK'
    BY <1>1, <1>3, RunStep, NotifyFrame DEF TypeOK
  <2>2. CmdOK'
    BY <1>1, <1>3, NotifyFrame DEF CmdOK
  <2> QED
    BY <1>1, <1>3, <2>1, <2>2, RunStep DEF TypeInv
<1>4. CASE (\E c \in Clouds : Validate(c)) \/ Tick
  <2>1. /\ UNCHANGED <<rows, nextId, raised, pc, my, n, faults, mails, told, unchecked, exempt>>
        /\ now' \in Nat /\ validated' \subseteq Clouds
    BY <1>1, <1>4 DEF Validate, Tick, client, history, TypeOK
  <2> QED
    BY <1>1, <2>1 DEF TypeInv, TypeOK, CmdOK, RunOK
<1>5. CASE UNCHANGED vars
  BY <1>1, <1>5 DEF vars, TypeInv, TypeOK, CmdOK, RunOK
<1> QED
  BY <1>2, <1>3, <1>4, <1>5 DEF Next

(* Every variable keeps its type; a command at work was typed, and a run   *)
(* of the notifier has the cloud and the notice its place asks for.        *)
THEOREM TypeCorrect == Spec => []TypeInv
<1> QED
  BY InitType, NextType, PTL DEF Spec

----------------------------------------------------------------------------
(* The account of the notices.                                             *)

(* A command only ever clears the account of a flag it lowers.             *)
LEMMA StepMails ==
  ASSUME TypeInv, NEW k \in Clients, Step(k)
  PROVE  /\ n' = n /\ faults' \in Nat /\ faults <= faults'
         /\ \A c \in Clouds, f \in Flags :
              \/ mails'[c][f] = 0
              \/ mails'[c][f] = mails[c][f] /\ (f \in raised[c] => f \in raised'[c])
<1>1. TypeOK /\ CmdOK
  BY DEF TypeInv
<1>2. n' = n
  BY StepFrame, Zenon
<1>3. faults' \in {faults, faults + 1}
  BY Zenon DEF Step, Type, ListCurrent, ListTo, ListFuture, Check, Reset, Extend, Judge, Shrink, PatchEnd,
         Modify, ModifyReset, Remove, Sift, Ask, Book, BookReset, Ticket, SetFlags, CallFails
<1>4. ASSUME NEW c, NEW fs, Lower(c, fs)
      PROVE  \A d \in Clouds, f \in Flags :
               \/ mails'[d][f] = 0
               \/ mails'[d][f] = mails[d][f] /\ (f \in raised[d] => f \in raised'[d])
  BY <1>1, <1>4 DEF Lower, TypeOK
<1>5. \/ UNCHANGED <<raised, mails>>
      \/ \E c, fs : Lower(c, fs)
      \/ /\ mails' = mails
         /\ \E c, fs : raised' = [raised EXCEPT ![c] = @ \union fs]
  <2>1. CASE SetFlags(k)
    BY <2>1 DEF SetFlags
  <2>2. CASE \/ Reset(k) \/ ModifyReset(k) \/ BookReset(k)
    BY <2>2 DEF Reset, LowerNotices, ModifyReset, BookReset
  <2>3. CASE \/ Extend(k) \/ Shrink(k) \/ Modify(k)
    BY <2>3, Zenon DEF Extend, Shrink, PatchEnd, Modify, Move
  <2>4. CASE \/ (\E cmd \in Commands : Type(k, cmd)) \/ ListCurrent(k) \/ ListFuture(k) \/ Check(k)
             \/ Judge(k) \/ Remove(k) \/ Sift(k) \/ Ask(k) \/ Book(k) \/ Ticket(k) \/ CallFails(k)
    BY <2>4, Zenon DEF Type, ListCurrent, ListTo, ListFuture, Check, Judge, Remove, Sift, Ask, Book, Ticket,
                CallFails, history
  <2> QED
    BY <2>1, <2>2, <2>3, <2>4 DEF Step
<1>6. CASE mails' = mails /\ \E c, fs : raised' = [raised EXCEPT ![c] = @ \union fs]
  BY <1>1, <1>2, <1>3, <1>6 DEF TypeOK
<1> QED
  BY <1>1, <1>2, <1>3, <1>4, <1>5, <1>6 DEF TypeOK

(***************************************************************************)
(* A step of the notifier that sends nothing may not make a flag ripe for  *)
(* sending that was not, unless its account is clear anyway.               *)
(***************************************************************************)
LEMMA QuietRun ==
  ASSUME TypeInv, MailsOK, mails' = mails, raised' = raised,
         faults' \in Nat, faults <= faults', n.pc # "mark",
         \A c \in Clouds, f \in Flags :
           MaySend(c, f)' => MaySend(c, f) \/ f \notin raised[c]
  PROVE  MailsOK'
<1> SUFFICES ASSUME NEW c \in Clouds, NEW f \in Flags
             PROVE  /\ mails'[c][f] <= faults' + 1
                    /\ f \notin raised'[c] => mails'[c][f] <= faults'
                    /\ MaySend(c, f)' => mails'[c][f] <= faults'
  BY DEF MailsOK
<1>1. mails[c][f] \in Nat /\ faults \in Nat
  BY DEF TypeInv, TypeOK
<1>2. /\ mails[c][f] <= faults + 1
      /\ f \notin raised[c] => mails[c][f] <= faults
      /\ MaySend(c, f) => mails[c][f] <= faults
  BY DEF MailsOK
<1>3. MaySend(c, f)' => MaySend(c, f) \/ f \notin raised[c]
  OBVIOUS
<1> QED
  BY <1>1, <1>2, <1>3

(* The notifier sends what it has not sent, and counts its faults.         *)
LEMMA NotifyMails ==
  ASSUME TypeInv, MailsOK, Notify \/ QueryFails \/ MarkFails \/ Dies
  PROVE  MailsOK'
<1>1. TypeOK /\ RunOK /\ n \in Run /\ faults \in Nat
  BY DEF TypeInv, TypeOK
<1>2. \A c \in Clouds, f \in Flags :
        /\ mails[c][f] \in Nat
        /\ mails[c][f] <= faults + 1
        /\ f \notin raised[c] /\ ~(n.pc = "mark" /\ n.at = c /\ n.notice = f) => mails[c][f] <= faults
        /\ MaySend(c, f) => mails[c][f] <= faults
  BY <1>1 DEF MailsOK, TypeOK
<1>3. /\ n.todo \subseteq Clouds /\ n.days \subseteq Notices /\ Notices \subseteq Flags
      /\ n.flags \in [Clouds -> SUBSET Flags] /\ initial \in Flags /\ pre_initial \in Flags /\ pre \in Flags
      /\ n.days # {} => NextDay \in n.days
  BY <1>1, RunType
<1>4. initial \notin Notices /\ pre_initial \notin Notices /\ pre \notin Notices /\ pre # pre_initial
  BY ExpiryAssumption
<1>5. CASE QueryFails \/ MarkFails \/ Dies
  <2>1. faults' = faults + 1 /\ mails' = mails
    BY <1>5 DEF QueryFails, MarkFails, Dies, Fault, history
  <2> QED
    BY <1>1, <1>2, <2>1 DEF MailsOK
<1>6. CASE NStart
  <2>1. n'.pc = "first" /\ n'.flags = raised
    BY <1>6 DEF NStart, Idle
  <2>2. n.pc = "idle" /\ mails' = mails /\ raised' = raised /\ faults' = faults
    BY <1>6 DEF NStart, Running, history
  <2>3. \A c \in Clouds, f \in Flags : MaySend(c, f)' => f \notin raised[c]
    BY <2>1 DEF MaySend, InFirst, InSecond
  <2> QED
    BY <1>1, <2>2, <2>3, QuietRun
<1>7. CASE FirstLoop
  <2>1. PICK c \in n.todo :
          \/ Turn(c, Resume("days", c), None, Days("days", c), Resume("days", c), n.flags[c])
          \/ /\ initial \notin n.flags[c]
             /\ Turn(c, "send", initial, Days("days", c), Resume("days", c), n.flags[c])
    BY <1>7 DEF FirstLoop
  <2>2. PICK on \in {"first", "days"}, days \in {{}, Notices}, flags \in {n.flags[c]} :
          \/ Turn(c, on, None, days, on, flags)
          \/ initial \notin n.flags[c] /\ Turn(c, "send", initial, days, on, flags)
    <3>1. Resume("days", c) \in {"first", "days"} /\ Days("days", c) \in {{}, Notices}
      BY DEF Resume, Days
    <3> QED
      BY <2>1, <3>1, Zenon
  <2>3. c \in Clouds /\ days \in SUBSET Notices /\ flags \in SUBSET Flags
    BY <1>3
  <2>4. on \in Labels /\ "send" \in Labels
    BY DEF Labels
  <2>5. /\ n'.at = c /\ n'.days = days /\ n'.then = on /\ n'.todo = n.todo \ {c}
        /\ n'.flags = [n.flags EXCEPT ![c] = flags]
        /\ n'.pc = on \/ (n'.pc = "send" /\ n'.notice = initial /\ initial \notin n.flags[c])
    BY <1>1, <1>3, <2>2, <2>3, <2>4, TurnType
  <2>6. n'.flags = n.flags
    BY <1>3, <2>3, <2>5
  <2>7. n.pc = "first" /\ mails' = mails /\ raised' = raised /\ faults' = faults
    BY <1>7 DEF FirstLoop, Running, history
  <2>8. \A d \in Clouds, f \in Flags : MaySend(d, f)' => MaySend(d, f)
    BY <1>3, <2>3, <2>5, <2>6, <2>7 DEF MaySend, InFirst, InSecond
  <2> QED
    BY <1>1, <2>7, <2>8, QuietRun
<1>8. CASE LookAhead
  <2>1. NextDay \in n.days /\ n.pc = "days" /\ mails' = mails /\ raised' = raised /\ faults' = faults
    BY <1>3, <1>8 DEF LookAhead, Running, history
  <2>2. \/ /\ NextDay \notin n.flags[n.at]
           /\ n' = [n EXCEPT !.pc = "send", !.notice = NextDay, !.leaving = Leaving(NextDay),
                             !.days = {}, !.then = "first"]
        \/ n' = [n EXCEPT !.days = @ \ {NextDay}]
    BY <1>8 DEF LookAhead, Due
  <2>3. /\ n'.at = n.at /\ n'.todo = n.todo /\ n'.flags = n.flags
        /\ \/ n'.pc = "send" /\ n'.notice = NextDay /\ n'.days = {} /\ n'.then = "first"
              /\ NextDay \notin n.flags[n.at]
           \/ n'.pc = "days" /\ n'.days = n.days \ {NextDay}
    BY <1>1, <2>1, <2>2 DEF Run
  <2>4. \A d \in Clouds, f \in Flags : MaySend(d, f)' => MaySend(d, f)
    BY <2>1, <2>3 DEF MaySend, InFirst, InSecond
  <2> QED
    BY <1>1, <2>1, <2>4, QuietRun
<1>9. CASE DaysDone
  <2>1. n'.pc = "first" /\ n'.todo = n.todo /\ n'.flags = n.flags
    BY <1>1, <1>9 DEF DaysDone, Run
  <2>2. n.pc = "days" /\ mails' = mails /\ raised' = raised /\ faults' = faults
    BY <1>9 DEF DaysDone, Running, history
  <2>3. \A d \in Clouds, f \in Flags : MaySend(d, f)' => MaySend(d, f)
    BY <2>1, <2>2 DEF MaySend, InFirst, InSecond
  <2> QED
    BY <1>1, <2>2, <2>3, QuietRun
<1>10. CASE Send
  <2>1. /\ n.pc = "send" /\ n'.pc = "mark" /\ n'.at = n.at /\ n'.notice = n.notice /\ n'.todo = n.todo
        /\ n'.flags = n.flags /\ n'.days = n.days /\ n'.then = n.then
        /\ raised' = raised /\ faults' = faults
        /\ mails' = [mails EXCEPT ![n.at][n.notice] = @ + 1]
    BY <1>1, <1>10 DEF Send, Running, Run
  <2>2. n.at \in Clouds /\ n.notice \in Flags /\ MaySend(n.at, n.notice)
    BY <1>1, <2>1 DEF RunOK, MaySend
  <2>3. ~MaySend(n.at, n.notice)'
    BY <1>1, <1>4, <2>1 DEF RunOK, MaySend, InFirst, InSecond
  <2>4. \A d \in Clouds, f \in Flags : MaySend(d, f)' => MaySend(d, f)
    BY <2>1 DEF MaySend, InFirst, InSecond
  <2>5. \A d \in Clouds, f \in Flags :
          mails'[d][f] = IF d = n.at /\ f = n.notice THEN mails[d][f] + 1 ELSE mails[d][f]
    BY <1>1, <2>1, <2>2 DEF TypeOK
  <2> SUFFICES ASSUME NEW d \in Clouds, NEW f \in Flags
               PROVE  /\ mails'[d][f] <= faults' + 1
                      /\ f \notin raised'[d] /\ ~(n'.pc = "mark" /\ n'.at = d /\ n'.notice = f)
                           => mails'[d][f] <= faults'
                      /\ MaySend(d, f)' => mails'[d][f] <= faults'
    BY DEF MailsOK
  <2>6. CASE d = n.at /\ f = n.notice
    BY <1>1, <1>2, <2>1, <2>2, <2>3, <2>5, <2>6
  <2>7. CASE ~(d = n.at /\ f = n.notice)
    BY <1>2, <2>1, <2>4, <2>5, <2>7
  <2> QED
    BY <2>6, <2>7
<1>11. CASE Mark
  <2>1. /\ n.pc = "mark" /\ n.at \in Clouds /\ n.notice \in Flags
        /\ n.then \in {"first", "days", "later", "second"}
        /\ mails' = mails /\ faults' = faults
        /\ raised' = [raised EXCEPT ![n.at] = @ \union {n.notice}]
    BY <1>1, <1>11 DEF Mark, Running, history, RunOK
  <2>2. \/ n'.pc = "second"
        \/ /\ n.then # "second" /\ n'.pc = n.then /\ n'.at = n.at
           /\ n'.todo = n.todo /\ n'.flags = n.flags /\ n'.days = n.days
    <3>1. CASE n.then = "second"
      BY <1>11, <3>1 DEF Mark, Marked, Afresh, Idle
    <3>2. CASE n.then # "second"
      BY <1>1, <1>11, <3>2 DEF Mark, Marked, Run
    <3> QED
      BY <3>1, <3>2
  <2>3. \A d \in Clouds, f \in Flags : MaySend(d, f)' => MaySend(d, f)
    BY <2>1, <2>2 DEF MaySend, InFirst, InSecond
  <2>4. \A d \in Clouds, f \in Flags :
          f \notin raised'[d] => f \notin raised[d] /\ ~(n.at = d /\ n.notice = f)
    BY <1>1, <2>1 DEF TypeOK
  <2> QED
    BY <1>2, <2>1, <2>3, <2>4 DEF MailsOK
<1>12. CASE SecondStart \/ LaterDone \/ NEnd
  <2>1. n'.pc \in {"second", "idle"}
    <3>1. n' = Idle \/ \E todo : n' = [Idle EXCEPT !.pc = "second", !.todo = todo]
      BY <1>12 DEF SecondStart, LaterDone, NEnd, Afresh
    <3>2. \A todo : [Idle EXCEPT !.pc = "second", !.todo = todo].pc = "second"
      BY DEF Idle
    <3>3. Idle.pc = "idle"
      BY DEF Idle
    <3> QED
      BY <3>1, <3>2, <3>3
  <2>2. n.pc # "mark" /\ mails' = mails /\ raised' = raised /\ faults' = faults
    BY <1>12 DEF SecondStart, LaterDone, NEnd, Running, history
  <2>3. \A d \in Clouds, f \in Flags : ~MaySend(d, f)'
    BY <2>1 DEF MaySend, InFirst, InSecond
  <2> QED
    BY <1>1, <2>2, <2>3, QuietRun
<1>13. CASE SecondLoop
  <2>1. PICK c \in n.todo : \E days \in {{}, Notices} :
          /\ days # {} => pre \notin raised[c]
          /\ \/ Turn(c, "later", None, days, "later", raised[c])
             \/ pre_initial \notin raised[c] /\ Turn(c, "send", pre_initial, days, "later", raised[c])
    BY <1>13 DEF SecondLoop
  <2>2. PICK days \in {{}, Notices} :
          /\ days # {} => pre \notin raised[c]
          /\ \/ Turn(c, "later", None, days, "later", raised[c])
             \/ pre_initial \notin raised[c] /\ Turn(c, "send", pre_initial, days, "later", raised[c])
    BY <2>1
  <2>3. c \in Clouds /\ days \in SUBSET Notices /\ raised[c] \in SUBSET Flags
    BY <1>1, <1>3 DEF TypeOK
  <2>4. "later" \in Labels /\ "send" \in Labels
    BY DEF Labels
  <2>5. /\ n'.at = c /\ n'.days = days /\ n'.then = "later"
        /\ n'.pc = "later" \/ (n'.pc = "send" /\ n'.notice = pre_initial /\ pre_initial \notin raised[c])
    BY <1>1, <1>3, <2>2, <2>3, <2>4, TurnType
  <2>6. n.pc = "second" /\ mails' = mails /\ raised' = raised /\ faults' = faults
    BY <1>13 DEF SecondLoop, Running, history
  <2>7. \A d \in Clouds, f \in Flags : MaySend(d, f)' => f \notin raised[d]
    BY <2>2, <2>5 DEF MaySend, InFirst, InSecond
  <2> QED
    BY <1>1, <2>6, <2>7, QuietRun
<1>14. CASE LookLater
  <2>1. n.days # {} /\ n.pc = "later" /\ mails' = mails /\ raised' = raised /\ faults' = faults
    BY <1>14 DEF LookLater, Running, history
  <2>2. /\ n'.at = n.at
        /\ \/ n'.pc = "send" /\ n'.notice = pre /\ n'.days = {} /\ n'.then = "second"
           \/ n'.pc = "later"
    BY <1>1, <1>14, <2>1 DEF LookLater, Run
  <2>3. \A d \in Clouds, f \in Flags : MaySend(d, f)' => MaySend(d, f)
    BY <2>1, <2>2 DEF MaySend, InFirst, InSecond
  <2> QED
    BY <1>1, <2>1, <2>3, QuietRun
<1> QED
  BY <1>5, <1>6, <1>7, <1>8, <1>9, <1>10, <1>11, <1>12, <1>13, <1>14 DEF Notify

(* Every step keeps the account of the notices.                            *)
LEMMA NextMails == TypeInv /\ MailsOK /\ [Next]_vars => MailsOK'
<1> SUFFICES ASSUME TypeInv, MailsOK, [Next]_vars PROVE MailsOK'
  OBVIOUS
<1>1. \A c \in Clouds, f \in Flags :
        /\ mails[c][f] \in Nat /\ faults \in Nat
        /\ mails[c][f] <= faults + 1
        /\ f \notin raised[c] /\ ~(n.pc = "mark" /\ n.at = c /\ n.notice = f) => mails[c][f] <= faults
        /\ MaySend(c, f) => mails[c][f] <= faults
  BY DEF MailsOK, TypeInv, TypeOK
<1>2. CASE \E k \in Clients : Step(k)
  <2>1. /\ n' = n /\ faults' \in Nat /\ faults <= faults'
        /\ \A c \in Clouds, f \in Flags :
             \/ mails'[c][f] = 0
             \/ mails'[c][f] = mails[c][f] /\ (f \in raised[c] => f \in raised'[c])
    BY <1>2, StepMails
  <2>2. \A c \in Clouds, f \in Flags : MaySend(c, f)' = MaySend(c, f)
    BY <2>1 DEF MaySend, InFirst, InSecond
  <2> QED
    BY <1>1, <2>1, <2>2 DEF MailsOK
<1>3. CASE Notify \/ QueryFails \/ MarkFails \/ Dies
  BY <1>3, NotifyMails
<1>4. CASE UNCHANGED <<n, mails, raised, faults>>
  BY <1>4 DEF MailsOK, MaySend, InFirst, InSecond
<1> QED
  BY <1>2, <1>3, <1>4 DEF Next, Validate, Tick, client, history, vars

(***************************************************************************)
(* However the operators' commands and the notifier's runs interleave, a   *)
(* notice is sent again only at the price of a fault: at most one mail per *)
(* flag and time it was cleared, and one more per failed call or dead run. *)
(***************************************************************************)
THEOREM NoticesOnce == Spec => []RepeatsNeedFaults
<1>1. Init => MailsOK
  <2> SUFFICES ASSUME Init PROVE MailsOK
    OBVIOUS
  <2>1. \A c \in Clouds, f \in Flags : mails[c][f] = 0 /\ faults = 0
    BY DEF Init
  <2> QED
    BY <2>1 DEF MailsOK
<1>2. MailsOK => RepeatsNeedFaults
  BY DEF MailsOK, RepeatsNeedFaults
<1> QED
  BY <1>1, <1>2, InitType, NextType, NextMails, PTL DEF Spec

----------------------------------------------------------------------------
(* The calendar.                                                           *)

(* What was cut to its minute is on it.                                    *)
LEMMA OnMinute ==
  ASSUME NEW a \in Nat
  PROVE  FloorMinute(a) % Minute = 0
<1> DEFINE q == a \div Minute
           t == a % Minute
<1>1. Minute \in Nat /\ Minute > 0
  BY ExpiryAssumption
<1>2. q \in Int /\ t \in Nat /\ a = Minute * q + t
  BY <1>1
<1>3. FloorMinute(a) = a - t
  BY DEF FloorMinute
<1> HIDE DEF q, t
<1>4. FloorMinute(a) = Minute * q
  BY <1>1, <1>2, <1>3
<1> QED
  BY <1>2, <1>4, Multiple

(* An interval that a row does not block shares no instant with it.        *)
LEMMA FreeDisjoint ==
  ASSUME NEW row, row.start \in Nat, row.end \in Nat, row.start < row.end,
         NEW a \in Nat, NEW b \in Nat, a < b, Available({row}, a, b)
  PROVE  Disjoint(row, a, b)
BY DEF Available, Blocks, Disjoint

(* What the server answers about a host it answers about each of its rows. *)
LEMMA AvailableEach ==
  ASSUME NEW S, NEW a, NEW b
  PROVE  Available(S, a, b) <=> \A row \in S : Available({row}, a, b)
BY DEF Available

(***************************************************************************)
(* An extension that was found possible starts on the minute: else the     *)
(* schedule itself would have been in its way.                             *)
(***************************************************************************)
LEMMA SelfFree ==
  ASSUME NEW cmd \in Commands, NEW s \in Listed, FloorMinute(s.start) + Minute <= s.end,
         Free(s, s, cmd), s.end <= Later(cmd, s)
  PROVE  FloorMinute(s.end) = s.end /\ s.end <= FloorMinute(Later(cmd, s))
<1> DEFINE a == FloorMinute(s.end)
           b == FloorMinute(Later(cmd, s))
<1>1. s.start \in Nat /\ s.end \in Nat /\ Later(cmd, s) \in Nat /\ a \in Nat /\ b \in Nat
  BY LaterType, FlooredNat DEF Listed
<1>2. Minute \in Nat /\ Minute > 0
  BY ExpiryAssumption
<1>3. a <= s.end /\ a <= b
  BY <1>1, Floored, MinuteGap
<1>4. s.start <= a
  <2> SUFFICES ASSUME a < s.start PROVE FALSE
    BY <1>1
  <2>1. FloorMinute(a) <= FloorMinute(s.start)
    BY <1>1, MinuteGap
  <2>2. FloorMinute(a) = a
    BY <1>1, OnMinute DEF FloorMinute
  <2>3. s.end < a + Minute
    BY <1>1, Floored
  <2>4. FloorMinute(s.start) \in Nat
    BY <1>1, FlooredNat
  <2> QED
    BY <1>1, <1>2, <2>1, <2>2, <2>3, <2>4
<1>5. Available({s}, a, b)
  BY DEF Free
<1> HIDE DEF a, b
<1>6. a = s.end
  BY <1>1, <1>3, <1>4, <1>5 DEF Available, Blocks
<1> QED
  BY <1>3, <1>6 DEF a, b

(* The ends that --extend and --shrink write.                              *)
LEMMA NewEndOK ==
  ASSUME TypeOK, NEW k \in Clients, my[k].cmd \in Commands, NEW s \in my[k].all,
         my[k].cmd.kind \in {"extend", "shrink"}
  PROVE  NewEnd(k, s) \in Nat /\ NewEnd(k, s) % Minute = 0 /\ s \in Listed
<1>1. s \in Listed
  BY DEF TypeOK, Local
<1>2. CASE my[k].cmd.kind = "extend"
  BY <1>1, <1>2, LaterType, OnMinute DEF NewEnd
<1>3. CASE my[k].cmd.kind = "shrink"
  <2>1. (IF Earlier(k, s) >= s.start + Minute THEN Earlier(k, s) ELSE s.start + Minute) \in Nat
    BY <1>1, EarlierType, ExpiryAssumption DEF Listed
  <2> QED
    BY <1>1, <1>3, <2>1, EarlierType, OnMinute DEF NewEnd
<1> QED
  BY <1>2, <1>3

(* A schedule keeps its host, and its number is not given again.           *)
LEMMA HostsKept ==
  ASSUME TypeInv, NEW k \in Clients, Step(k)
  PROVE  /\ nextId <= nextId'
         /\ \A id \in DOMAIN rows' :
              id < nextId => id \in DOMAIN rows /\ rows'[id].host = rows[id].host
<1>1. TypeOK /\ CmdOK /\ nextId \in Nat /\ rows \in [DOMAIN rows -> Row]
  BY DEF TypeInv, TypeOK
<1>2. ASSUME NEW id \in DOMAIN rows, NEW start, NEW end, Move(id, start, end)
      PROVE  DOMAIN rows' = DOMAIN rows /\ \A i \in DOMAIN rows : rows'[i].host = rows[i].host
  <2>1. \A i \in DOMAIN rows : rows[i] \in Row
    BY <1>1
  <2> QED
    BY <1>2, <2>1 DEF Move, Row
<1>3. CASE UNCHANGED <<rows, nextId>>
  BY <1>1, <1>3
<1>4. CASE Extend(k) \/ Shrink(k)
  <2>1. my[k].cmd \in Commands
    BY <1>1, <1>4 DEF Extend, Shrink, PatchEnd, Busy, CmdOK
  <2>2. \/ UNCHANGED <<rows, nextId>>
        \/ nextId' = nextId /\ \E id \in DOMAIN rows : \E start, end : Move(id, start, end)
    BY <1>1, <1>4, <2>1, PatchStep, Zenon
  <2> QED
    BY <1>1, <1>2, <1>3, <2>2
<1>5. CASE Modify(k)
  <2>1. \/ UNCHANGED <<rows, nextId>>
        \/ nextId' = nextId /\ \E id \in DOMAIN rows : \E start, end : Move(id, start, end)
    BY <1>5, Zenon DEF Modify
  <2> QED
    BY <1>1, <1>2, <1>3, <2>1
<1>6. CASE Remove(k)
  BY <1>1, <1>6 DEF Remove
<1>7. CASE Book(k)
  BY <1>1, <1>7 DEF Book, TypeOK
<1>8. CASE \/ \E cmd \in Commands : Type(k, cmd)
           \/ ListCurrent(k) \/ ListFuture(k) \/ Check(k) \/ Reset(k) \/ Judge(k) \/ ModifyReset(k)
           \/ Sift(k) \/ Ask(k) \/ BookReset(k) \/ Ticket(k) \/ SetFlags(k) \/ CallFails(k)
  <2>1. UNCHANGED <<rows, nextId>>
    BY <1>8, Zenon DEF Type, ListCurrent, ListTo, ListFuture, Check, Reset, Judge, ModifyReset, Sift,
                Ask, BookReset, Ticket, SetFlags, CallFails
  <2> QED
    BY <1>3, <2>1, Zenon
<1> QED
  BY <1>4, <1>5, <1>6, <1>7, <1>8 DEF Step

(* What a command knows survives the steps of others: of the host they     *)
(* wrote it knows that it knows nothing.                                   *)
LEMMA KnownKept ==
  ASSUME TypeOK, NEW j \in Clients, KnownOK(j), NEW h \in Hosts,
         pc'[j] = pc[j],
         \/ rows' = rows /\ my'[j] = my[j]
         \/ Elsewhere(h) /\ my'[j] = IF pc[j] \in Busy THEN [my[j] EXCEPT !.touched = @ \union {h}] ELSE my[j],
         nextId <= nextId', nextId' \in Nat,
         \A id \in DOMAIN rows' : id < nextId => id \in DOMAIN rows /\ rows'[id].host = rows[id].host
  PROVE  KnownOK(j)'
<1>1. my[j] \in Local /\ nextId \in Nat /\ my[j].all \subseteq Listed /\ my[j].left \subseteq Listed
  BY DEF TypeOK, Local
<1>2. /\ my'[j].cmd = my[j].cmd /\ my'[j].all = my[j].all /\ my'[j].left = my[j].left
      /\ my'[j].bad = my[j].bad /\ my'[j].began = my[j].began
      /\ my[j].touched \subseteq my'[j].touched
      /\ rows' = rows \/ pc[j] \notin Busy \/ h \in my'[j].touched
  BY <1>1 DEF Local
<1>3. \A s : Earlier(j, s)' = Earlier(j, s) /\ NewEnd(j, s)' = NewEnd(j, s)
  BY <1>2 DEF Earlier, NewEnd, ShrunkEnd
<1>4. /\ Verified(j)' = Verified(j) /\ AskedFor(j)' = AskedFor(j)
      /\ Verified(j) \subseteq my[j].all /\ AskedFor(j) \subseteq my[j].left \union my[j].all
  BY <1>2 DEF Verified, AskedFor
<1>5. ASSUME NEW g \in Hosts, g \notin my'[j].touched, pc[j] \in Busy
      PROVE  /\ g \notin my[j].touched
             /\ \A id : id \in DOMAIN rows' /\ rows'[id].host = g
                          <=> id \in DOMAIN rows /\ rows[id].host = g
             /\ \A id \in DOMAIN rows : rows[id].host = g => rows'[id] = rows[id]
             /\ HostRows(g)' = HostRows(g)
  <2>1. g \notin my[j].touched /\ (rows' = rows \/ (Elsewhere(h) /\ g \in Hosts \ {h}))
    BY <1>2, <1>5
  <2>2. /\ \A id : id \in DOMAIN rows' /\ rows'[id].host = g <=> id \in DOMAIN rows /\ rows[id].host = g
        /\ \A id \in DOMAIN rows : rows[id].host = g => rows'[id] = rows[id]
    <3>1. CASE rows' = rows
      BY <3>1
    <3>2. CASE Elsewhere(h) /\ g \in Hosts \ {h}
      BY <3>2 DEF Elsewhere, RowsOf
    <3> QED
      BY <2>1, <3>1, <3>2
  <2>3. HostRows(g)' = HostRows(g)
    BY <2>2 DEF HostRows
  <2> QED
    BY <2>1, <2>2, <2>3
<1>6. ASSUME pc[j] \in Busy, ListOK(j) PROVE ListOK(j)'
  <2>1. ASSUME NEW s \in my[j].all, s.host \notin my'[j].touched
        PROVE  /\ s.id \in DOMAIN rows' /\ rows'[s.id].start = s.start
               /\ rows'[s.id].end = IF pc[j] = "patch" /\ s \notin my[j].left THEN NewEnd(j, s) ELSE s.end
    <3>1. s.host \in Hosts
      BY <1>1 DEF Listed
    <3>2. s.id \in DOMAIN rows /\ rows[s.id].host = s.host /\ s.host \notin my[j].touched
      BY <1>5, <1>6, <2>1, <3>1 DEF ListOK
    <3>3. s.id \in DOMAIN rows' /\ rows'[s.id] = rows[s.id]
      BY <1>5, <1>6, <2>1, <3>1, <3>2
    <3> QED
      BY <1>6, <3>2, <3>3 DEF ListOK
  <2>2. ASSUME NEW s \in my[j].all
        PROVE  s.id < nextId' /\ (s.id \in DOMAIN rows' => rows'[s.id].host = s.host)
    <3>1. s.id < nextId /\ s.id \in Nat
      BY <1>1, <1>6 DEF ListOK, Listed
    <3> QED
      BY <1>1, <1>6, <3>1 DEF ListOK
  <2> QED
    BY <1>2, <1>3, <1>6, <2>1, <2>2 DEF ListOK
<1>7. ASSUME pc[j] \in Busy, ExtendOK(j) PROVE ExtendOK(j)'
  <2> SUFFICES ASSUME NEW s \in Verified(j)
               PROVE  /\ s.end <= Later(my[j].cmd, s)
                      /\ s.host \notin my'[j].touched =>
                           /\ \A t \in my[j].all : t.host = s.host => Free(t, s, my[j].cmd)
                           /\ \A id \in DOMAIN rows' :
                                rows'[id].host = s.host /\ (\A t \in my[j].all : id # t.id) =>
                                  Free(rows'[id], s, my[j].cmd)
    BY <1>2, <1>4 DEF ExtendOK
  <2>1. s.host \in Hosts
    BY <1>1, <1>4 DEF Listed
  <2> QED
    BY <1>5, <1>7, <2>1 DEF ExtendOK
<1>8. ASSUME pc[j] \in Busy, ListedOK(j) PROVE ListedOK(j)'
  <2>1. ASSUME NEW s \in AskedFor(j), s.host \notin my'[j].touched
        PROVE  s.host \notin my[j].touched /\ HostRows(s.host)' = HostRows(s.host)
    <3>1. s.host \in Hosts
      BY <1>1, <1>4 DEF Listed
    <3> QED
      BY <1>5, <1>8, <2>1, <3>1
  <2> QED
    BY <1>2, <1>4, <1>8, <2>1 DEF ListedOK, NamedOnce
<1> QED
  BY <1>2, <1>3, <1>6, <1>7, <1>8 DEF KnownOK, Busy

(* A command that has ended knows nothing.                                 *)
LEMMA KnownNothing ==
  ASSUME TypeOK, NEW k \in Clients, NEW label \in Final, Quit(k, label)
  PROVE  KnownOK(k)'
<1>1. pc'[k] \in Final
  BY DEF Quit, Goto, TypeOK
<1> QED
  BY <1>1 DEF KnownOK, Busy, Final

(* Steps that write no schedule leave the calendar as it is.               *)
LEMMA CalendarKept ==
  ASSUME TypeOK, RowsOK, OverlapsOnlyUnchecked, rows' = rows, unchecked' = unchecked
  PROVE  RowsOK' /\ OverlapsOnlyUnchecked'
BY DEF RowsOK, OverlapsOnlyUnchecked

(* A schedule as it was just listed.                                       *)
LEMMA JustListed ==
  ASSUME TypeOK, RowsOK, NEW id \in DOMAIN rows
  PROVE  LET s == AsListed(id) IN
           /\ s.id = id /\ rows[id].host = s.host /\ rows[id].start = s.start /\ rows[id].end = s.end
           /\ FloorMinute(s.start) + Minute <= s.end /\ s.id < nextId
BY DEF AsListed, RowsOK, TypeOK

(* What was just listed is known.                                          *)
LEMMA KnownListed ==
  ASSUME TypeOK, RowsOK, NEW k \in Clients, KnownOK(k), NEW ids \in SUBSET DOMAIN rows,
         NEW found, found = {AsListed(id) : id \in ids},
         my[k].cmd.kind \in {"extend", "shrink"},
         my' = [my EXCEPT ![k] = [my[k] EXCEPT !.all = found, !.left = found, !.touched = {}]],
         pc'[k] = NextStep(k), rows' = rows, nextId' = nextId
  PROVE  KnownOK(k)'
<1>1. my[k] \in Local /\ my \in [Clients -> Local]
  BY DEF TypeOK
<1>2. /\ my'[k].cmd = my[k].cmd /\ my'[k].all = found /\ my'[k].left = found /\ my'[k].touched = {}
      /\ my'[k].bad = my[k].bad
  BY <1>1 DEF Local
<1>3. pc'[k] = IF my[k].cmd.kind = "extend" THEN "check" ELSE "judge"
  BY DEF NextStep
<1>4. ListOK(k)'
  <2>1. ASSUME NEW s \in found, NEW t \in found, s.id = t.id PROVE s = t
    BY <2>1, JustListed
  <2>2. ASSUME NEW s \in found
        PROVE  /\ FloorMinute(s.start) + Minute <= s.end /\ s.id < nextId /\ s.id \in DOMAIN rows
               /\ rows[s.id].host = s.host /\ rows[s.id].start = s.start /\ rows[s.id].end = s.end
    BY JustListed
  <2> QED
    BY <1>2, <1>3, <2>1, <2>2 DEF ListOK
<1>5. my[k].cmd.kind = "extend" => ExtendOK(k)'
  <2>1. my[k].cmd.kind = "extend" => Verified(k)' = {}
    BY <1>2, <1>3 DEF Verified
  <2> QED
    BY <2>1 DEF ExtendOK
<1> QED
  BY <1>2, <1>3, <1>4, <1>5 DEF KnownOK

(* The steps of a command before it writes.                                *)
LEMMA KnownRead ==
  ASSUME KnowledgeInv, WholeMinutes, NEW k \in Clients,
         \/ \E cmd \in Commands : Type(k, cmd)
         \/ ListCurrent(k) \/ ListFuture(k) \/ Check(k) \/ Reset(k) \/ Judge(k) \/ Sift(k) \/ Ask(k)
  PROVE  KnownOK(k)'
<1>1. TypeOK /\ CmdOK /\ RowsOK /\ KnownOK(k)
  BY DEF KnowledgeInv, TypeInv
<1>2. my[k] \in Local /\ my \in [Clients -> Local] /\ pc \in [Clients -> {"idle"} \union Busy \union Final]
  BY <1>1 DEF TypeOK
<1>3. CASE \E cmd \in Commands : Type(k, cmd)
  <2>1. PICK cmd \in Commands : Type(k, cmd)
    BY <1>3
  <2>2. /\ pc'[k] = First(cmd)
        /\ my'[k] = [NoLocal EXCEPT !.cmd = cmd, !.began = now, !.all = Wanted(cmd), !.left = Wanted(cmd)]
    BY <1>2, <2>1 DEF Type, Goto
  <2>3. /\ my'[k].cmd = cmd /\ my'[k].all = Wanted(cmd) /\ my'[k].left = Wanted(cmd)
        /\ my'[k].bad = FALSE /\ my'[k].touched = {}
    BY <2>2 DEF NoLocal
  <2>4. cmd \in Command
    BY ExpiryAssumption
  <2>5. CASE cmd.kind # "book"
    <3>1. /\ pc'[k] \in {"list", "patch"} /\ cmd.kind \in Kinds
          /\ pc'[k] = "list" <=> cmd.kind \in {"extend", "shrink"}
      BY <2>2, <2>4, <2>5 DEF First, Command, Kinds
    <3> QED
      BY <2>3, <2>5, <3>1 DEF KnownOK
  <2>6. CASE cmd.kind = "book"
    <3>1. pc'[k] \in {"sift", "ask", "send"} /\ (pc'[k] = "send" => cmd.list = <<>>)
      BY <2>2, <2>4, <2>6 DEF First, Command
    <3>2. \A s \in Wanted(cmd) : s.host \in Hosts /\ s = Wish(cmd, s.id, s.host)
      <4>1. cmd.list \in Seq(Hosts) /\ (cmd.list = <<>> => cmd.host \in Hosts)
        BY <2>4, <2>6, ExpiryAssumption DEF Command
      <4>2. \A i \in DOMAIN cmd.list : cmd.list[i] \in Hosts
        BY <4>1
      <4> QED
        BY <2>6, <4>1, <4>2 DEF Wanted, Wish
    <3>3. pc'[k] = "ask" => AskedFor(k)' = {}
      BY <2>3 DEF AskedFor
    <3>4. ListedOK(k)'
      BY <2>3, <3>1, <3>2, <3>3 DEF ListedOK
    <3> QED
      BY <2>3, <2>6, <3>1, <3>4 DEF KnownOK
  <2> QED
    BY <2>5, <2>6
<1>4. CASE ListCurrent(k)
  <2> DEFINE ids == Selected(my[k].cmd, At(now))
             shown == {i \in ids : rows[i].host \notin Out}
  <2>1. /\ my' = [my EXCEPT ![k] = [my[k] EXCEPT !.all = Shown(ids), !.left = Shown(ids), !.touched = {}]]
        /\ pc'[k] = (IF Shown(ids) = {} THEN "future" ELSE NextStep(k))
        /\ rows' = rows /\ nextId' = nextId /\ my[k].cmd.kind \in {"extend", "shrink"}
    BY <1>1, <1>2, <1>4 DEF ListCurrent, ListTo, Goto, KnownOK
  <2>2. my'[k].cmd = my[k].cmd
    BY <1>2, <2>1 DEF Local
  <2>3. shown \in SUBSET DOMAIN rows /\ Shown(ids) = {AsListed(id) : id \in shown}
    BY <1>1, ListedRows DEF Shown
  <2>4. CASE pc'[k] = "future"
    BY <2>1, <2>2, <2>4, Zenon DEF KnownOK
  <2>5. CASE pc'[k] = NextStep(k)
    BY <1>1, <2>1, <2>3, <2>5, KnownListed
  <2> QED
    BY <2>1, <2>4, <2>5
<1>5. CASE ListFuture(k)
  <2> DEFINE ids == Selected(my[k].cmd, {id \in DOMAIN rows : now <= rows[id].start})
             listed == {AsListed(id) : id \in ids}
  <2>1. ids \in SUBSET DOMAIN rows
    BY Zenon DEF Selected
  <2>2. rows' = rows /\ nextId' = nextId /\ my[k].cmd.kind \in {"extend", "shrink"}
    BY <1>1, <1>5, Zenon DEF ListFuture, KnownOK
  <2>3. \/ \E label \in Final : Quit(k, label)
        \/ /\ my' = [my EXCEPT ![k] = [my[k] EXCEPT !.all = listed, !.left = listed, !.touched = {}]]
           /\ pc'[k] = NextStep(k)
    BY <1>2, <1>5 DEF ListFuture, Goto, Final
  <2>4. CASE \E label \in Final : Quit(k, label)
    BY <1>1, <2>4, KnownNothing
  <2>5. CASE ~\E label \in Final : Quit(k, label)
    <3> HIDE DEF ids
    <3> QED
      BY <1>1, <2>1, <2>2, <2>3, <2>5, KnownListed
  <2> QED
    BY <2>4, <2>5
<1>6. CASE Check(k)
  <2>1. PICK s \in my[k].left :
          \/ /\ my[k].left # {s}
             /\ my' = [my EXCEPT ![k].bad = Verdict(k, s), ![k].left = @ \ {s}]
             /\ UNCHANGED pc
          \/ /\ my[k].left = {s} /\ ~Verdict(k, s)
             /\ my' = [my EXCEPT ![k].left = my[k].all]
             /\ Goto(k, "reset")
          \/ Quit(k, "refused")
    BY <1>6 DEF Check
  <2>2. /\ pc[k] = "check" /\ my[k].cmd.kind = "extend" /\ ListOK(k) /\ ExtendOK(k)
        /\ rows' = rows /\ nextId' = nextId /\ my[k].cmd \in Commands
    BY <1>1, <1>6 DEF Check, KnownOK, Busy, CmdOK
  <2>3. CASE Quit(k, "refused")
    BY <1>1, <2>3, KnownNothing DEF Final
  <2>4. ASSUME ~Verdict(k, s)
        PROVE  /\ ~my[k].bad /\ s.end <= Later(my[k].cmd, s)
               /\ \A id \in DOMAIN rows : rows[id].host = s.host => Free(rows[id], s, my[k].cmd)
               /\ s.host \notin my[k].touched =>
                    \A t \in my[k].all : t.host = s.host => Free(t, s, my[k].cmd)
    <3> DEFINE a == FloorMinute(s.end)
               b == FloorMinute(Later(my[k].cmd, s))
    <3>1. s \in Listed /\ s \in my[k].all
      BY <1>2, <2>2 DEF Local, ListOK
    <3>2. s.end \in Nat /\ Later(my[k].cmd, s) \in Nat
      BY <2>2, <3>1, LaterType DEF Listed
    <3>3. ~my[k].bad /\ IsAvailable(s.host, a, b) /\ s.end <= Later(my[k].cmd, s)
      BY <2>4, <3>2 DEF Verdict
    <3>4. a <= b /\ a \in Nat /\ b \in Nat
      BY <3>2, <3>3, MinuteGap, FlooredNat
    <3> HIDE DEF a, b
    <3>5. Available(HostRows(s.host), a, b)
      BY <3>3, <3>4 DEF IsAvailable
    <3>6. \A id \in DOMAIN rows : rows[id].host = s.host => Available({rows[id]}, a, b)
      <4>1. \A row \in HostRows(s.host) : Available({row}, a, b)
        BY <3>5, AvailableEach, Zenon
      <4>2. \A id \in DOMAIN rows : rows[id].host = s.host => rows[id] \in HostRows(s.host)
        BY DEF HostRows
      <4> QED
        BY <4>1, <4>2
    <3>7. ASSUME s.host \notin my[k].touched, NEW t \in my[k].all, t.host = s.host
          PROVE  Available({t}, a, b)
      <4>1. t.id \in DOMAIN rows /\ rows[t.id].host = s.host /\ rows[t.id].start = t.start /\ rows[t.id].end = t.end
        BY <2>2, <3>7 DEF ListOK
      <4>2. Available({rows[t.id]}, a, b)
        BY <3>6, <4>1
      <4> QED
        BY <4>1, <4>2 DEF Available, Blocks
    <3> QED
      BY <3>3, <3>6, <3>7 DEF Free, a, b
  <2>5. CASE /\ my[k].left # {s}
             /\ my' = [my EXCEPT ![k].bad = Verdict(k, s), ![k].left = @ \ {s}]
             /\ UNCHANGED pc
    <3>1. /\ my'[k].cmd = my[k].cmd /\ my'[k].all = my[k].all /\ my'[k].left = my[k].left \ {s}
          /\ my'[k].bad = Verdict(k, s) /\ my'[k].touched = my[k].touched
      BY <1>2, <2>5 DEF Local
    <3>2. ListOK(k)'
      BY <2>2, <2>5, <3>1 DEF ListOK
    <3>3. \A t \in Verified(k)' : ~Verdict(k, s) /\ (t = s \/ t \in Verified(k))
      BY <2>2, <2>4, <2>5, <3>1 DEF Verified
    <3>4. ExtendOK(k)'
      <4> SUFFICES ASSUME NEW t \in Verified(k)'
                   PROVE  /\ t.end <= Later(my[k].cmd, t)
                          /\ t.host \notin my[k].touched =>
                               /\ \A u \in my[k].all : u.host = t.host => Free(u, t, my[k].cmd)
                               /\ \A id \in DOMAIN rows :
                                    rows[id].host = t.host /\ (\A u \in my[k].all : id # u.id) =>
                                      Free(rows[id], t, my[k].cmd)
        BY <2>2, <3>1 DEF ExtendOK
      <4>1. CASE t = s
        BY <2>4, <3>3, <4>1
      <4>2. CASE t \in Verified(k)
        BY <2>2, <4>2 DEF ExtendOK
      <4> QED
        BY <3>3, <4>1, <4>2
    <3> QED
      BY <2>2, <2>5, <3>1, <3>2, <3>4 DEF KnownOK
  <2>6. CASE /\ my[k].left = {s} /\ ~Verdict(k, s)
             /\ my' = [my EXCEPT ![k].left = my[k].all]
             /\ Goto(k, "reset")
    <3>1. /\ my'[k].cmd = my[k].cmd /\ my'[k].all = my[k].all /\ my'[k].left = my[k].all
          /\ my'[k].touched = my[k].touched /\ pc'[k] = "reset"
      BY <1>2, <2>6 DEF Local, Goto
    <3>2. ListOK(k)'
      BY <2>2, <2>6, <3>1 DEF ListOK
    <3>3. \A t \in my[k].all : t = s \/ t \in Verified(k)
      BY <2>2, <2>4, <2>6, <3>1 DEF Verified
    <3>4. ExtendOK(k)'
      <4> SUFFICES ASSUME NEW t \in my[k].all
                   PROVE  /\ t.end <= Later(my[k].cmd, t)
                          /\ t.host \notin my[k].touched =>
                               /\ \A u \in my[k].all : u.host = t.host => Free(u, t, my[k].cmd)
                               /\ \A id \in DOMAIN rows :
                                    rows[id].host = t.host /\ (\A u \in my[k].all : id # u.id) =>
                                      Free(rows[id], t, my[k].cmd)
        BY <2>2, <3>1 DEF ExtendOK, Verified
      <4>1. CASE t = s
        BY <2>4, <2>6, <4>1
      <4>2. CASE t \in Verified(k)
        BY <2>2, <4>2 DEF ExtendOK
      <4> QED
        BY <3>3, <4>1, <4>2
    <3> QED
      BY <2>2, <3>1, <3>2, <3>4 DEF KnownOK
  <2> QED
    BY <2>1, <2>3, <2>5, <2>6
<1>7. CASE Reset(k)
  <2>1. /\ pc[k] = "reset" /\ pc'[k] = "patch" /\ my' = my /\ rows' = rows /\ nextId' = nextId
        /\ my[k].cmd.kind = "extend" /\ ListOK(k) /\ ExtendOK(k) /\ my[k].left = my[k].all
    BY <1>1, <1>2, <1>7 DEF Reset, Goto, KnownOK, Busy
  <2>2. ListOK(k)' /\ ExtendOK(k)'
    BY <2>1 DEF ListOK, ExtendOK, Verified
  <2> QED
    BY <2>1, <2>2 DEF KnownOK
<1>8. CASE Judge(k)
  <2>1. /\ pc[k] = "judge" /\ rows' = rows /\ nextId' = nextId
        /\ my[k].cmd.kind = "shrink" /\ ListOK(k) /\ my[k].left = my[k].all
    BY <1>1, <1>8 DEF Judge, KnownOK, Busy
  <2>2. CASE Quit(k, "refused")
    BY <1>1, <2>2, KnownNothing DEF Final
  <2>3. CASE (\A s \in my[k].all : Shrinkable(k, s)) /\ Goto(k, "patch") /\ UNCHANGED my
    <3>1. ListOK(k)' /\ pc'[k] = "patch"
      BY <1>2, <2>1, <2>3 DEF ListOK, Goto
    <3>2. \A s \in my[k].all : s.start <= Earlier(k, s)' /\ Earlier(k, s)' <= s.end
      BY <2>3 DEF Shrinkable, Earlier
    <3> QED
      BY <2>1, <2>3, <3>1, <3>2 DEF KnownOK
  <2> QED
    BY <1>8, <2>2, <2>3 DEF Judge
<1>9. CASE Sift(k)
  <2>1. /\ pc[k] = "sift" /\ rows' = rows /\ nextId' = nextId /\ my[k].cmd.kind = "book" /\ ListedOK(k)
    BY <1>1, <1>9 DEF Sift, KnownOK
  <2>2. CASE Quit(k, "done")
    BY <1>1, <2>2, KnownNothing DEF Final
  <2>3. ASSUME NEW s \in my[k].left, NEW all \in {my[k].all, my[k].all \ {s}},
               \/ my' = [my EXCEPT ![k].all = all, ![k].left = @ \ {s}] /\ UNCHANGED pc
               \/ /\ my' = [my EXCEPT ![k].all = all, ![k].left = all]
                  /\ Goto(k, IF all = {} THEN "ticket" ELSE "ask")
        PROVE  KnownOK(k)'
    <3>1. /\ my'[k].cmd = my[k].cmd /\ my'[k].all = all
          /\ \/ my'[k].left = my[k].left \ {s} /\ pc'[k] = "sift"
             \/ my'[k].left = all /\ pc'[k] \in {"ticket", "ask"}
      BY <1>2, <2>1, <2>3 DEF Local, Goto
    <3>2. my'[k].left \subseteq all /\ all \subseteq my[k].all
      BY <2>1, <3>1 DEF ListedOK
    <3>3. pc'[k] = "ask" => AskedFor(k)' = {}
      BY <3>1 DEF AskedFor
    <3>4. pc'[k] \in {"sift", "ask"} => ListedOK(k)'
      BY <2>1, <3>1, <3>2, <3>3 DEF ListedOK
    <3> QED
      BY <2>1, <3>1, <3>4 DEF KnownOK
  <2>4. \/ Quit(k, "done")
        \/ \E s \in my[k].left : \E all \in {my[k].all, my[k].all \ {s}} :
             \/ my' = [my EXCEPT ![k].all = all, ![k].left = @ \ {s}] /\ UNCHANGED pc
             \/ /\ my' = [my EXCEPT ![k].all = all, ![k].left = all]
                /\ Goto(k, IF all = {} THEN "ticket" ELSE "ask")
    BY <1>9 DEF Sift
  <2> QED
    BY <2>2, <2>3, <2>4
<1>10. CASE Ask(k)
  <2>1. /\ pc[k] = "ask" /\ rows' = rows /\ nextId' = nextId /\ my[k].cmd.kind = "book" /\ ListedOK(k)
        /\ my[k].cmd \in Commands
    BY <1>1, <1>10 DEF Ask, KnownOK, CmdOK, Busy
  <2>2. PICK s \in my[k].left :
          \/ /\ my' = [my EXCEPT ![k].bad = @ \/ ~IsAvailable(s.host, s.start, s.end), ![k].left = @ \ {s}]
             /\ UNCHANGED pc
          \/ /\ my[k].left = {s} /\ ~my[k].bad /\ IsAvailable(s.host, s.start, s.end)
             /\ my' = [my EXCEPT ![k].left = my[k].all] /\ Goto(k, "send")
          \/ Quit(k, "refused")
    BY <1>10 DEF Ask
  <2>3. CASE Quit(k, "refused")
    BY <1>1, <2>3, KnownNothing DEF Final
  <2>4. my[k].cmd.start < my[k].cmd.end /\ IsAvailable(s.host, s.start, s.end) =>
          s.host \notin Out /\ Available(HostRows(s.host), s.start, s.end)
    <3>1. s.start = my[k].cmd.start /\ s.end = my[k].cmd.end
      BY <2>1 DEF ListedOK, Wish
    <3>2. s.start \in Nat /\ s.end \in Nat
      BY <2>1, <3>1, ExpiryAssumption DEF Command
    <3> QED
      BY <3>1, <3>2 DEF IsAvailable
  <2>5. CASE /\ my' = [my EXCEPT ![k].bad = @ \/ ~IsAvailable(s.host, s.start, s.end), ![k].left = @ \ {s}]
             /\ UNCHANGED pc
    <3>1. /\ my'[k].cmd = my[k].cmd /\ my'[k].all = my[k].all /\ my'[k].left = my[k].left \ {s}
          /\ my'[k].bad = (my[k].bad \/ ~IsAvailable(s.host, s.start, s.end))
          /\ my'[k].touched = my[k].touched
      BY <1>2, <2>5 DEF Local
    <3>2. \A t \in AskedFor(k)' : (t = s /\ IsAvailable(s.host, s.start, s.end)) \/ t \in AskedFor(k)
      BY <2>1, <2>5, <3>1 DEF AskedFor
    <3>3. HostRows(s.host)' = HostRows(s.host) /\ \A h : HostRows(h)' = HostRows(h)
      BY <2>1 DEF HostRows
    <3>4. ASSUME NEW t \in AskedFor(k)', my[k].cmd.list # <<>>, my[k].cmd.start < my[k].cmd.end,
                 t.host \notin my[k].touched, NamedOnce(k, t)
          PROVE  t.host \notin Out /\ Available(HostRows(t.host)', t.start, t.end)
      BY <2>1, <2>4, <3>2, <3>3, <3>4 DEF ListedOK
    <3>5. ListedOK(k)'
      BY <2>1, <2>5, <3>1, <3>4 DEF ListedOK, NamedOnce
    <3> QED
      BY <2>1, <2>5, <3>1, <3>5 DEF KnownOK
  <2>6. CASE /\ my[k].left = {s} /\ ~my[k].bad /\ IsAvailable(s.host, s.start, s.end)
             /\ my' = [my EXCEPT ![k].left = my[k].all] /\ Goto(k, "send")
    <3>1. /\ my'[k].cmd = my[k].cmd /\ my'[k].all = my[k].all /\ my'[k].left = my[k].all
          /\ my'[k].touched = my[k].touched /\ pc'[k] = "send"
      BY <1>2, <2>6 DEF Local, Goto
    <3>2. AskedFor(k)' = my[k].all /\ \A t \in my[k].all : t = s \/ t \in AskedFor(k)
      BY <2>1, <2>6, <3>1 DEF AskedFor
    <3>3. \A h : HostRows(h)' = HostRows(h)
      BY <2>1 DEF HostRows
    <3>4. ASSUME NEW t \in my[k].all, my[k].cmd.list # <<>>, my[k].cmd.start < my[k].cmd.end,
                 t.host \notin my[k].touched, NamedOnce(k, t)
          PROVE  t.host \notin Out /\ Available(HostRows(t.host)', t.start, t.end)
      BY <2>1, <2>4, <2>6, <3>2, <3>3, <3>4 DEF ListedOK
    <3>5. ListedOK(k)'
      BY <2>1, <3>1, <3>2, <3>4 DEF ListedOK, NamedOnce
    <3> QED
      BY <2>1, <3>1, <3>5 DEF KnownOK
  <2> QED
    BY <2>2, <2>3, <2>5, <2>6
<1> QED
  BY <1>3, <1>4, <1>5, <1>6, <1>7, <1>8, <1>9, <1>10

(***************************************************************************)
(* A schedule that reaches the minute after its start keeps that minute:   *)
(* one minute after its start, cut to the minute, is not past its end.     *)
(***************************************************************************)
LEMMA MinuteLater ==
  ASSUME NEW a \in Nat, NEW b \in Nat, FloorMinute(a) + Minute <= b
  PROVE  FloorMinute(a + Minute) <= b
<1> DEFINE c == FloorMinute(a + Minute)
           p == c \div Minute
           q == a \div Minute
           r == a % Minute
<1>1. Minute \in Nat /\ Minute > 0
  BY ExpiryAssumption
<1>2. c \in Nat /\ c % Minute = 0 /\ c <= a + Minute
  <2>1. a + Minute \in Nat /\ a + Minute \in Int
    BY <1>1
  <2> QED
    BY <2>1, FlooredNat, OnMinute, Floored
<1> HIDE DEF c
<1>3. p \in Int /\ q \in Int /\ r \in Nat /\ r < Minute
  BY <1>1, <1>2
<1>4. a = Minute * q + r
  BY <1>1
<1>5. c = Minute * p
  BY <1>1, <1>2
<1>6. FloorMinute(a) = a - r
  BY DEF FloorMinute
<1> HIDE DEF p, q, r
<1>7. p <= q + 1
  <2> SUFFICES ASSUME q + 2 <= p PROVE FALSE
    BY <1>3
  <2>1. Minute * (q + 2) <= Minute * p
    BY <1>1, <1>3
  <2>2. Minute * (q + 2) = Minute * q + Minute + Minute
    BY <1>1, <1>3
  <2> QED
    BY <1>1, <1>2, <1>3, <1>4, <1>5, <2>1, <2>2
<1>8. Minute * p <= Minute * (q + 1)
  BY <1>1, <1>3, <1>7
<1>9. Minute * (q + 1) = Minute * q + Minute
  BY <1>1, <1>3
<1>10. c <= b
  BY <1>1, <1>2, <1>3, <1>4, <1>5, <1>6, <1>8, <1>9
<1> QED
  BY <1>10 DEF c

(* A moved schedule has its new ends, and is on its host as before.        *)
LEMMA MoveRows ==
  ASSUME TypeOK, NEW id \in DOMAIN rows, NEW start \in Nat, NEW end \in Nat, Move(id, start, end)
  PROVE  /\ DOMAIN rows' = DOMAIN rows
         /\ rows'[id].start = start /\ rows'[id].end = end /\ rows'[id].host = rows[id].host
         /\ \A i \in DOMAIN rows \ {id} : rows'[i] = rows[i]
<1>1. rows[id] \in Row
  BY DEF TypeOK
<1>2. /\ DOMAIN rows' = DOMAIN rows /\ \A i \in DOMAIN rows \ {id} : rows'[i] = rows[i]
      /\ rows'[id] = [rows[id] EXCEPT !.start = start, !.end = end]
  BY MoveType
<1>3. /\ rows'[id].start = start /\ rows'[id].end = end /\ rows'[id].host = rows[id].host
  BY <1>1, <1>2 DEF Row
<1> QED
  BY <1>2, <1>3

(* A row that begins after a free interval and is not in its way ends it.  *)
LEMMA AfterFree ==
  ASSUME NEW u, u.start \in Nat, u.end \in Nat, u.start < u.end,
         NEW a \in Nat, NEW b \in Nat, a < b, a <= u.start, Available({u}, a, b)
  PROVE  b <= u.start
<1>1. Disjoint(u, a, b)
  BY FreeDisjoint
<1> QED
  BY <1>1 DEF Disjoint

(* What --extend and --shrink are about to write to a host nobody else has *)
(* written to: an end after the start, on the side that was asked for.     *)
LEMMA NewEndMoves ==
  ASSUME TypeOK, CmdOK, NEW k \in Clients, KnownOK(k), pc[k] = "patch",
         my[k].cmd.kind \in {"extend", "shrink"},
         NEW s \in my[k].all, s.host \notin my[k].touched
  PROVE  /\ s.start < NewEnd(k, s) /\ s.start \in Nat /\ s.end \in Nat /\ NewEnd(k, s) \in Nat
         /\ my[k].cmd.kind = "extend" => s.end <= NewEnd(k, s)
         /\ my[k].cmd.kind = "shrink" => NewEnd(k, s) <= s.end
<1>1. ListOK(k) /\ my[k].cmd \in Commands
  BY DEF KnownOK, Busy, CmdOK
<1>2. /\ s \in Listed /\ s.start \in Nat /\ s.end \in Nat /\ FloorMinute(s.start) + Minute <= s.end
      /\ NewEnd(k, s) \in Nat /\ Minute \in Nat /\ Minute > 0
  BY <1>1, NewEndOK, ExpiryAssumption DEF ListOK, Listed
<1>3. s.start < s.end
  BY <1>2, Floored
<1>4. CASE my[k].cmd.kind = "extend"
  <2>1. Free(s, s, my[k].cmd) /\ s.end <= Later(my[k].cmd, s)
    BY <1>4 DEF KnownOK, ExtendOK, Verified
  <2>2. s.end <= NewEnd(k, s)
    BY <1>1, <1>2, <1>4, <2>1, SelfFree DEF NewEnd
  <2> QED
    BY <1>2, <1>3, <1>4, <2>2
<1>5. CASE my[k].cmd.kind = "shrink"
  <2>1. s.start <= Earlier(k, s) /\ Earlier(k, s) <= s.end /\ Earlier(k, s) \in Int
    BY <1>1, <1>2, <1>5, EarlierType DEF KnownOK
  <2> DEFINE e == IF Earlier(k, s) >= s.start + Minute THEN Earlier(k, s) ELSE s.start + Minute
  <2>2. NewEnd(k, s) = FloorMinute(e) /\ e \in Nat
    BY <1>1, <1>2, <1>5, <2>1, EarlierType DEF NewEnd
  <2>3. s.start < NewEnd(k, s)
    <3>1. s.start + Minute <= e
      BY <1>2, <2>1
    <3> HIDE DEF e
    <3>2. e < FloorMinute(e) + Minute
      BY <2>2, Floored
    <3> QED
      BY <1>2, <2>2, <3>1, <3>2
  <2>4. CASE Earlier(k, s) >= s.start + Minute
    BY <1>2, <1>5, <2>1, <2>2, <2>3, <2>4, Floored
  <2>5. CASE ~(Earlier(k, s) >= s.start + Minute)
    <3>1. NewEnd(k, s) = FloorMinute(s.start + Minute)
      BY <2>2, <2>5
    <3>2. FloorMinute(s.start + Minute) <= s.end
      <4>1. CASE s.start + Minute <= s.end
        BY <1>2, <4>1, Floored
      <4>2. CASE s.end < s.start + Minute
        BY <1>2, <4>2, MinuteLater
      <4> QED
        BY <1>2, <4>1, <4>2
    <3> QED
      BY <1>2, <1>5, <2>3, <3>1, <3>2
  <2> QED
    BY <2>4, <2>5
<1> QED
  BY <1>4, <1>5

(***************************************************************************)
(* The PATCH of --extend or --shrink.  A schedule nobody else has written  *)
(* is as it was listed; made shorter it meets nobody, and made longer it   *)
(* takes a stretch that was found free: of the unlisted schedules of its   *)
(* host, which are still what they were, and of the listed ones, which     *)
(* this command may have moved but whose starts are still where they were. *)
(***************************************************************************)
LEMMA PatchKnown ==
  ASSUME KnowledgeInv, WholeMinutes, NEW k \in Clients, NEW s \in my[k].left, s.id \in DOMAIN rows,
         my[k].cmd \in Commands, my[k].cmd.kind \in {"extend", "shrink"}, pc[k] = "patch",
         rows[s.id].start < NewEnd(k, s), Move(s.id, rows[s.id].start, NewEnd(k, s)),
         unchecked' = IF s.host \in my[k].touched THEN unchecked \union {s.id} ELSE unchecked,
         my' = [Touching(k, rows[s.id].host) EXCEPT
                  ![k] = IF my[k].left = {s} THEN NoLocal ELSE [my[k] EXCEPT !.left = @ \ {s}]],
         Goto(k, IF my[k].left = {s} THEN "done" ELSE "patch"),
         nextId' = nextId
  PROVE  KnownOK(k)' /\ RowsOK' /\ OverlapsOnlyUnchecked'
<1>1. TypeOK /\ RowsOK /\ OverlapsOnlyUnchecked /\ KnownOK(k)
  BY DEF KnowledgeInv, TypeInv
<1>2. my[k] \in Local /\ my \in [Clients -> Local] /\ rows \in [DOMAIN rows -> Row]
  BY <1>1 DEF TypeOK
<1>3. ListOK(k) /\ my[k].left \subseteq my[k].all /\ s \in my[k].all /\ my[k].all \subseteq Listed
  BY <1>1, <1>2 DEF KnownOK, Busy, ListOK, Local
<1>4. NewEnd(k, s) \in Nat /\ NewEnd(k, s) % Minute = 0
  BY <1>1, <1>3, NewEndOK
<1>5. /\ DOMAIN rows' = DOMAIN rows
      /\ rows'[s.id].start = rows[s.id].start /\ rows'[s.id].end = NewEnd(k, s)
      /\ rows'[s.id].host = rows[s.id].host
      /\ \A i \in DOMAIN rows \ {s.id} : rows'[i] = rows[i]
  <2>1. rows[s.id].start \in Nat
    BY <1>2 DEF Row
  <2> QED
    BY <1>1, <1>4, <2>1, MoveRows
<1>6. /\ rows'[s.id].start = rows[s.id].start /\ rows'[s.id].end = NewEnd(k, s)
      /\ rows'[s.id].host = rows[s.id].host /\ rows[s.id].host = s.host
  BY <1>3, <1>5 DEF ListOK
<1>7. \A id \in DOMAIN rows : rows[id].start \in Nat /\ rows[id].end \in Nat /\ rows[id].start < rows[id].end
  <2> TAKE id \in DOMAIN rows
  <2>1. rows[id].start \in Nat /\ rows[id].end \in Nat
    BY <1>2 DEF Row
  <2> QED
    BY <1>1, <2>1, Floored, ExpiryAssumption DEF RowsOK
<1>8. RowsOK'
  <2> SUFFICES ASSUME NEW id \in DOMAIN rows
               PROVE  FloorMinute(rows'[id].start) + Minute <= rows'[id].end
    BY <1>5 DEF RowsOK
  <2>1. CASE id = s.id
    BY <1>4, <1>6, <1>7, <2>1, NextMinute
  <2>2. CASE id # s.id
    BY <1>1, <1>5, <2>2 DEF RowsOK
  <2> QED
    BY <2>1, <2>2
<1>9. OverlapsOnlyUnchecked'
  <2>1. CASE s.host \in my[k].touched
    BY <1>1, <1>5, <1>6, <2>1 DEF OverlapsOnlyUnchecked
  <2>2. CASE s.host \notin my[k].touched
    <3>1. /\ rows[s.id].start = s.start /\ rows[s.id].end = s.end /\ s \in Listed
          /\ s.start \in Nat /\ s.end \in Nat /\ FloorMinute(s.start) + Minute <= s.end
      BY <1>3, <2>2 DEF ListOK, Listed
    <3>2. ASSUME NEW j \in DOMAIN rows \ {s.id}, rows[j].host = s.host, j \notin unchecked, s.id \notin unchecked
          PROVE  rows[j].end <= s.start \/ NewEnd(k, s) <= rows[j].start
      <4>1. rows[j].end <= s.start \/ s.end <= rows[j].start
        BY <1>1, <1>6, <3>1, <3>2 DEF OverlapsOnlyUnchecked, Disjoint
      <4>2. CASE rows[j].end <= s.start
        BY <4>2
      <4>3. CASE NewEnd(k, s) <= s.end /\ s.end <= rows[j].start
        BY <1>4, <1>7, <3>1, <4>3
      <4>4. CASE ~(NewEnd(k, s) <= s.end) /\ s.end <= rows[j].start
        <5>1. my[k].cmd.kind = "extend"
          <6>1. CmdOK /\ KnownOK(k)
            BY <1>1 DEF KnowledgeInv, TypeInv
          <6>2. my[k].cmd.kind = "shrink" => NewEnd(k, s) <= s.end
            BY <1>1, <1>3, <2>2, <6>1, NewEndMoves
          <6> QED
            BY <4>4, <6>2
        <5>2. ExtendOK(k) /\ Verified(k) = my[k].all
          BY <1>1, <5>1 DEF KnownOK, Verified
        <5> DEFINE a == FloorMinute(s.end)
                   b == FloorMinute(Later(my[k].cmd, s))
        <5>3. a = s.end /\ s.end <= b /\ b = NewEnd(k, s) /\ b \in Nat
          <6>1. Free(s, s, my[k].cmd) /\ s.end <= Later(my[k].cmd, s)
            BY <1>3, <2>2, <5>2 DEF ExtendOK
          <6> QED
            BY <3>1, <5>1, <6>1, SelfFree, LaterType DEF NewEnd
        <5> HIDE DEF a, b
        <5>4. PICK u : /\ u.start = rows[j].start /\ u.end \in Nat /\ u.start < u.end
                       /\ Available({u}, a, b)
          <6>1. CASE \E t \in my[k].all : t.id = j
            <7>1. PICK t \in my[k].all : t.id = j
              BY <6>1
            <7>2. t.host = s.host /\ t \in Listed /\ rows[j].start = t.start
              BY <1>3, <2>2, <3>2, <7>1 DEF ListOK
            <7>3. Free(t, s, my[k].cmd)
              BY <1>3, <2>2, <5>2, <7>2 DEF ExtendOK
            <7>4. t.start < t.end /\ t.end \in Nat
              <8>1. t.start \in Nat /\ t.end \in Nat /\ FloorMinute(t.start) + Minute <= t.end
                BY <1>3, <7>2 DEF ListOK, Listed
              <8> QED
                BY <8>1, Floored, ExpiryAssumption
            <7> QED
              BY <7>2, <7>3, <7>4 DEF Free, a, b
          <6>2. CASE ~\E t \in my[k].all : t.id = j
            <7>1. Free(rows[j], s, my[k].cmd)
              BY <1>3, <2>2, <3>2, <5>2, <6>2 DEF ExtendOK
            <7> QED
              BY <1>7, <3>2, <7>1 DEF Free, a, b
          <6> QED
            BY <6>1, <6>2
        <5>5. b <= u.start
          <6>1. /\ u.start \in Nat /\ u.end \in Nat /\ u.start < u.end
                /\ a \in Nat /\ a < b /\ a <= u.start /\ Available({u}, a, b)
            BY <1>7, <3>1, <3>2, <4>4, <5>3, <5>4
          <6> QED
            BY <5>3, <6>1, AfterFree
        <5> QED
          BY <5>3, <5>4, <5>5
      <4> QED
        BY <4>1, <4>2, <4>3, <4>4
    <3>3. \A i \in DOMAIN rows : rows'[i].host = rows[i].host
      BY <1>5, <1>6
    <3> SUFFICES ASSUME NEW i \in DOMAIN rows, NEW j \in DOMAIN rows, i # j,
                        rows[i].host = rows[j].host, i \notin unchecked, j \notin unchecked
                 PROVE  Disjoint(rows'[i], rows'[j].start, rows'[j].end)
      BY <1>5, <2>2, <3>3 DEF OverlapsOnlyUnchecked
    <3>4. CASE i = s.id
      BY <1>5, <1>6, <3>1, <3>2, <3>4 DEF Disjoint
    <3>5. CASE j = s.id
      BY <1>5, <1>6, <3>1, <3>2, <3>5 DEF Disjoint
    <3>6. CASE i # s.id /\ j # s.id
      BY <1>1, <1>5, <3>6 DEF OverlapsOnlyUnchecked
    <3> QED
      BY <3>4, <3>5, <3>6
  <2> QED
    BY <2>1, <2>2
<1>10. KnownOK(k)'
  <2>1. my'[k] = (IF my[k].left = {s} THEN NoLocal ELSE [my[k] EXCEPT !.left = @ \ {s}])
        /\ pc'[k] = (IF my[k].left = {s} THEN "done" ELSE "patch")
    <3>1. rows[s.id].host \in Hosts
      BY <1>2 DEF Row
    <3> QED
      BY <1>1, <3>1, TouchingType DEF Goto, TypeOK
  <2>2. CASE my[k].left = {s}
    BY <2>1, <2>2 DEF KnownOK, Busy
  <2>3. CASE my[k].left # {s}
    <3>1. /\ my'[k].cmd = my[k].cmd /\ my'[k].all = my[k].all /\ my'[k].left = my[k].left \ {s}
          /\ my'[k].touched = my[k].touched /\ my'[k].began = my[k].began /\ pc'[k] = "patch"
      BY <1>2, <2>1, <2>3 DEF Local
    <3>2. \A t : Earlier(k, t)' = Earlier(k, t) /\ NewEnd(k, t)' = NewEnd(k, t)
      <4> TAKE t
      <4>1. Earlier(k, t)' = Earlier(k, t)
        BY <3>1 DEF Earlier
      <4> QED
        BY <3>1, <4>1 DEF NewEnd, ShrunkEnd
    <3>3. ASSUME NEW t \in my[k].all, t.host \notin my[k].touched
          PROVE  /\ t.id \in DOMAIN rows' /\ rows'[t.id].start = t.start
                 /\ rows'[t.id].end = IF t \notin my[k].left \ {s} THEN NewEnd(k, t) ELSE t.end
      <4>1. /\ t.id \in DOMAIN rows /\ rows[t.id].start = t.start
            /\ rows[t.id].end = IF t \notin my[k].left THEN NewEnd(k, t) ELSE t.end
        BY <1>3, <3>3 DEF ListOK
      <4>2. t.id = s.id => t = s
        BY <1>3 DEF ListOK
      <4> QED
        BY <1>5, <1>6, <4>1, <4>2
    <3>4. \A t \in my[k].all : t.id \in DOMAIN rows' => rows'[t.id].host = t.host
      BY <1>3, <1>5, <1>6 DEF ListOK
    <3>5. ListOK(k)'
      BY <1>3, <3>1, <3>2, <3>3, <3>4 DEF ListOK
    <3>6. my[k].cmd.kind = "extend" => ExtendOK(k)'
      <4> SUFFICES ASSUME ExtendOK(k) PROVE ExtendOK(k)'
        BY <1>1 DEF KnownOK
      <4>1. Verified(k)' = my[k].all /\ Verified(k) = my[k].all
        BY <3>1 DEF Verified
      <4>2. \A id \in DOMAIN rows' : (\A t \in my[k].all : id # t.id) => id \in DOMAIN rows /\ rows'[id] = rows[id]
        BY <1>3, <1>5, Zenon
      <4> QED
        BY <3>1, <4>1, <4>2 DEF ExtendOK
    <3> QED
      BY <1>1, <3>1, <3>2, <3>5, <3>6 DEF KnownOK
  <2> QED
    BY <2>2, <2>3
<1> QED
  BY <1>8, <1>9, <1>10

(* --mod-schedule checks nothing, and its schedule counts as unchecked.    *)
LEMMA ModifyKnown ==
  ASSUME KnowledgeInv, WholeMinutes, NEW k \in Clients, Modify(k)
  PROVE  KnownOK(k)' /\ RowsOK' /\ OverlapsOnlyUnchecked'
<1> DEFINE cmd == my[k].cmd
           start == IF "start" \in cmd.fields THEN cmd.start ELSE rows[cmd.id].start
           end == IF "end" \in cmd.fields THEN cmd.end ELSE rows[cmd.id].end
<1>1. TypeOK /\ CmdOK /\ RowsOK /\ OverlapsOnlyUnchecked
  BY Zenon DEF KnowledgeInv, TypeInv
<1>2. cmd \in Commands /\ cmd \in Command /\ cmd.kind = "mod" /\ my[k] \in Local
  BY <1>1, ExpiryAssumption, Zenon DEF Modify, Busy, CmdOK, TypeOK
<1>3. CASE Quit(k, "error") /\ UNCHANGED <<rows, unchecked>>
  BY <1>1, <1>3, KnownNothing, CalendarKept DEF Final
<1>4. CASE /\ cmd.id \in DOMAIN rows /\ start < end /\ Move(cmd.id, start, end)
           /\ unchecked' = unchecked \union {cmd.id}
           /\ my' = [Touching(k, rows[cmd.id].host) EXCEPT ![k].all = {AsListed(cmd.id)}]
           /\ Goto(k, "clear")
  <2>1. rows[cmd.id] \in Row /\ rows[cmd.id].start \in Nat /\ rows[cmd.id].end \in Nat /\ rows[cmd.id].host \in Hosts
    BY <1>1, <1>4 DEF TypeOK, Row
  <2>2. start \in Nat /\ end \in Nat
    BY <1>2, <2>1 DEF Command
  <2>3. FloorMinute(start) + Minute <= end
    <3>1. CASE "end" \in cmd.fields
      <4>1. end % Minute = 0
        BY <1>2, <3>1 DEF WholeMinutes
      <4> HIDE DEF cmd, start, end
      <4> QED
        BY <1>4, <2>2, <4>1, NextMinute
    <3>2. CASE "end" \notin cmd.fields
      BY <1>1, <1>2, <1>4, <3>2 DEF WholeMinutes, RowsOK
    <3> QED
      BY <3>1, <3>2
  <2>4. my'[k].cmd = cmd /\ pc'[k] = "clear"
    <3>1. Touching(k, rows[cmd.id].host)[k] = my[k] /\ k \in DOMAIN Touching(k, rows[cmd.id].host)
      BY <1>1, <2>1, TouchingType DEF Touching
    <3>2. my'[k] = [my[k] EXCEPT !.all = {AsListed(cmd.id)}]
      BY <1>4, <3>1
    <3>3. pc'[k] = "clear"
      BY <1>1, <1>4 DEF Goto, TypeOK
    <3> QED
      BY <1>2, <3>2, <3>3 DEF Local
  <2>5. KnownOK(k)'
    BY <1>2, <2>4 DEF KnownOK
  <2> HIDE DEF start, end, cmd
  <2>6. /\ DOMAIN rows' = DOMAIN rows
        /\ rows'[cmd.id].start = start /\ rows'[cmd.id].end = end /\ rows'[cmd.id].host = rows[cmd.id].host
        /\ \A i \in DOMAIN rows \ {cmd.id} : rows'[i] = rows[i]
    BY <1>1, <1>4, <2>2, MoveRows
  <2>7. RowsOK'
    BY <1>1, <2>3, <2>6 DEF RowsOK
  <2>8. OverlapsOnlyUnchecked'
    BY <1>1, <1>4, <2>6 DEF OverlapsOnlyUnchecked
  <2> QED
    BY <2>5, <2>7, <2>8
<1> QED
  BY <1>3, <1>4, Zenon DEF Modify

(* Fewer schedules overlap less.                                           *)
LEMMA RemoveKnown ==
  ASSUME KnowledgeInv, NEW k \in Clients, Remove(k)
  PROVE  KnownOK(k)' /\ RowsOK' /\ OverlapsOnlyUnchecked'
<1>1. TypeOK /\ RowsOK /\ OverlapsOnlyUnchecked
  BY DEF KnowledgeInv, TypeInv
<1>2. pc'[k] \in Final
  BY <1>1 DEF Remove, Goto, Quit, TypeOK, Final
<1>3. DOMAIN rows' \subseteq DOMAIN rows /\ (\A i \in DOMAIN rows' : rows'[i] = rows[i]) /\ unchecked' = unchecked
  BY DEF Remove
<1> QED
  BY <1>1, <1>2, <1>3 DEF KnownOK, Busy, Final, RowsOK, OverlapsOnlyUnchecked

(***************************************************************************)
(* A booking is made where the server finds the host free; the rest of a   *)
(* list was found free and is for other hosts.                             *)
(***************************************************************************)
LEMMA BookKnown ==
  ASSUME KnowledgeInv, WholeMinutes, NEW k \in Clients, Book(k)
  PROVE  KnownOK(k)' /\ RowsOK' /\ OverlapsOnlyUnchecked'
<1>1. TypeOK /\ CmdOK /\ RowsOK /\ OverlapsOnlyUnchecked /\ KnownOK(k)
  BY DEF KnowledgeInv, TypeInv
<1>2. /\ my[k].cmd.kind = "book" /\ ListedOK(k) /\ my[k] \in Local /\ my \in [Clients -> Local]
      /\ my[k].cmd \in Commands /\ pc[k] = "send" /\ unchecked' = unchecked
      /\ nextId \notin DOMAIN rows
  BY <1>1 DEF Book, KnownOK, CmdOK, Busy, TypeOK
<1>3. CASE Quit(k, "error") /\ UNCHANGED rows
  BY <1>1, <1>2, <1>3, KnownNothing, CalendarKept DEF Final
<1> DEFINE row(s) == [host |-> Granted(s).host, cloud |-> Granted(s).cloud,
                      start |-> Granted(s).start, end |-> Granted(s).end]
<1>4. ASSUME NEW s \in my[k].left, Granted(s).start < Granted(s).end,
             IsAvailable(Granted(s).host, Granted(s).start, Granted(s).end),
             rows' = [i \in DOMAIN rows \union {nextId} |-> IF i = nextId THEN row(s) ELSE rows[i]],
             my' = [Touching(k, s.host) EXCEPT ![k].left = @ \ {s}],
             Goto(k, "clear")
      PROVE  KnownOK(k)' /\ RowsOK' /\ OverlapsOnlyUnchecked'
  <2>1. s \in Listed /\ s.host \in Hosts /\ s.start \in Nat /\ s.end \in Nat
    BY <1>2 DEF Local, Listed
  <2>2. /\ DOMAIN rows' = DOMAIN rows \union {nextId} /\ rows'[nextId] = row(s)
        /\ \A i \in DOMAIN rows : rows'[i] = rows[i]
    BY <1>2, <1>4
  <2> DEFINE start == Granted(s).start
             end == Granted(s).end
  <2>3. /\ row(s).host = s.host /\ row(s).start = start /\ row(s).end = end
        /\ start \in Nat /\ end \in Nat /\ start < end /\ IsAvailable(s.host, start, end)
    BY <1>1, <1>4, <2>1, GrantedType DEF TypeOK
  <2>4. FloorMinute(start) + Minute <= end
    <3>1. CASE s.cloud \in SelfClouds
      BY <1>1, <2>1, <2>3, <3>1, GrantedType, SelfEndOK DEF TypeOK
    <3>2. CASE s.cloud \notin SelfClouds
      <4>1. end = my[k].cmd.end
        BY <1>1, <1>2, <2>1, <3>2, GrantedType DEF ListedOK, Wish, TypeOK
      <4>2. end % Minute = 0
        BY <1>2, <4>1 DEF WholeMinutes
      <4> QED
        BY <2>3, <4>2, NextMinute
    <3> QED
      BY <3>1, <3>2
  <2> HIDE DEF start, end
  <2> HIDE DEF row
  <2>5. RowsOK'
    BY <1>1, <2>2, <2>3, <2>4 DEF RowsOK
  <2>6. ASSUME NEW i \in DOMAIN rows, rows[i].host = s.host
        PROVE  Disjoint(rows[i], start, end)
    <3>1. rows[i].start \in Nat /\ rows[i].end \in Nat
      BY <1>1 DEF TypeOK, Row
    <3>2. rows[i].start < rows[i].end
      BY <1>1, <3>1, Floored, ExpiryAssumption DEF RowsOK
    <3>3. Available(HostRows(s.host), start, end) /\ rows[i] \in HostRows(s.host)
      BY <2>3, <2>6 DEF IsAvailable, HostRows
    <3>4. Available({rows[i]}, start, end)
      BY <3>3, AvailableEach, Zenon
    <3> QED
      BY <2>3, <3>1, <3>2, <3>4, FreeDisjoint
  <2>7. OverlapsOnlyUnchecked'
    <3> SUFFICES ASSUME NEW i \in DOMAIN rows', NEW j \in DOMAIN rows', i # j,
                        rows'[i].host = rows'[j].host, i \notin unchecked, j \notin unchecked
                 PROVE  Disjoint(rows'[i], rows'[j].start, rows'[j].end)
      BY <1>2 DEF OverlapsOnlyUnchecked
    <3>1. CASE i = nextId
      BY <2>2, <2>3, <2>6, <3>1 DEF Disjoint
    <3>2. CASE j = nextId
      BY <2>2, <2>3, <2>6, <3>2 DEF Disjoint
    <3>3. CASE i # nextId /\ j # nextId
      BY <1>1, <2>2, <3>3 DEF OverlapsOnlyUnchecked
    <3> QED
      BY <3>1, <3>2, <3>3
  <2>8. KnownOK(k)'
    <3>1. my'[k] = [my[k] EXCEPT !.left = @ \ {s}] /\ pc'[k] = "clear"
      <4>1. Touching(k, s.host)[k] = my[k] /\ k \in DOMAIN Touching(k, s.host)
        BY <1>1, <2>1, TouchingType DEF Touching
      <4>2. pc'[k] = "clear"
        BY <1>1, <1>4 DEF Goto, TypeOK
      <4> QED
        BY <1>4, <4>1, <4>2
    <3>2. /\ my'[k].cmd = my[k].cmd /\ my'[k].all = my[k].all /\ my'[k].left = my[k].left \ {s}
          /\ my'[k].touched = my[k].touched
      BY <1>2, <3>1 DEF Local
    <3>3. AskedFor(k)' = my[k].left \ {s} /\ AskedFor(k) = my[k].left
      BY <1>2, <3>1, <3>2 DEF AskedFor
    <3>4. ASSUME NEW t \in my[k].left \ {s}, my[k].cmd.list # <<>>, my[k].cmd.start < my[k].cmd.end,
                 t.host \notin my[k].touched, NamedOnce(k, t)
          PROVE  t.host \notin Out /\ Available(HostRows(t.host)', t.start, t.end)
      <4>1. t.host # s.host
        BY <1>2, <3>4 DEF ListedOK, NamedOnce
      <4>2. HostRows(t.host)' = HostRows(t.host)
        BY <1>2, <2>2, <2>3, <4>1 DEF HostRows
      <4> QED
        BY <1>2, <3>3, <3>4, <4>2 DEF ListedOK
    <3>5. ListedOK(k)'
      BY <1>2, <3>1, <3>2, <3>3, <3>4 DEF ListedOK, NamedOnce
    <3> QED
      BY <1>2, <3>1, <3>2, <3>5 DEF KnownOK
  <2> QED
    BY <2>5, <2>7, <2>8
<1> QED
  BY <1>3, <1>4 DEF Book

(* The steps of a command that end it, or go on to the next host.          *)
LEMMA KnownRest ==
  ASSUME KnowledgeInv, NEW k \in Clients,
         ModifyReset(k) \/ BookReset(k) \/ Ticket(k) \/ SetFlags(k) \/ CallFails(k)
  PROVE  KnownOK(k)' /\ rows' = rows /\ unchecked' = unchecked
<1>1. TypeOK /\ KnownOK(k)
  BY DEF KnowledgeInv, TypeInv
<1>2. rows' = rows /\ unchecked' = unchecked /\ nextId' = nextId
  BY DEF ModifyReset, BookReset, Ticket, SetFlags, CallFails, history
<1>3. CASE \E label \in Final : Quit(k, label)
  BY <1>1, <1>2, <1>3, KnownNothing
<1>4. CASE BookReset(k) /\ ~\E label \in Final : Quit(k, label)
  <2>1. /\ pc[k] = "clear" /\ my[k].cmd.kind = "book" /\ my' = my /\ ListedOK(k)
        /\ pc'[k] \in {"send", "ticket"}
    BY <1>1, <1>4 DEF BookReset, Goto, Final, KnownOK, TypeOK
  <2>2. AskedFor(k)' = AskedFor(k)
    BY <2>1 DEF AskedFor
  <2>3. ListedOK(k)'
    BY <1>2, <2>1, <2>2, Zenon DEF ListedOK, HostRows, NamedOnce
  <2> QED
    BY <1>2, <2>1, <2>3 DEF KnownOK
<1> QED
  BY <1>2, <1>3, <1>4 DEF ModifyReset, Ticket, SetFlags, CallFails, Final

(* A step of a command keeps what it knows and the calendar.               *)
LEMMA OwnKnown ==
  ASSUME KnowledgeInv, WholeMinutes, NEW k \in Clients, Step(k)
  PROVE  KnownOK(k)' /\ RowsOK' /\ OverlapsOnlyUnchecked'
<1>1. TypeOK /\ CmdOK /\ RowsOK /\ OverlapsOnlyUnchecked
  BY DEF KnowledgeInv, TypeInv
<1>2. CASE \/ \E cmd \in Commands : Type(k, cmd)
           \/ ListCurrent(k) \/ ListFuture(k) \/ Check(k) \/ Reset(k) \/ Judge(k) \/ Sift(k) \/ Ask(k)
  <2>1. rows' = rows /\ unchecked' = unchecked
    BY <1>2, Zenon DEF Type, ListCurrent, ListTo, ListFuture, Check, Reset, Judge, Sift, Ask, history
  <2>2. KnownOK(k)'
    BY <1>2, KnownRead
  <2> QED
    BY <1>1, <2>1, <2>2, CalendarKept
<1>3. CASE Extend(k) \/ Shrink(k)
  <2>1. pc[k] = "patch" /\ my[k].cmd.kind \in {"extend", "shrink"} /\ my[k].cmd \in Commands
    BY <1>1, <1>3 DEF Extend, Shrink, PatchEnd, CmdOK, Busy
  <2>2. CASE Quit(k, "error") /\ UNCHANGED <<rows, unchecked>>
    BY <1>1, <2>2, KnownNothing, CalendarKept DEF Final
  <2>3. CASE \E s \in my[k].left :
               /\ s.id \in DOMAIN rows /\ rows[s.id].start < NewEnd(k, s)
               /\ Move(s.id, rows[s.id].start, NewEnd(k, s))
               /\ unchecked' = IF s.host \in my[k].touched THEN unchecked \union {s.id} ELSE unchecked
               /\ my' = [Touching(k, rows[s.id].host) EXCEPT
                           ![k] = IF my[k].left = {s} THEN NoLocal ELSE [my[k] EXCEPT !.left = @ \ {s}]]
               /\ Goto(k, IF my[k].left = {s} THEN "done" ELSE "patch")
               /\ UNCHANGED <<now, nextId, validated, n, faults>>
    BY <2>1, <2>3, PatchKnown
  <2> QED
    BY <1>1, <1>3, <2>1, <2>2, <2>3, PatchStep DEF history
<1>4. CASE Modify(k) \/ Remove(k) \/ Book(k)
  BY <1>4, ModifyKnown, RemoveKnown, BookKnown
<1>5. CASE ModifyReset(k) \/ BookReset(k) \/ Ticket(k) \/ SetFlags(k) \/ CallFails(k)
  BY <1>1, <1>5, KnownRest, CalendarKept
<1> QED
  BY <1>2, <1>3, <1>4, <1>5 DEF Step

(* So does every step: what is known of a host is true until it is known   *)
(* that somebody else wrote to it.                                         *)
LEMMA NextKnown == WholeMinutes /\ KnowledgeInv /\ [Next]_vars => KnowledgeInv'
<1> SUFFICES ASSUME WholeMinutes, KnowledgeInv, [Next]_vars PROVE KnowledgeInv'
  OBVIOUS
<1>1. TypeInv /\ TypeOK /\ CmdOK /\ RowsOK /\ OverlapsOnlyUnchecked /\ (\A k \in Clients : KnownOK(k))
  BY DEF KnowledgeInv, TypeInv
<1>2. TypeInv' /\ nextId' \in Nat
  BY <1>1, NextType DEF TypeInv, TypeOK
<1>3. ASSUME NEW k \in Clients, Step(k) PROVE KnowledgeInv'
  <2>1. KnownOK(k)' /\ RowsOK' /\ OverlapsOnlyUnchecked'
    BY <1>3, OwnKnown
  <2>2. ASSUME NEW j \in Clients \ {k} PROVE KnownOK(j)'
    <3>1. /\ nextId <= nextId'
          /\ \A id \in DOMAIN rows' : id < nextId => id \in DOMAIN rows /\ rows'[id].host = rows[id].host
      BY <1>1, <1>3, HostsKept
    <3>2. Hosts # {} => \E h \in Hosts :
             /\ pc'[j] = pc[j]
             /\ \/ rows' = rows /\ my'[j] = my[j]
                \/ Elsewhere(h) /\ my'[j] = IF pc[j] \in Busy THEN [my[j] EXCEPT !.touched = @ \union {h}]
                                                              ELSE my[j]
      BY <1>1, <1>3, <2>2, Others DEF CmdOK, Learned
    <3>3. CASE Hosts # {}
      BY <1>1, <1>2, <2>2, <3>1, <3>2, <3>3, KnownKept
    <3>4. CASE Hosts = {}
      <4>1. pc'[j] = pc[j] /\ my'[j] = my[j] /\ rows' = rows
        BY <1>1, <1>3, <2>2, <3>4, Others DEF CmdOK
      <4>2. my[j] \in Local /\ my[j].all = {} /\ my[j].left \subseteq my[j].all /\ my'[j].all = {}
        BY <1>1, <2>2, <3>4, <4>1 DEF TypeOK, Local, Listed
      <4>3. KnownOK(j)
        BY <1>1, <2>2
      <4>4. Verified(j)' = Verified(j) /\ AskedFor(j)' = AskedFor(j) /\ Verified(j) = {}
        BY <4>1, <4>2 DEF Verified, AskedFor
      <4>5. /\ ListOK(j) => ListOK(j)'
            /\ ExtendOK(j) => ExtendOK(j)'
            /\ ListedOK(j) => ListedOK(j)'
        BY <4>1, <4>2, <4>4 DEF ListOK, ExtendOK, ListedOK, HostRows, NamedOnce
      <4> QED
        BY <4>1, <4>2, <4>3, <4>5 DEF KnownOK
    <3> QED
      BY <3>3, <3>4
  <2> QED
    BY <1>2, <2>1, <2>2 DEF KnowledgeInv
<1>4. CASE UNCHANGED <<rows, nextId, pc, my, unchecked>>
  <2>1. RowsOK' /\ OverlapsOnlyUnchecked'
    BY <1>1, <1>4, CalendarKept
  <2>2. ASSUME NEW k \in Clients PROVE KnownOK(k)'
    <3>1. KnownOK(k)
      BY <1>1
    <3>2. \A s : Earlier(k, s)' = Earlier(k, s) /\ NewEnd(k, s)' = NewEnd(k, s)
      BY <1>4 DEF Earlier, NewEnd, ShrunkEnd
    <3>3. Verified(k)' = Verified(k) /\ AskedFor(k)' = AskedFor(k)
      BY <1>4 DEF Verified, AskedFor
    <3>4. /\ ListOK(k) => ListOK(k)'
          /\ ExtendOK(k) => ExtendOK(k)'
          /\ ListedOK(k) => ListedOK(k)'
      <4>1. ListOK(k) => ListOK(k)'
        BY <1>4, <3>2 DEF ListOK
      <4>2. ExtendOK(k) => ExtendOK(k)'
        BY <1>4, <3>3 DEF ExtendOK
      <4>3. \A h : HostRows(h)' = HostRows(h)
        BY <1>4 DEF HostRows
      <4>4. ListedOK(k) => ListedOK(k)'
        BY <1>4, <3>3, <4>3 DEF ListedOK, NamedOnce
      <4> QED
        BY <4>1, <4>2, <4>4
    <3> QED
      BY <1>4, <3>1, <3>2, <3>4 DEF KnownOK
  <2> QED
    BY <1>2, <2>1, <2>2 DEF KnowledgeInv
<1>5. CASE Notify \/ QueryFails \/ MarkFails \/ Dies
  <2>1. RunOK
    BY <1>1 DEF TypeInv
  <2> QED
    BY <1>1, <1>4, <1>5, <2>1, NotifyFrame
<1>6. CASE (\E c \in Clouds : Validate(c)) \/ Tick \/ UNCHANGED vars
  BY <1>4, <1>6 DEF Validate, Tick, client, history, vars
<1> QED
  BY <1>3, <1>5, <1>6 DEF Next

(* At the start nobody has asked anything.                                 *)
LEMMA InitKnown == WholeMinutes /\ Init => KnowledgeInv
<1> SUFFICES ASSUME WholeMinutes, Init PROVE KnowledgeInv
  OBVIOUS
<1>1. TypeInv
  BY InitType
<1>2. RowsOK
  BY DEF WholeMinutes, Init, RowsOK
<1>3. OverlapsOnlyUnchecked
  BY DEF WholeMinutes, Init, OverlapsOnlyUnchecked
<1>4. \A k \in Clients : KnownOK(k)
  BY DEF Init, KnownOK, Busy
<1> QED
  BY <1>1, <1>2, <1>3, <1>4 DEF KnowledgeInv

(* Two schedules of a host overlap only when one of them was moved by      *)
(* --mod-schedule, or after somebody else had written to that host between *)
(* the listing and the PATCH.                                              *)
THEOREM OverlapsUnchecked == WholeMinutes /\ Spec => []OverlapsOnlyUnchecked
<1> SUFFICES ASSUME WholeMinutes PROVE Spec => []OverlapsOnlyUnchecked
  OBVIOUS
<1>1. KnowledgeInv => OverlapsOnlyUnchecked
  BY DEF KnowledgeInv
<1> QED
  BY <1>1, InitKnown, NextKnown, PTL DEF Spec

(* A command moves on only by a step of its own.                           *)
LEMMA OwnStep ==
  ASSUME TypeInv, Next, NEW k \in Clients, pc[k] \in Busy,
         <<pc[k], my[k].left>> # <<pc'[k], my'[k].left>>
  PROVE  Step(k)
<1>1. TypeOK /\ CmdOK /\ RunOK /\ my[k] \in Local
  BY DEF TypeInv, TypeOK
<1>2. CASE \E j \in Clients \ {k} : Step(j)
  <2>1. pc'[k] = pc[k] /\ (my'[k] = my[k] \/ \E h : my'[k] = [my[k] EXCEPT !.touched = @ \union {h}])
    BY <1>1, <1>2, Others DEF Learned, CmdOK
  <2> QED
    BY <1>1, <2>1 DEF Local
<1>3. CASE Notify \/ QueryFails \/ MarkFails \/ Dies
  BY <1>1, <1>3, NotifyFrame
<1>4. CASE (\E c \in Clouds : Validate(c)) \/ Tick
  BY <1>4 DEF Validate, Tick, client
<1> QED
  BY <1>2, <1>3, <1>4 DEF Next

(* --extend never brings an end forward and --shrink never puts one off.   *)
THEOREM EndsMoved == WholeMinutes /\ Spec => EndsMoveAsAsked
<1> SUFFICES ASSUME WholeMinutes PROVE Spec => EndsMoveAsAsked
  OBVIOUS
<1> DEFINE AsAsked ==
      \A k \in Clients, id \in DOMAIN rows :
       (id \in DOMAIN rows' /\ rows[id].host \notin my[k].touched /\ pc[k] = "patch"
          /\ rows'[id] # rows[id]
          /\ <<pc[k], my[k].left>> # <<pc'[k], my'[k].left>>)
       => /\ my[k].cmd.kind = "extend" => rows'[id].end >= rows[id].end
          /\ my[k].cmd.kind = "shrink" => rows'[id].end <= rows[id].end
<1>1. KnowledgeInv /\ [Next]_vars => [AsAsked]_vars
  <2> SUFFICES ASSUME KnowledgeInv, Next, NEW k \in Clients, NEW id \in DOMAIN rows,
                      id \in DOMAIN rows', rows[id].host \notin my[k].touched, pc[k] = "patch",
                      rows'[id] # rows[id],
                      <<pc[k], my[k].left>> # <<pc'[k], my'[k].left>>,
                      my[k].cmd.kind \in {"extend", "shrink"}
               PROVE  /\ my[k].cmd.kind = "extend" => rows'[id].end >= rows[id].end
                      /\ my[k].cmd.kind = "shrink" => rows'[id].end <= rows[id].end
    OBVIOUS
  <2>1. TypeInv /\ TypeOK /\ CmdOK /\ KnownOK(k) /\ my[k].cmd \in Commands
    BY DEF KnowledgeInv, TypeInv, CmdOK, Busy
  <2>2. Step(k)
    BY <2>1, OwnStep, Zenon DEF Busy
  <2>3. Extend(k) \/ Shrink(k)
    BY <2>2, Zenon DEF Step, Type, ListCurrent, ListFuture, Check, Reset, Judge, Modify, ModifyReset, Remove,
                Sift, Ask, Book, BookReset, Ticket, SetFlags, CallFails
  <2>4. PICK s \in my[k].left : s.id \in DOMAIN rows /\ Move(s.id, rows[s.id].start, NewEnd(k, s))
    BY <2>1, <2>3, PatchStep
  <2>5. s \in my[k].all /\ ListOK(k) /\ rows[s.id].host = s.host
    BY <2>1, <2>4 DEF KnownOK, Busy, ListOK
  <2>6. NewEnd(k, s) \in Nat /\ rows[s.id].start \in Nat
    BY <2>1, <2>4, <2>5, NewEndOK DEF TypeOK, Row
  <2>7. id = s.id /\ rows'[id].end = NewEnd(k, s)
    BY <2>1, <2>4, <2>6, MoveRows
  <2>8. rows[id].end = s.end
    BY <2>4, <2>5, <2>7 DEF ListOK
  <2> QED
    BY <2>1, <2>5, <2>7, <2>8, NewEndMoves
<1> QED
  BY <1>1, InitKnown, NextKnown, PTL DEF Spec, EndsMoveAsAsked

(* Once its checks have passed, a command is refused half way only when    *)
(* somebody else has written the schedules of a host it was still to do,   *)
(* or, of a list, for what its check does not look at.                     *)
THEOREM CheckedIsDone == WholeMinutes /\ Spec => DoneAsChecked
<1> SUFFICES ASSUME WholeMinutes PROVE Spec => DoneAsChecked
  OBVIOUS
<1> DEFINE AsChecked ==
      \A k \in Clients :
       (/\ pc[k] \in {"patch", "send"} /\ pc'[k] = "error" /\ faults' = faults
        /\ my[k].cmd.kind \in {"extend", "shrink"} \/ my[k].cmd.list # <<>>)
       => (\E s \in my[k].left : s.host \in my[k].touched) \/ OtherwiseChecked(k)
<1>1. KnowledgeInv /\ [Next]_vars => [AsChecked]_vars
  <2> SUFFICES ASSUME KnowledgeInv, Next, NEW k \in Clients,
                      pc[k] \in {"patch", "send"}, pc'[k] = "error", faults' = faults,
                      my[k].cmd.kind \in {"extend", "shrink"} \/ my[k].cmd.list # <<>>,
                      \A s \in my[k].left : s.host \notin my[k].touched, ~OtherwiseChecked(k)
               PROVE  FALSE
    OBVIOUS
  <2>1. TypeInv /\ TypeOK /\ CmdOK /\ KnownOK(k) /\ my[k].cmd \in Commands /\ my[k].cmd \in Command
    BY ExpiryAssumption DEF KnowledgeInv, TypeInv, CmdOK, Busy
  <2>2. Step(k)
    BY <2>1, OwnStep DEF Busy
  <2>3. my[k].cmd.kind \in {"extend", "shrink"} \/ (my[k].cmd.kind = "book" /\ my[k].cmd.list # <<>>)
    <3>1. \A cmd \in Commands : cmd.list # <<>> => cmd.kind = "book"
      BY ExpiryAssumption, Zenon
    <3> QED
      BY <2>1, <3>1
  <2>4. Extend(k) \/ Shrink(k) \/ Book(k)
    <3>1. ~CallFails(k)
      BY <2>1 DEF CallFails, TypeOK
    <3> QED
      BY <2>2, <2>3, <3>1, Zenon DEF Step, Type, ListCurrent, ListFuture, Check, Reset, Judge, Modify,
                   ModifyReset, Remove, Sift, Ask, BookReset, Ticket, SetFlags
  <2>5. CASE Extend(k) \/ Shrink(k)
    <3>1. pc[k] = "patch" /\ my[k].cmd.kind \in {"extend", "shrink"}
      BY <2>5 DEF Extend, Shrink, PatchEnd
    <3>2. PICK s \in my[k].left : ~(s.id \in DOMAIN rows /\ rows[s.id].start < NewEnd(k, s))
      <4>1. \A label : Goto(k, label) => pc'[k] = label
        BY <2>1 DEF Goto, TypeOK
      <4> QED
        BY <2>1, <2>5, <4>1, PatchStep
    <3>3. s \in my[k].all /\ ListOK(k)
      BY <2>1, <3>1, <3>2 DEF KnownOK, Busy, ListOK
    <3>4. s.id \in DOMAIN rows /\ rows[s.id].start = s.start
      BY <3>2, <3>3 DEF ListOK
    <3> QED
      BY <2>1, <3>1, <3>2, <3>3, <3>4, NewEndMoves
  <2>6. CASE Book(k)
    <3>1. pc[k] = "send" /\ my[k].cmd.kind = "book" /\ my[k].cmd.list # <<>> /\ ListedOK(k)
      BY <2>1, <2>3, <2>6 DEF Book, KnownOK
    <3>2. PICK s \in my[k].left :
            ~(/\ ~SelfRefused(s) /\ Granted(s).start < Granted(s).end
              /\ IsAvailable(Granted(s).host, Granted(s).start, Granted(s).end))
      <4>1. pc'[k] # "clear"
        OBVIOUS
      <4> QED
        BY <2>1, <2>6, <4>1 DEF Book, Goto, TypeOK
    <3>3. /\ s.cloud = my[k].cmd.cloud /\ s.start = my[k].cmd.start /\ s.end = my[k].cmd.end
      BY <3>1, <3>2 DEF ListedOK, Wish
    <3>4. s \in Listed /\ s.start \in Nat /\ s.end \in Nat
      BY <2>1, <3>2 DEF TypeOK, Local, Listed
    <3>5. s.cloud \notin SelfClouds /\ s.start < s.end /\ NamedOnce(k, s)
      BY <3>1, <3>2, <3>3, <3>4 DEF OtherwiseChecked
    <3>6. ~SelfRefused(s) /\ Granted(s) = s
      BY <3>5 DEF SelfRefused, Granted
    <3>7. s.host \notin Out /\ Available(HostRows(s.host), s.start, s.end)
      BY <3>1, <3>2, <3>3, <3>5 DEF ListedOK, AskedFor
    <3> QED
      BY <3>2, <3>4, <3>5, <3>6, <3>7 DEF IsAvailable
  <2> QED
    BY <2>4, <2>5, <2>6
<1> QED
  BY <1>1, InitKnown, NextKnown, PTL DEF Spec, DoneAsChecked

=============================================================================
