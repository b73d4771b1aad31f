---------------------------- MODULE Orders_proofs ----------------------------
(***************************************************************************)
(* Proofs about Orders: type correctness, referential integrity, what an   *)
(* overtaken handler can do, and that Orders implements OrderBook; and     *)
(* about Analytics, which charts the orders' revenue by day.               *)
(***************************************************************************)
EXTENDS Orders, Analytics, TLAPS

-------------------------------------------------------------------------------
(* The inductive invariant.                                                 *)

\* What a handler holds at each of its steps.
RequestOK(r) ==
  /\ r.op = "none" => r.at = "idle" /\ ~r.claim
  /\ r.op = "create" => /\ r.at \in {"dish", "option", "write"} /\ ~r.claim
                        /\ r.table \in Tables \union {NoTable}
                        /\ r.type = "DINE_IN" => r.table # NoTable
  /\ r.op = "append" => /\ r.at \in {"table", "dish", "option", "write"} /\ ~r.claim
                        /\ r.order \in OrderIds
  /\ r.op = "update" => /\ r.at \in {"table", "current", "write"}
                        /\ r.order \in OrderIds /\ r.user \in Waiters
                        /\ r.claim => r.status = "IN_PROGRESS" /\ r.at = "write"
  /\ r.op \in {"create", "append"} =>
       /\ r.dish \in Dishes /\ r.quantity \in Quantities
       /\ r.at = "option" => r.option \in Options /\ r.unitPrice \in Prices
       /\ r.at = "write" => r.unitPrice \in UnitPrices
  /\ r.at = "table" => r.table \in Tables

RequestsOK == \A c \in Clients : RequestOK(requests[c])

\* A handler whose order is in a state it would have refused was overtaken.
OvertakenAt(c) ==
  LET r == requests[c] IN
  /\ r.op = "append" /\ orders[r.order].status \in Closed => c \in overtaken
  /\ r.op = "update" /\ r.claim /\ orders[r.order].waiter # NoWaiter => c \in overtaken

OvertakenOK == \A c \in Clients : OvertakenAt(c)

\* Every order, live or not, points to existing rows.
References ==
  \A o \in OrderIds :
    /\ TableThere(orders[o].table)
    /\ orders[o].waiter \in staff \union {NoWaiter}
    /\ \A i \in DOMAIN orders[o].items : ItemsThere(orders[o].items[i])

Inv == TypeOK /\ RequestsOK /\ References /\ OvertakenOK

-------------------------------------------------------------------------------
(* Lemmas on the rows.                                                      *)

LEMMA UnitPricesNat == UnitPrices \subseteq Nat
<1> SUFFICES ASSUME NEW x \in UnitPrices PROVE x \in Nat
  OBVIOUS
<1>1. CASE x \in Prices
  BY <1>1, PriceAssumption
<1>2. CASE x \in {p + q * n : p \in Prices, q \in Prices, n \in Quantities}
  <2>1. PICK p \in Prices, q \in Prices, n \in Quantities : x = p + q * n
    BY <1>2
  <2>2. p \in Nat /\ q \in Nat /\ n \in Nat
    BY PriceAssumption, QuantityAssumption
  <2> QED BY <2>1, <2>2
<1> QED BY <1>1, <1>2 DEF UnitPrices

LEMMA LineAmountNat ==
  ASSUME NEW line \in Line PROVE LineAmount(line) \in Nat
<1>1. line.unitPrice \in Nat
  BY UnitPricesNat DEF Line
<1>2. line.quantity \in Nat
  BY QuantityAssumption DEF Line
<1> QED BY <1>1, <1>2 DEF LineAmount

LEMMA BlankOrder ==
  ASSUME NEW life \in {"UNUSED", "LIVE", "GONE"} PROVE Blank(life) \in Order
  BY DEF Blank, Order, OrderTypes, OrderStatus

LEMMA LineOfLine ==
  ASSUME NEW r \in Request, r.dish \in Dishes, r.quantity \in Quantities,
         r.unitPrice \in UnitPrices
  PROVE  LineOf(r) \in Line
  BY DEF LineOf, Line, Request

LEMMA NewOrderOrder ==
  ASSUME NEW r \in Request, LineOf(r) \in Line, r.table \in Tables \union {NoTable}
  PROVE  NewOrder(r) \in Order
<1>1. LineAmount(LineOf(r)) \in Nat
  BY LineAmountNat
<1>2. <<LineOf(r)>> \in Seq(Line)
  OBVIOUS
<1>3. r.type \in OrderTypes
  BY DEF Request
<1> QED BY <1>1, <1>2, <1>3 DEF NewOrder, Blank, Order, OrderStatus

LEMMA AppendedOrder ==
  ASSUME NEW order \in Order, NEW r \in Request, LineOf(r) \in Line
  PROVE  Appended(order, r) \in Order
<1>1. LineAmount(LineOf(r)) \in Nat
  BY LineAmountNat
<1>2. order.items \in Seq(Line) /\ order.totalAmount \in Nat
  BY DEF Order
<1>3. Append(order.items, LineOf(r)) \in Seq(Line)
  BY <1>2
<1>4. order.totalAmount + LineAmount(LineOf(r)) \in Nat
  BY <1>1, <1>2
<1> QED BY <1>3, <1>4 DEF Appended, Order

LEMMA UpdatedOrder ==
  ASSUME NEW order \in Order, NEW r \in Request, r.claim => r.user \in Waiters
  PROVE  Updated(order, r) \in Order
<1>1. (IF r.status = Unchanged THEN order.status ELSE r.status) \in OrderStatus
  BY DEF Order, Request
<1>2. (IF r.table = Unchanged THEN order.table ELSE r.table) \in Tables \union {NoTable}
  BY DEF Order, Request
<1>3. (IF r.claim THEN r.user ELSE order.waiter) \in Waiters \union {NoWaiter}
  BY DEF Order, Request
<1> QED BY <1>1, <1>2, <1>3 DEF Updated, Order

LEMMA IdleRequest == Idle \in Request /\ RequestOK(Idle)
  BY DEF Idle, Request, RequestOK, OrderTypes

\* A priced request, on its way to the option read or to the write.
LEMMA PricedRequest ==
  ASSUME NEW r \in Request, RequestOK(r), r.op \in {"create", "append"},
         NEW price \in Prices, NEW at \in {"option", "write"},
         at = "option" => r.option \in Options
  PROVE  LET n == [r EXCEPT !.unitPrice = price, !.at = at]
         IN  n \in Request /\ RequestOK(n)
<1> DEFINE n == [r EXCEPT !.unitPrice = price, !.at = at]
<1>1. price \in UnitPrices
  BY DEF UnitPrices
<1>2. n \in Request
  BY <1>1 DEF Request
<1>3. RequestOK(n)
  BY <1>1 DEF Request, RequestOK
<1> QED BY <1>2, <1>3

LEMMA AdvanceType ==
  ASSUME TypeOK, RequestsOK, NEW c \in Clients, NEW r, r \in Request, RequestOK(r),
         Advance(c, r)
  PROVE  requests' \in [Clients -> Request] /\ RequestsOK'
  BY DEF TypeOK, RequestsOK, Advance

LEMMA RejectType ==
  ASSUME TypeOK, RequestsOK, NEW c \in Clients, Reject(c)
  PROVE  requests' \in [Clients -> Request] /\ RequestsOK'
  BY AdvanceType, IdleRequest DEF Reject

-------------------------------------------------------------------------------
(* Types and what requests hold.                                            *)

LEMMA InitInv == Init => Inv
<1> SUFFICES ASSUME Init PROVE Inv
  OBVIOUS
<1>1. TypeOK
  <2>1. orders \in [OrderIds -> Order] /\ requests \in [Clients -> Request]
    BY BlankOrder, IdleRequest DEF Init
  <2>2. tables \in [Tables -> TableStates] /\ staff \subseteq Waiters /\ overtaken \subseteq Clients
    BY DEF Init, TableStates
  <2>3. /\ dishes \in [Dishes -> [there : BOOLEAN, isAvailable : BOOLEAN, price : Prices]]
        /\ options \in [Options -> [there : BOOLEAN, price : Prices]]
    BY DEF Init
  <2> QED BY <2>1, <2>2, <2>3 DEF TypeOK
<1>2. RequestsOK
  BY IdleRequest DEF Init, RequestsOK
<1>3. References
  <2> SUFFICES ASSUME NEW o \in OrderIds
               PROVE  /\ TableThere(orders[o].table)
                      /\ orders[o].waiter = NoWaiter
                      /\ DOMAIN orders[o].items = {}
    BY DEF References
  <2>1. orders[o] = Blank("UNUSED")
    BY DEF Init
  <2> QED BY <2>1 DEF Blank, TableThere
<1>4. OvertakenOK
  BY DEF Init, OvertakenOK, OvertakenAt, Idle
<1> QED BY <1>1, <1>2, <1>3, <1>4 DEF Inv

LEMMA TypeStep == Inv /\ [Next]_vars => TypeOK' /\ RequestsOK'
<1> SUFFICES ASSUME Inv, [Next]_vars PROVE TypeOK' /\ RequestsOK'
  OBVIOUS
<1> USE DEF Inv
<1>0. NoteOvertaken => overtaken' \subseteq Clients
  BY DEF NoteOvertaken
<1>1. ASSUME NEW c \in Clients, RequestStep(c) PROVE TypeOK' /\ RequestsOK'
  <2> DEFINE r == requests[c]
  <2>0. r \in Request /\ RequestOK(r)
    BY DEF TypeOK, RequestsOK
  <2>1. CASE BeginCreate(c)
    <3>1. PICK type \in AskedTypes, table \in Tables \union {NoTable}, dish \in Dishes,
               option \in Options \union {NoOption}, quantity \in Quantities :
            /\ type = "DINE_IN" => table # NoTable
            /\ Advance(c, WithLine([Idle EXCEPT !.op = "create", !.at = "dish",
                                                !.type = type, !.table = table],
                                   dish, option, quantity))
      BY <2>1 DEF BeginCreate
    <3> DEFINE n == WithLine([Idle EXCEPT !.op = "create", !.at = "dish",
                                          !.type = type, !.table = table],
                             dish, option, quantity)
    <3>2. n \in Request
      BY AskedAssumption DEF WithLine, Idle, Request
    <3>3. RequestOK(n)
      BY <3>1 DEF WithLine, Idle, RequestOK
    <3>4. requests' \in [Clients -> Request] /\ RequestsOK'
      BY <3>1, <3>2, <3>3, AdvanceType
    <3> QED BY <3>4, <2>1, <1>0 DEF BeginCreate, TypeOK, room, catalogue
  <2>2. CASE BeginAppend(c)
    <3>1. PICK o \in OrderIds, dish \in Dishes, option \in Options \union {NoOption},
               quantity \in Quantities :
            /\ orders[o].table # NoTable
            /\ Advance(c, WithLine([Idle EXCEPT !.op = "append", !.at = "table",
                                                !.order = o, !.table = orders[o].table],
                                   dish, option, quantity))
      BY <2>2 DEF BeginAppend, Appendable
    <3> DEFINE n == WithLine([Idle EXCEPT !.op = "append", !.at = "table",
                                          !.order = o, !.table = orders[o].table],
                             dish, option, quantity)
    <3>2. orders[o].table \in Tables
      BY <3>1 DEF TypeOK, Order
    <3>3. n \in Request /\ RequestOK(n)
      BY <3>2 DEF WithLine, Idle, Request, RequestOK, OrderTypes
    <3>4. requests' \in [Clients -> Request] /\ RequestsOK'
      BY <3>1, <3>3, AdvanceType
    <3> QED BY <3>4, <2>2, <1>0 DEF BeginAppend, TypeOK, room, catalogue
  <2>3. CASE BeginUpdate(c)
    <3>1. PICK o \in OrderIds, status \in AskedStatuses \union {Unchanged},
               table \in Tables \union {NoTable, Unchanged}, user \in staff :
            Advance(c, [Idle EXCEPT !.op = "update", !.order = o, !.status = status,
                                    !.table = table, !.user = user,
                                    !.at = IF table \in Tables THEN "table" ELSE "current"])
      BY <2>3 DEF BeginUpdate
    <3> DEFINE n == [Idle EXCEPT !.op = "update", !.order = o, !.status = status,
                                 !.table = table, !.user = user,
                                 !.at = IF table \in Tables THEN "table" ELSE "current"]
    <3>2. n \in Request /\ RequestOK(n)
      BY AskedAssumption DEF Idle, Request, RequestOK, OrderTypes, TypeOK
    <3>3. requests' \in [Clients -> Request] /\ RequestsOK'
      BY <3>1, <3>2, AdvanceType
    <3> QED BY <3>3, <2>3, <1>0 DEF BeginUpdate, TypeOK, room, catalogue
  <2>4. CASE CheckTable(c)
    <3> DEFINE n == [r EXCEPT !.at = IF r.op = "update" THEN "current" ELSE "dish"]
    <3>1. n \in Request /\ RequestOK(n)
      BY <2>0, <2>4 DEF CheckTable, Request, RequestOK
    <3>2. requests' \in [Clients -> Request] /\ RequestsOK'
      BY <2>4, <3>1, AdvanceType, RejectType DEF CheckTable
    <3> QED BY <3>2, <2>4, <1>0 DEF CheckTable, TypeOK, room, catalogue
  <2>5. CASE ReadDish(c)
    <3> DEFINE n == [r EXCEPT !.unitPrice = dishes[r.dish].price,
                              !.at = IF r.option = NoOption THEN "write" ELSE "option"]
    <3>1. r.dish \in Dishes /\ dishes[r.dish].price \in Prices
      BY <2>0, <2>5 DEF ReadDish, Request, RequestOK, TypeOK
    <3>2. n \in Request /\ RequestOK(n)
      <4> DEFINE at == IF r.option = NoOption THEN "write" ELSE "option"
      <4>1. r.op \in {"create", "append"}
        BY <2>0, <2>5 DEF ReadDish, Request, RequestOK
      <4>2. at \in {"option", "write"} /\ (at = "option" => r.option \in Options)
        BY <2>0 DEF Request
      <4> HIDE DEF at
      <4> DEFINE m == [r EXCEPT !.unitPrice = dishes[r.dish].price, !.at = at]
      <4>3. m \in Request /\ RequestOK(m)
        <5> HIDE DEF r
        <5> QED BY <2>0, <3>1, <4>1, <4>2, PricedRequest
      <4> QED BY <4>3 DEF at
    <3>3. requests' \in [Clients -> Request] /\ RequestsOK'
      BY <2>5, <3>2, AdvanceType, RejectType DEF ReadDish
    <3> QED BY <3>3, <2>5, <1>0 DEF ReadDish, TypeOK, room, catalogue
  <2>6. CASE ReadOption(c)
    <3> DEFINE Priced(times) ==
                 [r EXCEPT !.unitPrice = @ + options[r.option].price * times, !.at = "write"]
    <3>1. r.option \in Options /\ options[r.option].price \in Prices /\ r.unitPrice \in Prices
      BY <2>0, <2>6 DEF ReadOption, Request, RequestOK, TypeOK
    <3>2. \A times \in Quantities : r.unitPrice + options[r.option].price * times \in UnitPrices
      BY <3>1 DEF UnitPrices
    <3>3. \A times \in Quantities : Priced(times) \in Request /\ RequestOK(Priced(times))
      BY <2>0, <2>6, <3>2 DEF ReadOption, Request, RequestOK
    <3>5. Reject(c) \/ \E times \in Quantities : Advance(c, Priced(times))
      BY <2>6 DEF ReadOption
    <3> HIDE DEF Priced
    <3>4. requests' \in [Clients -> Request] /\ RequestsOK'
      BY <3>3, <3>5, AdvanceType, RejectType
    <3> QED BY <3>4, <2>6, <1>0 DEF ReadOption, TypeOK, room, catalogue
  <2>7. CASE ReadCurrent(c)
    <3> DEFINE n == [r EXCEPT !.at = "write", !.claim = Claims(r)]
    <3>1. Claims(r) \in BOOLEAN /\ (Claims(r) => r.status = "IN_PROGRESS")
      BY DEF Claims
    <3>2. r.op = "update"
      BY <2>0, <2>7 DEF ReadCurrent, RequestOK, Request
    <3>3. n \in Request /\ RequestOK(n)
      BY <2>0, <2>7, <3>1, <3>2 DEF ReadCurrent, Request, RequestOK
    <3>4. requests' \in [Clients -> Request] /\ RequestsOK'
      BY <2>7, <3>3, AdvanceType DEF ReadCurrent
    <3> QED BY <3>4, <2>7, <1>0 DEF ReadCurrent, TypeOK, room, catalogue
  <2>8. CASE InsertOrder(c)
    <3>1. NewOrder(r) \in Order
      BY <2>0, <2>8, LineOfLine, NewOrderOrder DEF InsertOrder, RequestOK
    <3>2. orders' \in [OrderIds -> Order]
      BY <2>8, <3>1 DEF InsertOrder, TypeOK
    <3> QED BY <3>2, <2>8, <1>0, RejectType DEF InsertOrder, TypeOK, room, catalogue
  <2>9. CASE AppendItems(c)
    <3>1. r.order \in OrderIds /\ Appended(orders[r.order], r) \in Order
      BY <2>0, <2>9, LineOfLine, AppendedOrder DEF AppendItems, RequestOK, TypeOK
    <3>2. orders' \in [OrderIds -> Order]
      BY <2>9, <3>1 DEF AppendItems, TypeOK
    <3> QED BY <3>2, <2>9, <1>0, RejectType DEF AppendItems, TypeOK, room, catalogue
  <2>10. CASE WriteUpdate(c)
    <3>1. r.order \in OrderIds /\ Updated(orders[r.order], r) \in Order
      BY <2>0, <2>10, UpdatedOrder DEF WriteUpdate, RequestOK, TypeOK
    <3>2. orders' \in [OrderIds -> Order]
      BY <2>10, <3>1 DEF WriteUpdate, TypeOK
    <3> QED BY <3>2, <2>10, <1>0, RejectType DEF WriteUpdate, TypeOK, room, catalogue
  <2>11. CASE Abort(c)
    BY <2>11, <1>0, RejectType DEF Abort, TypeOK, room, catalogue
  <2> QED BY <1>1, <2>1, <2>2, <2>3, <2>4, <2>5, <2>6, <2>7, <2>8, <2>9, <2>10, <2>11
          DEF RequestStep
<1>2. ASSUME NEW o \in OrderIds, OrderStep(o) PROVE TypeOK' /\ RequestsOK'
  <2>1. [orders[o] EXCEPT !.status = "CANCELED"] \in Order
    BY DEF TypeOK, Order, OrderStatus
  <2>2. orders' \in [OrderIds -> Order]
    BY <2>1, <1>2, BlankOrder DEF OrderStep, DeleteOrder, VoidOrder, TypeOK
  <2> QED BY <2>2, <1>2, <1>0
          DEF OrderStep, DeleteOrder, VoidOrder, TypeOK, RequestsOK, room, catalogue
<1>3. ASSUME NEW t \in Tables, TableStep(t) PROVE TypeOK' /\ RequestsOK'
  <2>1. orders' \in [OrderIds -> Order]
    BY <1>3, BlankOrder DEF TableStep, CreateTable, UpdateTable, DeleteTable, TypeOK
  <2>2. tables' \in [Tables -> TableStates]
    BY <1>3 DEF TableStep, CreateTable, UpdateTable, DeleteTable, TypeOK, TableStates, ThereIn
  <2> QED BY <2>1, <2>2, <1>3, <1>0
          DEF TableStep, CreateTable, UpdateTable, DeleteTable, TypeOK, RequestsOK, catalogue
<1>4. CASE CatalogueStep
  <2>1. /\ dishes' \in [Dishes -> [there : BOOLEAN, isAvailable : BOOLEAN, price : Prices]]
        /\ options' \in [Options -> [there : BOOLEAN, price : Prices]]
    BY <1>4 DEF CatalogueStep, UpdateDish, DeleteDish, UpdateOption, DeleteOption, TypeOK
  <2> QED BY <2>1, <1>4
          DEF CatalogueStep, UpdateDish, DeleteDish, UpdateOption, DeleteOption, TypeOK,
              RequestsOK, room
<1>5. ASSUME NEW w \in Waiters, DeleteStaff(w) PROVE TypeOK' /\ RequestsOK'
  <2>1. orders' \in [OrderIds -> Order]
    BY <1>5 DEF DeleteStaff, TypeOK, Order
  <2> QED BY <2>1, <1>5, <1>0 DEF DeleteStaff, TypeOK, RequestsOK, catalogue
<1>6. CASE UNCHANGED vars
  BY <1>6 DEF vars, room, catalogue, TypeOK, RequestsOK
<1> QED BY <1>1, <1>2, <1>3, <1>4, <1>5, <1>6 DEF Next

-------------------------------------------------------------------------------
(* Referential integrity.                                                   *)

\* Steps that leave rows, orders and what they point to alone.
LEMMA ReferencesUnchanged ==
  ASSUME References, UNCHANGED <<room, catalogue, orders>> PROVE References'
  BY DEF References, room, catalogue, TableThere, ItemsThere

\* A step that leaves the referenced rows alone keeps References if each order
\* it changes ends up pointing to existing rows.
LEMMA ReferencesOneOrder ==
  ASSUME TypeOK, References, UNCHANGED <<room, catalogue>>,
         NEW o \in OrderIds, NEW order, orders' = [orders EXCEPT ![o] = order],
         TableThere(order.table), order.waiter \in staff \union {NoWaiter},
         \A i \in DOMAIN order.items : ItemsThere(order.items[i])
  PROVE  References'
<1> SUFFICES ASSUME NEW p \in OrderIds
             PROVE  /\ TableThere(orders'[p].table)
                    /\ orders'[p].waiter \in staff \union {NoWaiter}
                    /\ \A i \in DOMAIN orders'[p].items : ItemsThere(orders'[p].items[i])
  BY DEF References, room, catalogue, TableThere, ItemsThere
<1>1. orders'[p] = IF p = o THEN order ELSE orders[p]
  BY DEF TypeOK
<1> QED BY <1>1 DEF References

LEMMA BlankPointsNowhere ==
  ASSUME NEW life
  PROVE  /\ Blank(life).table = NoTable /\ Blank(life).waiter = NoWaiter
         /\ DOMAIN Blank(life).items = {} /\ Blank(life).status \notin Closed
  BY DEF Blank, Closed

LEMMA ReferencesStep == Inv /\ [Next]_vars => References'
<1> SUFFICES ASSUME Inv, [Next]_vars PROVE References'
  OBVIOUS
<1> USE DEF Inv
<1>1. ASSUME NEW c \in Clients, RequestStep(c) PROVE References'
  <2> DEFINE r == requests[c]
  <2>0. r \in Request /\ RequestOK(r)
    BY DEF TypeOK, RequestsOK
  <2>1. CASE UNCHANGED <<room, catalogue, orders>>
    BY <2>1, ReferencesUnchanged
  <2>2. CASE InsertOrder(c) /\ orders' # orders
    <3>1. PICK o \in OrderIds : orders' = [orders EXCEPT ![o] = NewOrder(r)]
      BY <2>2 DEF InsertOrder
    <3>2. TableThere(r.table) /\ ItemsThere(r) /\ UNCHANGED <<room, catalogue>>
      BY <2>2 DEF InsertOrder
    <3>3. /\ NewOrder(r).table = r.table /\ NewOrder(r).waiter = NoWaiter
          /\ NewOrder(r).items = <<LineOf(r)>>
      BY DEF NewOrder, Blank
    <3>4. \A i \in DOMAIN <<LineOf(r)>> : ItemsThere(<<LineOf(r)>>[i])
      BY <3>2 DEF ItemsThere, LineOf
    <3> HIDE DEF r
    <3> QED BY <3>1, <3>2, <3>3, <3>4, ReferencesOneOrder
  <2>3. CASE AppendItems(c) /\ orders' # orders
    <3> DEFINE o == r.order
               order == Appended(orders[o], r)
    <3>1. o \in OrderIds
      BY <2>0, <2>3 DEF AppendItems, RequestOK
    <3>2. /\ orders' = [orders EXCEPT ![o] = order]
          /\ ItemsThere(r) /\ UNCHANGED <<room, catalogue>>
      BY <2>3 DEF AppendItems
    <3>3. orders[o] \in Order
      BY <3>1 DEF TypeOK
    <3>4. /\ order.table = orders[o].table /\ order.waiter = orders[o].waiter
          /\ order.items = Append(orders[o].items, LineOf(r))
      BY <3>3 DEF Appended, Order
    <3>5. TableThere(order.table) /\ order.waiter \in staff \union {NoWaiter}
      BY <3>1, <3>4 DEF References
    <3>6. \A i \in DOMAIN order.items : ItemsThere(order.items[i])
      <4>1. SUFFICES ASSUME NEW i \in DOMAIN Append(orders[o].items, LineOf(r))
                     PROVE  ItemsThere(Append(orders[o].items, LineOf(r))[i])
        BY <3>4
      <4>2. orders[o].items \in Seq(Line)
        BY <3>3 DEF Order
      <4>3. CASE i \in DOMAIN orders[o].items
        <5>1. Append(orders[o].items, LineOf(r))[i] = orders[o].items[i]
          BY <4>2, <4>3
        <5> QED BY <5>1, <3>1, <4>3 DEF References
      <4>4. CASE i \notin DOMAIN orders[o].items
        <5>1. Append(orders[o].items, LineOf(r))[i] = LineOf(r)
          BY <4>1, <4>2, <4>4
        <5>2. ItemsThere(LineOf(r))
          BY <3>2 DEF ItemsThere, LineOf
        <5> QED BY <5>1, <5>2
      <4> QED BY <4>3, <4>4
    <3> HIDE DEF order, o
    <3> QED BY <3>1, <3>2, <3>5, <3>6, ReferencesOneOrder
  <2>4. CASE WriteUpdate(c) /\ orders' # orders
    <3> DEFINE o == r.order
               order == Updated(orders[o], r)
    <3>1. o \in OrderIds
      BY <2>0, <2>4 DEF WriteUpdate, RequestOK
    <3>2. /\ orders' = [orders EXCEPT ![o] = order]
          /\ r.table # Unchanged => TableThere(r.table)
          /\ r.claim => r.user \in staff
          /\ UNCHANGED <<room, catalogue>>
      BY <2>4 DEF WriteUpdate
    <3>3. orders[o] \in Order
      BY <3>1 DEF TypeOK
    <3>4. /\ order.table = IF r.table = Unchanged THEN orders[o].table ELSE r.table
          /\ order.waiter = IF r.claim THEN r.user ELSE orders[o].waiter
          /\ order.items = orders[o].items
      BY <3>3 DEF Updated, Order
    <3>5. /\ TableThere(order.table) /\ order.waiter \in staff \union {NoWaiter}
          /\ \A i \in DOMAIN order.items : ItemsThere(order.items[i])
      BY <3>1, <3>2, <3>4 DEF References
    <3> HIDE DEF order, o
    <3> QED BY <3>1, <3>2, <3>5, ReferencesOneOrder
  <2> QED BY <1>1, <2>1, <2>2, <2>3, <2>4
          DEF RequestStep, BeginCreate, BeginAppend, BeginUpdate, CheckTable, ReadDish,
              ReadOption, ReadCurrent, Abort, InsertOrder, AppendItems, WriteUpdate
<1>2. ASSUME NEW o \in OrderIds, OrderStep(o) PROVE References'
  <2>1. CASE DeleteOrder(o)
    BY <2>1, BlankPointsNowhere, ReferencesOneOrder DEF DeleteOrder, TableThere
  <2>2. CASE VoidOrder(o)
    <3> DEFINE order == [orders[o] EXCEPT !.status = "CANCELED"]
    <3>1. /\ order.table = orders[o].table /\ order.waiter = orders[o].waiter
          /\ order.items = orders[o].items
      BY DEF TypeOK, Order
    <3>2. orders' = [orders EXCEPT ![o] = order] /\ UNCHANGED <<room, catalogue>>
      BY <2>2 DEF VoidOrder
    <3> HIDE DEF order
    <3> QED BY <3>1, <3>2, ReferencesOneOrder DEF References
  <2> QED BY <1>2, <2>1, <2>2 DEF OrderStep
<1>3. ASSUME NEW t \in Tables, TableStep(t) PROVE References'
  <2>1. ASSUME NEW status \in ThereIn, CreateTable(t, status) \/ UpdateTable(t, status)
        PROVE  References'
    <3>1. \A u \in Tables \union {NoTable} : TableThere(u) => TableThere(u)'
      BY <2>1 DEF CreateTable, UpdateTable, TableThere, TypeOK
    <3>2. \A o \in OrderIds : orders[o].table \in Tables \union {NoTable}
      BY DEF TypeOK, Order
    <3> QED BY <2>1, <3>1, <3>2 DEF CreateTable, UpdateTable, References, catalogue, ItemsThere
  <2>2. CASE DeleteTable(t)
    <3> SUFFICES ASSUME NEW p \in OrderIds
                 PROVE  /\ TableThere(orders[p].table)'
                        /\ orders'[p].waiter \in staff' \union {NoWaiter}
                        /\ \A i \in DOMAIN orders'[p].items : ItemsThere(orders[p].items[i])'
      BY DEF References
    <3>1. CASE orders[p].table = t
      BY <2>2, <3>1, BlankPointsNowhere DEF DeleteTable, TableThere
    <3>2. CASE orders[p].table # t
      BY <2>2, <3>2 DEF DeleteTable, References, TableThere, ItemsThere, TypeOK, catalogue
    <3> QED BY <3>1, <3>2
  <2> QED BY <1>3, <2>1, <2>2 DEF TableStep
<1>4. CASE CatalogueStep
  <2>1. ASSUME NEW d \in Dishes, NEW a \in BOOLEAN, NEW price \in Prices, UpdateDish(d, a, price)
        PROVE  References'
    <3>1. \A x : dishes[x].there => dishes'[x].there
      BY <2>1 DEF UpdateDish, TypeOK
    <3> QED BY <2>1, <3>1 DEF UpdateDish, References, TableThere, ItemsThere, room
  <2>2. ASSUME NEW d \in Dishes, DeleteDish(d) PROVE References'
    <3>1. \A x : dishes[x].there /\ x # d => dishes'[x].there
      BY <2>2 DEF DeleteDish, TypeOK
    <3> QED BY <2>2, <3>1
            DEF DeleteDish, DishOrdered, References, TableThere, ItemsThere, room
  <2>3. ASSUME NEW m \in Options, NEW price \in Prices, UpdateOption(m, price)
        PROVE  References'
    <3>1. \A x : options[x].there => options'[x].there
      BY <2>3 DEF UpdateOption, TypeOK
    <3> QED BY <2>3, <3>1 DEF UpdateOption, References, TableThere, ItemsThere, room
  <2>4. ASSUME NEW m \in Options, DeleteOption(m) PROVE References'
    <3>1. \A x : options[x].there /\ x # m => options'[x].there
      BY <2>4 DEF DeleteOption, TypeOK
    <3> QED BY <2>4, <3>1
            DEF DeleteOption, OptionOrdered, References, TableThere, ItemsThere, room
  <2> QED BY <1>4, <2>1, <2>2, <2>3, <2>4 DEF CatalogueStep
<1>5. ASSUME NEW w \in Waiters, DeleteStaff(w) PROVE References'
  <2> SUFFICES ASSUME NEW p \in OrderIds
               PROVE  /\ TableThere(orders[p].table)'
                      /\ orders'[p].waiter \in staff' \union {NoWaiter}
                      /\ \A i \in DOMAIN orders'[p].items : ItemsThere(orders[p].items[i])'
    BY DEF References
  <2>1. orders'[p] = [orders[p] EXCEPT !.waiter = IF @ = w THEN NoWaiter ELSE @]
    BY <1>5 DEF DeleteStaff
  <2>2. /\ orders'[p].table = orders[p].table /\ orders'[p].items = orders[p].items
        /\ orders'[p].waiter = IF orders[p].waiter = w THEN NoWaiter ELSE orders[p].waiter
    BY <2>1 DEF TypeOK, Order
  <2> QED BY <1>5, <2>2 DEF DeleteStaff, References, TableThere, ItemsThere, catalogue
<1>6. CASE UNCHANGED vars
  BY <1>6, ReferencesUnchanged DEF vars
<1> QED BY <1>1, <1>2, <1>3, <1>4, <1>5, <1>6 DEF Next

-------------------------------------------------------------------------------
(* Overtaken handlers.                                                      *)

\* Only live orders get closed by the step.
ClosesLive ==
  \A o \in OrderIds : orders'[o].status \in Closed => Live(o) \/ orders[o].status \in Closed

\* A handler that goes on with its order, or merely sees others act on it.
LEMMA OvertakenKept ==
  ASSUME Inv, NoteOvertaken, ClosesLive, NEW d \in Clients,
         requests'[d].op = requests[d].op, requests'[d].order = requests[d].order,
         requests'[d].claim => requests[d].claim,
         requests'[d].op # "none" => requests'[d].at # "idle"
  PROVE  OvertakenAt(d)'
<1> DEFINE r == requests[d]
           o == r.order
<1>0. r \in Request /\ RequestOK(r)
  BY DEF Inv, TypeOK, RequestsOK
<1>1. ASSUME r.op = "append", orders'[o].status \in Closed PROVE d \in overtaken'
  <2>1. o \in OrderIds
    BY <1>0, <1>1 DEF RequestOK
  <2>2. CASE orders[o].status \in Closed
    BY <1>1, <2>2 DEF Inv, OvertakenOK, OvertakenAt, NoteOvertaken
  <2>3. CASE orders[o].status \notin Closed
    BY <1>1, <2>1, <2>3 DEF ClosesLive, NoteOvertaken, Overtakes, Open
  <2> QED BY <2>2, <2>3
<1>2. ASSUME r.op = "update", r.claim, orders'[o].waiter # NoWaiter PROVE d \in overtaken'
  <2>1. o \in OrderIds
    BY <1>0, <1>2 DEF RequestOK
  <2>2. CASE orders[o].waiter # NoWaiter
    BY <1>2, <2>2 DEF Inv, OvertakenOK, OvertakenAt, NoteOvertaken
  <2>3. CASE orders[o].waiter = NoWaiter
    BY <1>2, <2>1, <2>3 DEF NoteOvertaken, Overtakes
  <2> QED BY <2>2, <2>3
<1> QED BY <1>1, <1>2 DEF OvertakenAt

LEMMA OvertakenIdle ==
  ASSUME NEW d, requests'[d] = Idle PROVE OvertakenAt(d)'
  BY DEF OvertakenAt, Idle

LEMMA OvertakenStep == Inv /\ [Next]_vars => OvertakenOK'
<1> SUFFICES ASSUME Inv, [Next]_vars PROVE OvertakenOK'
  OBVIOUS
<1>0. /\ orders \in [OrderIds -> Order] /\ requests \in [Clients -> Request]
      /\ RequestsOK /\ OvertakenOK
  BY DEF Inv, TypeOK
<1>1. ASSUME NEW c \in Clients, RequestStep(c) PROVE OvertakenOK'
  <2> DEFINE r == requests[c]
  <2>1. NoteOvertaken
    BY <1>1 DEF RequestStep, BeginCreate, BeginAppend, BeginUpdate, CheckTable, ReadDish,
                ReadOption, ReadCurrent, Abort, InsertOrder, AppendItems, WriteUpdate
  <2>2. ClosesLive
    <3>1. CASE UNCHANGED orders
      BY <3>1 DEF ClosesLive
    <3>2. CASE InsertOrder(c) /\ orders' # orders
      <4>1. PICK o \in OrderIds : orders' = [orders EXCEPT ![o] = NewOrder(r)]
        BY <3>2 DEF InsertOrder
      <4>2. NewOrder(r).status \notin Closed
        BY DEF NewOrder, Blank, Closed
      <4> HIDE DEF r
      <4> QED BY <4>1, <4>2, <1>0 DEF ClosesLive
    <3>3. CASE AppendItems(c) /\ orders' # orders
      BY <3>3, <1>0 DEF AppendItems, ClosesLive
    <3>4. CASE WriteUpdate(c) /\ orders' # orders
      BY <3>4, <1>0 DEF WriteUpdate, ClosesLive
    <3> QED BY <1>1, <3>1, <3>2, <3>3, <3>4
            DEF RequestStep, BeginCreate, BeginAppend, BeginUpdate, CheckTable, ReadDish,
                ReadOption, ReadCurrent, Abort, InsertOrder, AppendItems, WriteUpdate
  <2>3. ASSUME NEW d \in Clients, d # c PROVE OvertakenAt(d)'
    <3>1. requests'[d] = requests[d]
      BY <1>0, <1>1, <2>3 DEF Advance, Reject, RequestStep, BeginCreate, BeginAppend,
         BeginUpdate, CheckTable, ReadDish, ReadOption, ReadCurrent, Abort, InsertOrder,
         AppendItems, WriteUpdate
    <3>2. requests[d].op # "none" => requests[d].at # "idle"
      BY <1>0 DEF RequestsOK, RequestOK, Request
    <3> QED BY <2>1, <2>2, <3>1, <3>2, OvertakenKept
  <2>4. OvertakenAt(c)'
    <3>1. CASE BeginCreate(c) \/ BeginUpdate(c)
      <4>1. CASE BeginCreate(c)
        <5>1. requests'[c].op = "create"
          BY <4>1, <1>0 DEF BeginCreate, Advance, WithLine, Idle
        <5> QED BY <5>1 DEF OvertakenAt
      <4>2. CASE BeginUpdate(c)
        <5>1. requests'[c].op = "update" /\ requests'[c].claim = FALSE
          BY <4>2, <1>0 DEF BeginUpdate, Advance, Idle
        <5> QED BY <5>1 DEF OvertakenAt
      <4> QED BY <3>1, <4>1, <4>2
    <3>2. CASE BeginAppend(c)
      <4>1. PICK o \in OrderIds : /\ Open(o) /\ requests'[c].order = o
                                 /\ requests'[c].op = "append" /\ UNCHANGED orders
        BY <3>2, <1>0 DEF BeginAppend, Appendable, Advance, WithLine, Idle
      <4> QED BY <4>1 DEF OvertakenAt, Open
    <3>3. CASE CheckTable(c) \/ ReadDish(c) \/ ReadOption(c)
      <4>1. CASE requests'[c] = Idle
        BY <4>1, OvertakenIdle
      <4>2. CASE requests'[c] # Idle
        <5>1. /\ requests'[c].op = r.op /\ requests'[c].order = r.order
              /\ requests'[c].claim = r.claim /\ requests'[c].at # "idle"
          <6>1. CASE CheckTable(c)
            BY <6>1, <4>2, <1>0 DEF CheckTable, Advance, Reject, Request
          <6>2. CASE ReadDish(c)
            <7>1. requests'[c] = [r EXCEPT !.unitPrice = dishes[r.dish].price,
                                 !.at = IF r.option = NoOption THEN "write" ELSE "option"]
              BY <6>2, <4>2, <1>0 DEF ReadDish, Advance, Reject
            <7>2. r \in Request
              BY <1>0
            <7> HIDE DEF r
            <7> QED BY <7>1, <7>2 DEF Request
          <6>3. CASE ReadOption(c)
            <7>1. \E times \in Quantities :
                    requests'[c] = [r EXCEPT !.unitPrice = @ + options[r.option].price * times,
                                             !.at = "write"]
              BY <6>3, <4>2, <1>0 DEF ReadOption, Advance, Reject
            <7>2. r \in Request
              BY <1>0
            <7> HIDE DEF r
            <7> QED BY <7>1, <7>2 DEF Request
          <6> QED BY <3>3, <6>1, <6>2, <6>3
        <5> QED BY <5>1, <2>1, <2>2, OvertakenKept
      <4> QED BY <4>1, <4>2
    <3>4. CASE ReadCurrent(c)
      <4>1. /\ requests'[c].op = r.op /\ requests'[c].order = r.order
            /\ requests'[c].claim = Claims(r) /\ UNCHANGED orders
        BY <3>4, <1>0 DEF ReadCurrent, Advance, Request
      <4>2. r.op = "update"
        BY <3>4, <1>0 DEF ReadCurrent, RequestsOK, RequestOK, Request
      <4> QED BY <4>1, <4>2 DEF OvertakenAt, Claims
    <3>5. CASE InsertOrder(c) \/ AppendItems(c) \/ WriteUpdate(c) \/ Abort(c)
      <4>1. requests'[c] = Idle
        BY <3>5, <1>0 DEF InsertOrder, AppendItems, WriteUpdate, Abort, Reject, Advance
      <4> QED BY <4>1, OvertakenIdle
    <3> QED BY <1>1, <3>1, <3>2, <3>3, <3>4, <3>5 DEF RequestStep
  <2> QED BY <2>3, <2>4 DEF OvertakenOK
<1>2. ASSUME NoteOvertaken, ClosesLive, UNCHANGED requests PROVE OvertakenOK'
  <2> SUFFICES ASSUME NEW d \in Clients PROVE OvertakenAt(d)'
    BY DEF OvertakenOK
  <2>1. requests[d].op # "none" => requests[d].at # "idle"
    BY <1>0 DEF RequestsOK, RequestOK, Request
  <2> QED BY <1>2, <2>1, OvertakenKept
<1>3. ASSUME NEW o \in OrderIds, OrderStep(o) PROVE OvertakenOK'
  <2>1. ClosesLive
    BY <1>0, <1>3, BlankPointsNowhere DEF OrderStep, DeleteOrder, VoidOrder, ClosesLive
  <2> QED BY <1>2, <1>3, <2>1 DEF OrderStep, DeleteOrder, VoidOrder
<1>4. ASSUME NEW t \in Tables, DeleteTable(t) PROVE OvertakenOK'
  <2>1. ClosesLive
    BY <1>4, BlankPointsNowhere DEF DeleteTable, ClosesLive
  <2> QED BY <1>2, <1>4, <2>1 DEF DeleteTable
<1>5. ASSUME NEW w \in Waiters, DeleteStaff(w) PROVE OvertakenOK'
  <2>1. \A o \in OrderIds : orders'[o].status = orders[o].status
    BY <1>0, <1>5 DEF DeleteStaff, Order
  <2>2. ClosesLive
    BY <2>1 DEF ClosesLive
  <2> QED BY <1>2, <1>5, <2>2 DEF DeleteStaff
<1>6. CASE UNCHANGED <<orders, requests, overtaken>>
  BY <1>0, <1>6 DEF OvertakenOK, OvertakenAt
<1> QED BY <1>1, <1>3, <1>4, <1>5, <1>6
        DEF Next, TableStep, CreateTable, UpdateTable, CatalogueStep, UpdateDish, DeleteDish,
            UpdateOption, DeleteOption, vars

-------------------------------------------------------------------------------
(* The theorems.                                                            *)

LEMMA Invariance == Spec => []Inv
<1>1. Inv /\ [Next]_vars => Inv'
  BY TypeStep, ReferencesStep, OvertakenStep DEF Inv
<1> QED BY InitInv, <1>1, PTL DEF Spec

\* Every variable keeps to its type, whatever the handlers interleave with.
THEOREM TypeCorrect == Spec => []TypeOK
<1>1. Inv => TypeOK
  BY DEF Inv
<1> QED BY Invariance, <1>1, PTL

\* Orders never point to a table, waiter, dish or option that is gone.
THEOREM ReferentialIntegrity == Spec => []ReferencesExist
<1>1. Inv => ReferencesExist
  BY DEF Inv, References, ReferencesExist
<1> QED BY Invariance, <1>1, PTL

\* Only an append adds lines to an order that is and stays live.
LEMMA OnlyAppendsGrow ==
  ASSUME Inv, [Next]_vars, NEW o \in OrderIds, Live(o), orders'[o].life = "LIVE",
         orders'[o].items # orders[o].items
  PROVE  \E c \in Clients : AppendItems(c) /\ requests[c].order = o
<1>0. orders \in [OrderIds -> Order]
  BY DEF Inv, TypeOK
<1>1. ASSUME NEW c \in Clients, RequestStep(c)
      PROVE  AppendItems(c) /\ requests[c].order = o
  <2> DEFINE r == requests[c]
  <2>1. CASE InsertOrder(c)
    <3>1. PICK p \in OrderIds : orders[p].life = "UNUSED"
                              /\ orders' = [orders EXCEPT ![p] = NewOrder(r)]
      BY <2>1 DEF InsertOrder
    <3>2. p # o
      BY <3>1 DEF Live
    <3> QED BY <3>1, <3>2, <1>0
  <2>2. CASE AppendItems(c)
    BY <2>2, <1>0 DEF AppendItems
  <2>3. CASE WriteUpdate(c)
    <3>1. \A order \in Order : Updated(order, r).items = order.items
      BY DEF Updated, Order
    <3>2. orders'[o] \in {orders[o], Updated(orders[o], r)}
      BY <2>3, <1>0 DEF WriteUpdate
    <3> QED BY <3>1, <3>2, <1>0
  <2> QED BY <1>1, <2>1, <2>2, <2>3
          DEF RequestStep, BeginCreate, BeginAppend, BeginUpdate, CheckTable, ReadDish,
              ReadOption, ReadCurrent, Abort
<1>2. ASSUME NEW p \in OrderIds, OrderStep(p) PROVE FALSE
  <2>1. Blank("GONE").life # "LIVE" /\ [orders[p] EXCEPT !.status = "CANCELED"].items = orders[p].items
    BY <1>0 DEF Blank, Order
  <2> QED BY <1>0, <1>2, <2>1 DEF OrderStep, DeleteOrder, VoidOrder
<1>3. ASSUME NEW t \in Tables, DeleteTable(t) PROVE FALSE
  BY <1>0, <1>3 DEF DeleteTable, Blank
<1>4. ASSUME NEW w \in Waiters, DeleteStaff(w) PROVE FALSE
  BY <1>0, <1>4 DEF DeleteStaff, Order
<1>5. ~UNCHANGED orders
  OBVIOUS
<1> QED BY <1>1, <1>2, <1>3, <1>4, <1>5
        DEF Next, TableStep, CreateTable, UpdateTable, CatalogueStep, UpdateDish, DeleteDish,
            UpdateOption, DeleteOption, vars

\* A closed order is added to only by an append it was closed under.
THEOREM ClosedOrders == Spec => ClosedGrowsOnlyWhenOvertaken
<1> DEFINE Step ==
      \A o \in OrderIds :
        (/\ Live(o) /\ orders[o].status \in Closed
         /\ orders'[o].life = "LIVE" /\ orders'[o].items # orders[o].items)
        => \E c \in overtaken : /\ requests[c].op = "append" /\ requests[c].order = o
                                /\ requests'[c] = Idle
<1>1. Inv /\ [Next]_vars => Step
  <2> SUFFICES ASSUME Inv, [Next]_vars, NEW o \in OrderIds,
                      Live(o), orders[o].status \in Closed,
                      orders'[o].life = "LIVE", orders'[o].items # orders[o].items
               PROVE  \E c \in overtaken : /\ requests[c].op = "append" /\ requests[c].order = o
                                           /\ requests'[c] = Idle
    OBVIOUS
  <2>1. PICK c \in Clients : AppendItems(c) /\ requests[c].order = o
    BY OnlyAppendsGrow
  <2>2. requests[c].op = "append" /\ requests'[c] = Idle
    BY <2>1 DEF AppendItems, Reject, Advance, Inv, TypeOK
  <2>3. c \in overtaken
    BY <2>1, <2>2 DEF Inv, OvertakenOK, OvertakenAt
  <2> QED BY <2>1, <2>2, <2>3
<1>2. Inv /\ [Next]_vars => [Step]_vars
  BY <1>1
<1> QED BY Invariance, <1>2, PTL DEF Spec, ClosedGrowsOnlyWhenOvertaken

\* Only the commit of a claim gives an order from one waiter to another.
LEMMA OnlyClaimsReplace ==
  ASSUME Inv, [Next]_vars, NEW o \in OrderIds,
         orders'[o].waiter # NoWaiter, orders'[o].waiter # orders[o].waiter
  PROVE  \E c \in Clients : WriteUpdate(c) /\ requests[c].order = o /\ requests[c].claim
<1>0. orders \in [OrderIds -> Order]
  BY DEF Inv, TypeOK
<1>1. ASSUME NEW c \in Clients, RequestStep(c)
      PROVE  WriteUpdate(c) /\ requests[c].order = o /\ requests[c].claim
  <2> DEFINE r == requests[c]
  <2>1. CASE InsertOrder(c)
    <3>1. NewOrder(r).waiter = NoWaiter
      BY DEF NewOrder, Blank
    <3>2. orders'[o] \in {orders[o], NewOrder(r)}
      BY <2>1, <1>0 DEF InsertOrder
    <3> QED BY <3>1, <3>2
  <2>2. CASE AppendItems(c)
    <3>1. \A order \in Order : Appended(order, r).waiter = order.waiter
      BY DEF Appended, Order
    <3>2. orders'[o] \in {orders[o], Appended(orders[o], r)}
      BY <2>2, <1>0 DEF AppendItems
    <3> QED BY <3>1, <3>2, <1>0
  <2>3. CASE WriteUpdate(c)
    <3>1. \A order \in Order : ~r.claim => Updated(order, r).waiter = order.waiter
      BY DEF Updated, Order
    <3>2. r.order = o /\ orders'[o] = Updated(orders[o], r)
      BY <2>3, <1>0 DEF WriteUpdate
    <3> QED BY <2>3, <3>1, <3>2, <1>0
  <2> QED BY <1>1, <2>1, <2>2, <2>3
          DEF RequestStep, BeginCreate, BeginAppend, BeginUpdate, CheckTable, ReadDish,
              ReadOption, ReadCurrent, Abort
<1>2. ASSUME NEW p \in OrderIds, OrderStep(p) PROVE FALSE
  <2>1. [orders[p] EXCEPT !.status = "CANCELED"].waiter = orders[p].waiter
    BY <1>0 DEF Order
  <2> QED BY <1>0, <1>2, <2>1, BlankPointsNowhere DEF OrderStep, DeleteOrder, VoidOrder
<1>3. ASSUME NEW t \in Tables, DeleteTable(t) PROVE FALSE
  BY <1>0, <1>3, BlankPointsNowhere DEF DeleteTable
<1>4. ASSUME NEW w \in Waiters, DeleteStaff(w) PROVE FALSE
  BY <1>0, <1>4 DEF DeleteStaff, Order
<1>5. ~UNCHANGED orders
  OBVIOUS
<1> QED BY <1>1, <1>2, <1>3, <1>4, <1>5
        DEF Next, TableStep, CreateTable, UpdateTable, CatalogueStep, UpdateDish, DeleteDish,
            UpdateOption, DeleteOption, vars

\* A waiter loses an order only to a claim that raced with his.
THEOREM WaiterKept == Spec => WaiterReplacedOnlyWhenOvertaken
<1> DEFINE Step ==
      \A o \in OrderIds :
        (orders[o].waiter # NoWaiter /\ orders'[o].waiter \notin {NoWaiter, orders[o].waiter})
        => \E c \in overtaken : /\ requests[c].op = "update" /\ requests[c].order = o
                                /\ requests'[c] = Idle
<1>1. Inv /\ [Next]_vars => Step
  <2> SUFFICES ASSUME Inv, [Next]_vars, NEW o \in OrderIds, orders[o].waiter # NoWaiter,
                      orders'[o].waiter \notin {NoWaiter, orders[o].waiter}
               PROVE  \E c \in overtaken : /\ requests[c].op = "update" /\ requests[c].order = o
                                           /\ requests'[c] = Idle
    OBVIOUS
  <2>1. PICK c \in Clients : WriteUpdate(c) /\ requests[c].order = o /\ requests[c].claim
    BY OnlyClaimsReplace
  <2>2. requests[c].op = "update" /\ requests'[c] = Idle
    BY <2>1 DEF WriteUpdate, Reject, Advance, Inv, TypeOK
  <2>3. c \in overtaken
    BY <2>1, <2>2 DEF Inv, OvertakenOK, OvertakenAt
  <2> QED BY <2>1, <2>2, <2>3
<1>2. Inv /\ [Next]_vars => [Step]_vars
  BY <1>1
<1> QED BY Invariance, <1>2, PTL DEF Spec, WaiterReplacedOnlyWhenOvertaken

-------------------------------------------------------------------------------
(* Refinement: every step is an operation of the book, or leaves it alone.  *)

\* The book speaks of the same rows.
LEMMA SameRows ==
  /\ \A life : Book!Blank(life) = Blank(life)
  /\ \A line : Book!LineAmount(line) = LineAmount(line)
  /\ Book!Line = Line /\ Book!OrderTypes = OrderTypes /\ Book!OrderStatus = OrderStatus
  BY DEF Blank, Book!Blank, LineAmount, Book!LineAmount, Line, Book!Line, UnitPrices,
         Book!UnitPrices, OrderTypes, Book!OrderTypes, OrderStatus, Book!OrderStatus

LEMMA BookStep == Inv /\ [Next]_vars => [Book!Next]_orders
<1> SUFFICES ASSUME Inv, [Next]_vars, orders' # orders PROVE Book!Next
  OBVIOUS
<1>0. /\ orders \in [OrderIds -> Order] /\ requests \in [Clients -> Request] /\ RequestsOK
      /\ staff \subseteq Waiters
  BY DEF Inv, TypeOK
<1>1. ASSUME NEW c \in Clients, RequestStep(c) PROVE Book!Next
  <2> DEFINE r == requests[c]
             line == LineOf(r)
  <2>0. r \in Request /\ RequestOK(r)
    BY <1>0 DEF RequestsOK
  <2>1. CASE InsertOrder(c)
    <3>1. PICK o \in OrderIds : /\ orders[o].life = "UNUSED"
                               /\ orders' = [orders EXCEPT ![o] = NewOrder(r)]
      BY <2>1 DEF InsertOrder
    <3>2. /\ line \in Line /\ r.type \in OrderTypes /\ r.table \in Tables \union {NoTable}
          /\ r.type = "DINE_IN" => r.table # NoTable
      BY <2>0, <2>1, LineOfLine DEF InsertOrder, RequestOK, Request
    <3> HIDE DEF r
    <3>3. Book!Place(o)
      BY <3>1, <3>2, SameRows DEF Book!Place, NewOrder
    <3> QED BY <3>3 DEF Book!Next
  <2>2. CASE AppendItems(c)
    <3> DEFINE o == r.order
    <3>1. o \in OrderIds /\ line \in Line
      BY <2>0, <2>2, LineOfLine DEF AppendItems, RequestOK
    <3>2. Live(o) /\ orders' = [orders EXCEPT ![o] = Appended(orders[o], r)]
      BY <2>2 DEF AppendItems
    <3>3. orders' = [orders EXCEPT ![o] =
                       [orders[o] EXCEPT !.items = Append(orders[o].items, line),
                            !.totalAmount = orders[o].totalAmount + Book!LineAmount(line)]]
      BY <3>2, SameRows DEF Appended
    <3>4. line \in Book!Line /\ orders[o].life = "LIVE"
      BY <3>1, <3>2, SameRows DEF Live
    <3> HIDE DEF r, o, line
    <3>5. Book!Extend(o)
      BY <3>3, <3>4 DEF Book!Extend
    <3> QED BY <3>1, <3>5 DEF Book!Next
  <2>3. CASE WriteUpdate(c)
    <3> DEFINE o == r.order
    <3>1. o \in OrderIds /\ r.user \in Waiters /\ (r.claim => r.status = "IN_PROGRESS")
      BY <2>0, <2>3 DEF WriteUpdate, RequestOK
    <3>2. Live(o) /\ orders' = [orders EXCEPT ![o] = Updated(orders[o], r)]
      BY <2>3 DEF WriteUpdate
    <3> DEFINE status == IF r.status = Unchanged THEN orders[o].status ELSE r.status
               table == IF r.table = Unchanged THEN orders[o].table ELSE r.table
               waiter == IF r.claim THEN r.user ELSE orders[o].waiter
    <3>3. orders[o] \in Order
      BY <1>0, <3>1
    <3>4. /\ status \in OrderStatus /\ table \in Tables \union {NoTable}
          /\ waiter \in Waiters \union {NoWaiter}
          /\ waiter # orders[o].waiter => waiter # NoWaiter /\ status = "IN_PROGRESS"
      BY <2>0, <3>1, <3>3, NoneAssumption, SentinelAssumption DEF Request, Order, OrderStatus
    <3>5. orders' = [orders EXCEPT ![o] = [orders[o] EXCEPT !.status = status, !.table = table,
                                                           !.waiter = waiter]]
      BY <3>2 DEF Updated
    <3> HIDE DEF o, status, table, waiter
    <3>6. status \in Book!OrderStatus /\ orders[o].life = "LIVE"
      BY <3>2, <3>4, SameRows DEF Live
    <3>7. Book!Amend(o)
      BY <3>4, <3>5, <3>6 DEF Book!Amend
    <3> QED BY <3>1, <3>7 DEF Book!Next
  <2> QED BY <1>1, <2>1, <2>2, <2>3
          DEF RequestStep, BeginCreate, BeginAppend, BeginUpdate, CheckTable, ReadDish,
              ReadOption, ReadCurrent, Abort
<1>2. ASSUME NEW o \in OrderIds, OrderStep(o) PROVE Book!Next
  <2>1. CASE DeleteOrder(o)
    <3>1. Book!Remove(o)
      BY <2>1, SameRows DEF DeleteOrder, Live, Book!Remove
    <3> QED BY <3>1 DEF Book!Next
  <2>2. CASE VoidOrder(o)
    <3>1. orders[o] \in Order
      BY <1>0
    <3>2. /\ [orders[o] EXCEPT !.status = "CANCELED"]
               = [orders[o] EXCEPT !.status = "CANCELED", !.table = orders[o].table,
                                   !.waiter = orders[o].waiter]
          /\ orders[o].table \in Tables \union {NoTable}
          /\ orders[o].waiter \in Waiters \union {NoWaiter}
          /\ "CANCELED" \in Book!OrderStatus
      BY <3>1, SameRows DEF Order, OrderStatus
    <3>3. /\ orders[o].life = "LIVE"
          /\ orders' = [orders EXCEPT ![o] =
                          [orders[o] EXCEPT !.status = "CANCELED", !.table = orders[o].table,
                                            !.waiter = orders[o].waiter]]
      BY <2>2, <3>2 DEF VoidOrder, Live
    <3>4. Book!Amend(o)
      BY <3>2, <3>3 DEF Book!Amend
    <3> QED BY <3>4 DEF Book!Next
  <2> QED BY <1>2, <2>1, <2>2 DEF OrderStep
<1>3. ASSUME NEW t \in Tables, DeleteTable(t) PROVE Book!Next
  BY <1>3, SameRows DEF DeleteTable, Book!ClearTable, Book!Next
<1>4. ASSUME NEW w \in Waiters, DeleteStaff(w) PROVE Book!Next
  BY <1>4 DEF DeleteStaff, Book!ReleaseWaiter, Book!Next
<1> QED BY <1>1, <1>2, <1>3, <1>4
        DEF Next, TableStep, CreateTable, UpdateTable, CatalogueStep, UpdateDish, DeleteDish,
            UpdateOption, DeleteOption, vars

\* The concurrent handlers implement the atomic book of orders.
THEOREM Refinement == Spec => ImplementsOrderBook
<1>1. Init => Book!Init
  BY SameRows DEF Init, Book!Init
<1>2. Inv /\ [Next]_vars => [Book!Next]_orders
  BY BookStep
<1> QED BY Invariance, <1>1, <1>2, PTL DEF Spec, ImplementsOrderBook, Book!Spec

-------------------------------------------------------------------------------
(* The revenue chart: when a bar shows its own day, when it does not, and   *)
(* which days have a bar.                                                   *)

\* Of days less than a year apart, each is kept under its own date.
LEMMA KeptIsItself ==
  ASSUME NEW rows, NEW date, IsCalendar(date),
         NEW from \in Int, NEW to \in Int, to - from < 365, AreRows(rows, from, to),
         NEW d \in from .. to, NEW e, IsKept(rows, date, date[d], e)
  PROVE  e = d
  BY DEF IsCalendar, AreRows, IsKept

\* A bar shows the revenue of its own day (analytics.service.ts:92-120) as long as
\* the range the rows are of, with the days of the bars, is shorter than a year.
THEOREM BarShowsItsDay ==
  ASSUME NEW rows, NEW date, IsCalendar(date),
         NEW from \in Int, NEW to \in Int, to - from < 365, AreRows(rows, from, to),
         NEW start \in Int, NEW end \in Int, NEW last \in Int,
         BarDays(start, end, last) \subseteq from .. to
  PROVE  \A d \in BarDays(start, end, last) :
           ChartData(rows, date, start, end, last)[d] = Revenue(rows, d)
<1> SUFFICES ASSUME NEW d \in BarDays(start, end, last)
             PROVE  Looked(rows, date, date[d]) = Revenue(rows, d)
  BY DEF ChartData
<1>0. d \in from .. to
  OBVIOUS
<1>1. CASE d \in DOMAIN rows
  <2>1. IsKept(rows, date, date[d], d)
    <3> SUFFICES ASSUME NEW e \in DOMAIN rows, date[e] = date[d]
                 PROVE  e <= d
      BY <1>1 DEF IsKept
    <3> QED
      BY <1>0 DEF IsCalendar, AreRows
  <2>2. (CHOOSE e \in DOMAIN rows : IsKept(rows, date, date[d], e)) = d
    <3> DEFINE kept == CHOOSE e \in DOMAIN rows : IsKept(rows, date, date[d], e)
    <3>1. IsKept(rows, date, date[d], kept)
      BY <1>1, <2>1
    <3> HIDE DEF kept
    <3>2. kept = d
      BY <3>1, <1>0, KeptIsItself
    <3> QED
      BY <3>2 DEF kept
  <2> QED
    BY <1>1, <2>1, <2>2 DEF Looked, Revenue
<1>2. CASE d \notin DOMAIN rows
  <2>1. ASSUME NEW e \in DOMAIN rows, IsKept(rows, date, date[d], e)
        PROVE  FALSE
    <3>1. e = d
      BY <1>0, <2>1, KeptIsItself
    <3> QED
      BY <3>1, <1>2
  <2> QED
    BY <1>2, <2>1 DEF Looked, Revenue
<1> QED
  BY <1>1, <1>2

\* In a longer range it may not: a day with no orders whose date had some in an
\* earlier year shows the revenue of the latest of those.
LEMMA BarShowsEarlierYear ==
  ASSUME NEW rows, NEW date,
         NEW d \in Int, d \notin DOMAIN rows,
         NEW e \in DOMAIN rows, IsKept(rows, date, date[d], e), DOMAIN rows \subseteq Int
  PROVE  /\ Looked(rows, date, date[d]) = rows[e]
         /\ Revenue(rows, d) = 0
<1>1. \A f \in DOMAIN rows : IsKept(rows, date, date[d], f) => f = e
  BY DEF IsKept
<1>2. (CHOOSE f \in DOMAIN rows : IsKept(rows, date, date[d], f)) = e
  BY <1>1
<1> QED
  BY <1>2 DEF Looked, Revenue

\* Every day of a range of whole days of at most MaxBars has a bar, and no other
\* day has one, on a server whose clock is UTC (so that `last` is the day of `end`).
THEOREM WholeDaysHaveBars ==
  ASSUME NEW first \in Int, NEW last \in Int, first <= last, last - first < MaxBars
  PROVE  BarDays(first * DayLength, (last + 1) * DayLength - 1, last) = first .. last
<1> DEFINE start == first * DayLength
           end == (last + 1) * DayLength - 1
<1>1. end - start = (last - first + 1) * DayLength - 1 /\ end >= start
  BY DEF DayLength
<1>2. CeilDays(end - start) = last - first + 1
  BY <1>1 DEF CeilDays, DayLength
<1>3. BarCount(start, end) = last - first + 1
  BY <1>1, <1>2 DEF BarCount, MaxBars
<1> QED
  BY <1>3 DEF BarDays
===============================================================================
