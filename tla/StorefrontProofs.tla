--------------------------- MODULE StorefrontProofs ---------------------------
(***************************************************************************)
(* Theorems about the shop that customers see: the cart and the checkout,  *)
(* the search and the account pages, for any products, shoppers, queries   *)
(* and any number of requests, visits, orders and addresses.               *)
(***************************************************************************)
EXTENDS Storefront, FiniteSetTheorems, FunctionTheorems, TLAPS

-----------------------------------------------------------------------------
(* Lines and their units.                                                  *)

\* The units of a line are as many as its quantity says.
LEMMA UnitsOfALine ==
  ASSUME NEW i, i.qty \in Nat
  PROVE  IsFiniteSet({i} \X (1..i.qty)) /\ Cardinality({i} \X (1..i.qty)) = i.qty
<1>1. IsFiniteSet({i}) /\ Cardinality({i}) = 1
  BY FS_Singleton
<1>2. IsFiniteSet(1..i.qty) /\ Cardinality(1..i.qty) = i.qty
  <2> DEFINE n == i.qty
  <2>1. n \in Nat
    OBVIOUS
  <2> HIDE DEF n
  <2>2. IsFiniteSet(1..n) /\ Cardinality(1..n) = n
    BY <2>1, FS_Interval
  <2> QED
    BY <2>2 DEF n
<1>3. /\ IsFiniteSet({i} \X (1..i.qty))
      /\ Cardinality({i} \X (1..i.qty)) = Cardinality({i}) * Cardinality(1..i.qty)
  BY <1>1, <1>2, FS_Product
<1> QED
  BY <1>1, <1>2, <1>3

LEMMA NoUnits == UnitsOf({}) = {} /\ Units({}) = 0
<1>1. UnitsOf({}) = {}
  BY DEF UnitsOf
<1> QED
  BY <1>1, FS_EmptySet DEF Units

\* Finitely many lines have finitely many units.
LEMMA UnitsAreFinite ==
  ASSUME NEW S, IsFiniteSet(S), \A i \in S : i.qty \in Nat
  PROVE  IsFiniteSet(UnitsOf(S)) /\ Units(S) \in Nat
<1> DEFINE T == {{i} \X (1..i.qty) : i \in S}
           f == [i \in S |-> {i} \X (1..i.qty)]
<1>1. f \in Surjection(S, T)
  BY Fun_IsSurj
<1>2. IsFiniteSet(T)
  BY <1>1, FS_Surjection
<1>3. \A U \in T : IsFiniteSet(U)
  BY UnitsOfALine
<1>4. IsFiniteSet(UNION T)
  BY <1>2, <1>3, FS_UNION
<1> QED
  BY <1>4, FS_CardinalityType DEF UnitsOf, Units

\* A line more is its units more.
LEMMA OneLineMore ==
  ASSUME NEW S, IsFiniteSet(S), \A i \in S : i.qty \in Nat,
         NEW j, j \notin S, j.qty \in Nat
  PROVE  Units(S \cup {j}) = Units(S) + j.qty /\ Units(S) \in Nat
<1> DEFINE new == {j} \X (1..j.qty)
<1>1. UnitsOf(S \cup {j}) = UnitsOf(S) \cup new /\ UnitsOf(S) \cap new = {}
  BY DEF UnitsOf
<1>2. IsFiniteSet(UnitsOf(S)) /\ Units(S) \in Nat
  BY UnitsAreFinite
<1>3. IsFiniteSet(new) /\ Cardinality(new) = j.qty
  BY UnitsOfALine
<1> HIDE DEF new
<1>4. Cardinality(UnitsOf(S) \cup new) =
        Cardinality(UnitsOf(S)) + Cardinality(new) - Cardinality(UnitsOf(S) \cap new)
  BY <1>2, <1>3, FS_Union
<1>5. Cardinality(UnitsOf(S) \cap new) = 0
  BY <1>1, FS_EmptySet
<1>6. Units(S \cup {j}) = Cardinality(UnitsOf(S) \cup new) /\ Units(S) = Cardinality(UnitsOf(S))
  BY <1>1 DEF Units
<1>7. ASSUME NEW a, NEW b \in Nat, NEW c \in Nat, a = b + c - 0 PROVE a = b + c
  BY <1>7
<1> QED
  BY <1>2, <1>3, <1>4, <1>5, <1>6, <1>7

\* A line less is its units less.
LEMMA OneLineLess ==
  ASSUME NEW S, IsFiniteSet(S), \A i \in S : i.qty \in Nat, NEW j \in S
  PROVE  /\ Units(S) = Units(S \ {j}) + j.qty /\ Units(S \ {j}) \in Nat
         /\ IsFiniteSet(S \ {j})
<1> DEFINE R == S \ {j}
<1>1. IsFiniteSet(R) /\ j \notin R /\ \A i \in R : i.qty \in Nat
  BY FS_RemoveElement
<1>2. S = R \cup {j}
  OBVIOUS
<1> HIDE DEF R
<1>3. Units(R \cup {j}) = Units(R) + j.qty /\ Units(R) \in Nat
  BY <1>1, OneLineMore
<1> QED
  BY <1>1, <1>2, <1>3 DEF R

\* A line is changed.
LEMMA OneLineChanged ==
  ASSUME NEW S, IsFiniteSet(S), \A i \in S : i.qty \in Nat, NEW j \in S,
         NEW k, k \notin S \ {j}, k.qty \in Nat
  PROVE  /\ Units((S \ {j}) \cup {k}) = Units(S) - j.qty + k.qty
         /\ IsFiniteSet((S \ {j}) \cup {k}) /\ Units(S) \in Nat
<1>1. /\ Units(S) = Units(S \ {j}) + j.qty /\ Units(S \ {j}) \in Nat
      /\ IsFiniteSet(S \ {j})
  BY OneLineLess
<1>2. IsFiniteSet((S \ {j}) \cup {k})
  BY <1>1, FS_AddElement
<1>3. Units((S \ {j}) \cup {k}) = Units(S \ {j}) + k.qty
  BY <1>1, OneLineMore
<1> QED
  BY <1>1, <1>2, <1>3

OnePerProduct(lines) == \A i, j \in lines : i.product = j.product => i = j

\* Lines that tally, one per product, have the units that are wanted.
LEMMA TallyIn ==
  ASSUME NEW S, NEW w \in [Products -> Nat], OnePerProduct(S), Tally(S, w),
         NEW p \in Products
  PROVE  UnitsIn(S, p) = w[p]
<1> DEFINE T == {i \in S : i.product = p}
<1>1. CASE T = {}
  <2>1. w[p] = 0
    BY <1>1 DEF Tally
  <2> QED
    BY <1>1, <2>1, NoUnits DEF UnitsIn
<1>2. CASE T # {}
  <2>1. PICK i \in T : T = {i}
    BY <1>2 DEF OnePerProduct
  <2>2. i.qty = w[p] /\ i.qty \in Nat
    BY <2>1 DEF Tally
  <2>3. UnitsOf({i}) = {i} \X (1..i.qty)
    BY DEF UnitsOf
  <2>4. Units(T) = w[p]
    BY <2>1, <2>2, <2>3, UnitsOfALine DEF Units
  <2> QED
    BY <2>4 DEF UnitsIn
<1> QED
  BY <1>1, <1>2

LinesFor(w) == {[product |-> p, qty |-> w[p]] : p \in Products}

LEMMA LinesForAreFinite ==
  ASSUME NEW w \in [Products -> Nat]
  PROVE  /\ IsFiniteSet(LinesFor(w)) /\ \A i \in LinesFor(w) : i.qty \in Nat
         /\ IsFiniteSet(UnitsOf(LinesFor(w))) /\ Units(LinesFor(w)) \in Nat
<1> DEFINE f == [p \in Products |-> [product |-> p, qty |-> w[p]]]
<1>1. f \in Surjection(Products, LinesFor(w))
  BY Fun_IsSurj DEF LinesFor
<1>2. IsFiniteSet(LinesFor(w))
  BY <1>1, FS_Surjection, CartAssumption
<1>3. \A i \in LinesFor(w) : i.qty \in Nat
  BY DEF LinesFor
<1> QED
  BY <1>2, <1>3, UnitsAreFinite

\* ... and in total.
LEMMA TallyTotal ==
  ASSUME NEW S, NEW w \in [Products -> Nat], OnePerProduct(S), Tally(S, w),
         \A i \in S : i.product \in Products
  PROVE  Units(S) = Units(LinesFor(w)) /\ IsFiniteSet(S)
<1> DEFINE A == UnitsOf(LinesFor(w))
           B == UnitsOf(S)
           line(p) == CHOOSE i \in S : i.product = p
           f == [u \in A |-> <<line(u[1].product), u[2]>>]
<1>1. \A u : u \in A <=> \E p \in Products : \E n \in 1..w[p] :
                            u = <<[product |-> p, qty |-> w[p]], n>>
  BY DEF UnitsOf, LinesFor
<1>2. \A u : u \in B <=> \E i \in S : \E n \in 1..w[i.product] : u = <<i, n>>
  BY DEF UnitsOf, Tally
<1>3. \A p \in Products : w[p] # 0 => line(p) \in S /\ line(p).product = p
  BY DEF Tally
<1>4. \A i \in S : line(i.product) = i
  BY DEF OnePerProduct
<1> HIDE DEF A, B, line
<1>5. \A p \in Products : \A n \in 1..w[p] :
         <<[product |-> p, qty |-> w[p]], n>> \in A
         /\ f[<<[product |-> p, qty |-> w[p]], n>>] = <<line(p), n>>
  BY <1>1
<1>6. f \in [A -> B]
  <2> SUFFICES ASSUME NEW u \in A PROVE f[u] \in B
    OBVIOUS
  <2>1. PICK p \in Products : \E n \in 1..w[p] : u = <<[product |-> p, qty |-> w[p]], n>>
    BY <1>1
  <2>2. PICK n \in 1..w[p] : u = <<[product |-> p, qty |-> w[p]], n>>
    BY <2>1
  <2>3. f[u] = <<line(p), n>>
    BY <1>5, <2>2
  <2>4. line(p) \in S /\ line(p).product = p
    BY <1>3, <2>2
  <2> QED
    BY <1>2, <2>2, <2>3, <2>4
<1>7. ASSUME NEW u \in A, NEW v \in A, f[u] = f[v] PROVE u = v
  <2>1. PICK p \in Products : \E n \in 1..w[p] : u = <<[product |-> p, qty |-> w[p]], n>>
    BY <1>1
  <2>2. PICK n \in 1..w[p] : u = <<[product |-> p, qty |-> w[p]], n>>
    BY <2>1
  <2>3. PICK q \in Products : \E m \in 1..w[q] : v = <<[product |-> q, qty |-> w[q]], m>>
    BY <1>1
  <2>4. PICK m \in 1..w[q] : v = <<[product |-> q, qty |-> w[q]], m>>
    BY <2>3
  <2>5. <<line(p), n>> = <<line(q), m>>
    BY <1>5, <1>7, <2>2, <2>4
  <2>6. w[p] # 0 /\ w[q] # 0
    BY <2>2, <2>4
  <2>7. p = q /\ n = m
    BY <1>3, <2>5, <2>6
  <2> QED
    BY <2>2, <2>4, <2>7
<1>8. ASSUME NEW v \in B PROVE \E u \in A : f[u] = v
  <2>1. PICK i \in S : \E n \in 1..w[i.product] : v = <<i, n>>
    BY <1>2
  <2>2. PICK n \in 1..w[i.product] : v = <<i, n>>
    BY <2>1
  <2>3. i.product \in Products /\ line(i.product) = i
    BY <1>4
  <2> QED
    BY <1>5, <2>2, <2>3
<1>9. f \in Bijection(A, B)
  <2> HIDE DEF f
  <2> QED
    BY <1>6, <1>7, <1>8, Fun_IsBij
<1>10. ExistsBijection(A, B)
  BY <1>9 DEF ExistsBijection
<1>11. Cardinality(B) = Cardinality(A)
  BY <1>10, FS_Bijection, LinesForAreFinite DEF A
<1>12. IsFiniteSet(S)
  <2> DEFINE g == [i \in S |-> i.product]
  <2>1. g \in Injection(S, Products)
    BY Fun_IsInj DEF OnePerProduct
  <2> QED
    BY <2>1, FS_Injection, CartAssumption
<1> QED
  BY <1>11, <1>12 DEF Units, A, B

-----------------------------------------------------------------------------
(* The types.                                                              *)

NewCall(kind, args) ==
  [kind |-> kind, args |-> args, version |-> mutationVersion, stage |-> "sent",
   answer |-> {}]

\* A request is the last one made and leaves the others as they are.
LEMMA Sent ==
  ASSUME CartTypeOK, NEW kind, NEW args, SendCall(kind, args),
         NewCall(kind, args) \in CallMade
  PROVE  /\ calls' \in Seq(CallMade) /\ Len(calls') = Len(calls) + 1
         /\ Len(calls) + 1 <= MaxCalls /\ Len(calls) \in Nat
         /\ DOMAIN calls = 1..Len(calls) /\ DOMAIN calls' = 1..(Len(calls) + 1)
         /\ \A k \in 1..Len(calls) : calls'[k] = calls[k]
         /\ calls'[Len(calls) + 1] = NewCall(kind, args)
<1>1. calls \in Seq(CallMade) /\ Len(calls) \in Nat
  BY DEF CartTypeOK
<1>2. calls' = Append(calls, NewCall(kind, args)) /\ Len(calls) < MaxCalls
  BY DEF SendCall, NewCall
<1> QED
  BY <1>1, <1>2, CartAssumption

\* The requests that can be made are requests.
LEMMA CallsOfEachKind ==
  ASSUME CartTypeOK
  PROVE  /\ \A p \in Products : NewCall("add", [product |-> p]) \in CallMade
         /\ \A id \in 1..MaxCalls : NewCall("remove", [id |-> id]) \in CallMade
         /\ \A id \in 1..MaxCalls, q \in Nat \ {0} :
              NewCall("update", [id |-> id, qty |-> q]) \in CallMade
         /\ NewCall("clear", <<>>) \in CallMade /\ NewCall("fetch", <<>>) \in CallMade
<1>1. mutationVersion \in Nat
  BY DEF CartTypeOK
<1>2. ASSUME NEW kind, NEW S, NEW args \in S
      PROVE  NewCall(kind, args) \in CallOf(kind, S)
  BY <1>1 DEF NewCall, CallOf
<1>3. \A p \in Products : [product |-> p] \in [product : Products]
  OBVIOUS
<1>4. \A id \in 1..MaxCalls : [id |-> id] \in [id : 1..MaxCalls]
  OBVIOUS
<1>5. \A id \in 1..MaxCalls, q \in Nat \ {0} :
        [id |-> id, qty |-> q] \in [id : 1..MaxCalls, qty : Nat \ {0}]
  OBVIOUS
<1>6. \A p \in Products : NewCall("add", [product |-> p]) \in CallMade
  BY <1>2, <1>3 DEF CallMade
<1>7. \A id \in 1..MaxCalls : NewCall("remove", [id |-> id]) \in CallMade
  BY <1>2, <1>4 DEF CallMade
<1>8. \A id \in 1..MaxCalls, q \in Nat \ {0} :
        NewCall("update", [id |-> id, qty |-> q]) \in CallMade
  BY <1>2, <1>5 DEF CallMade
<1>9. NewCall("clear", <<>>) \in CallMade /\ NewCall("fetch", <<>>) \in CallMade
  BY <1>2 DEF CallMade
<1> QED
  BY <1>6, <1>7, <1>8, <1>9

\* A request that still runs has the fields of its kind.
LEMMA RunningCall ==
  ASSUME CartTypeOK, NEW c \in CallsRunning
  PROVE  /\ c \in 1..Len(calls) /\ c \in DOMAIN calls /\ c \in 1..MaxCalls
         /\ calls[c] = [kind |-> calls[c].kind, args |-> calls[c].args,
                        version |-> calls[c].version, stage |-> calls[c].stage,
                        answer |-> calls[c].answer]
         /\ calls[c].stage \in {"sent", "served"} /\ calls[c].answer \subseteq ServerItem
         /\ calls[c] \in CallMade
         /\ calls[c].kind \in {"add", "update", "remove", "clear", "fetch"}
         /\ calls[c].kind = "add" => calls[c].args \in [product : Products]
         /\ calls[c].kind = "update" =>
              calls[c].args \in [id : 1..MaxCalls, qty : Nat \ {0}]
         /\ calls[c].kind = "remove" => calls[c].args \in [id : 1..MaxCalls]
<1>1. c \in 1..Len(calls) /\ c \in DOMAIN calls /\ c \in 1..MaxCalls
      /\ calls[c] \in CallMade /\ calls[c] # Over
  BY CartAssumption DEF CartTypeOK, CallsRunning, Over
<1>2. \/ calls[c] \in CallOf("add", [product : Products])
      \/ calls[c] \in CallOf("update", [id : 1 .. MaxCalls, qty : Nat \ {0}])
      \/ calls[c] \in CallOf("remove", [id : 1 .. MaxCalls])
      \/ calls[c] \in CallOf("clear", {<<>>}) \/ calls[c] \in CallOf("fetch", {<<>>})
  BY <1>1 DEF CallMade
<1>3. ASSUME NEW kind, NEW S, calls[c] \in CallOf(kind, S)
      PROVE  /\ calls[c].kind = kind /\ calls[c].args \in S
             /\ calls[c] = [kind |-> calls[c].kind, args |-> calls[c].args,
                            version |-> calls[c].version, stage |-> calls[c].stage,
                            answer |-> calls[c].answer]
             /\ calls[c].stage \in {"sent", "served"}
             /\ calls[c].answer \subseteq ServerItem
  BY <1>3 DEF CallOf
<1>4. /\ calls[c] = [kind |-> calls[c].kind, args |-> calls[c].args,
                     version |-> calls[c].version, stage |-> calls[c].stage,
                     answer |-> calls[c].answer]
      /\ calls[c].stage \in {"sent", "served"} /\ calls[c].answer \subseteq ServerItem
  BY <1>2, <1>3
<1>5. \/ calls[c].kind = "add" /\ calls[c].args \in [product : Products]
      \/ calls[c].kind = "update" /\ calls[c].args \in [id : 1 .. MaxCalls, qty : Nat \ {0}]
      \/ calls[c].kind = "remove" /\ calls[c].args \in [id : 1 .. MaxCalls]
      \/ calls[c].kind = "clear" \/ calls[c].kind = "fetch"
  BY <1>2, <1>3
<1> QED
  BY <1>1, <1>4, <1>5

\* A running request is served: only its stage and its answer change.
LEMMA ServedCallIsACall ==
  ASSUME CartTypeOK, NEW c \in CallsRunning, NEW A \in SUBSET ServerItem
  PROVE  [calls[c] EXCEPT !.stage = "served", !.answer = A] \in CallMade
<1>1. calls[c] \in CallMade /\ calls[c] # Over
  BY RunningCall DEF CallsRunning, Over
<1>2. ASSUME NEW kind, NEW S, calls[c] \in CallOf(kind, S)
      PROVE  [calls[c] EXCEPT !.stage = "served", !.answer = A] \in CallOf(kind, S)
  BY <1>2 DEF CallOf
<1> QED
  BY <1>1, <1>2 DEF CallMade

\* What the service holds after a request are lines of the service.
LEMMA ServedLines ==
  ASSUME CartTypeOK, NEW c \in CallsRunning
  PROVE  ServedCart(c) \subseteq ServerItem
<1>1. /\ c \in 1..MaxCalls /\ server \subseteq ServerItem
      /\ calls[c].kind \in {"add", "update", "remove", "clear", "fetch"}
  BY RunningCall DEF CartTypeOK
<1>2. CASE calls[c].kind = "add"
  <2>1. calls[c].args \in [product : Products]
    BY <1>2, RunningCall
  <2>2. calls[c].args.product \in Products
    BY <2>1
  <2>3. ServedCart(c) = ServedAdd(c)
    BY <1>2 DEF ServedCart
  <2>4. [id |-> c, product |-> calls[c].args.product, qty |-> 1] \in ServerItem
    BY <1>1, <2>2 DEF ServerItem
  <2>5. \A i \in ServerItem : [i EXCEPT !.qty = @ + 1] \in ServerItem
    BY DEF ServerItem
  <2> QED
    BY <1>1, <2>3, <2>4, <2>5 DEF ServedAdd, OfProduct
<1>3. CASE calls[c].kind = "update"
  <2>1. calls[c].args \in [id : 1..MaxCalls, qty : Nat \ {0}]
    BY <1>3, RunningCall
  <2>2. calls[c].args.qty \in Nat \ {0}
    BY <2>1
  <2>3. ServedCart(c) = ServedUpdate(c)
    BY <1>3 DEF ServedCart
  <2>4. \A i \in ServerItem : [i EXCEPT !.qty = calls[c].args.qty] \in ServerItem
    BY <2>2 DEF ServerItem
  <2> QED
    BY <1>1, <2>3, <2>4 DEF ServedUpdate, AtServer
<1>4. CASE calls[c].kind = "remove"
  BY <1>1, <1>4 DEF ServedCart
<1>5. CASE calls[c].kind = "clear"
  BY <1>5 DEF ServedCart
<1>6. CASE calls[c].kind = "fetch"
  BY <1>1, <1>6 DEF ServedCart
<1> QED
  BY <1>1, <1>2, <1>3, <1>4, <1>5, <1>6

\* What the service answers become lines of the screen.
LEMMA AnswerLines ==
  ASSUME NEW A \in SUBSET ServerItem
  PROVE  FromBackend(A) \subseteq CartItem
<1>1. ASSUME NEW i \in A
      PROVE  [product |-> i.product, variant |-> NoVariant, qty |-> i.qty,
              backendId |-> i.id] \in CartItem
  <2>1. i.product \in Products /\ i.qty \in Nat \ {0} /\ i.id \in 1..MaxCalls
    BY DEF ServerItem
  <2>2. NoVariant \in UNION {Variants[p] : p \in Products}
    BY <2>1, CartAssumption
  <2> QED
    BY <2>1, <2>2 DEF CartItem
<1> QED
  BY <1>1 DEF FromBackend

\* The history variables keep their types.
LEMMA RecallTypes ==
  ASSUME CartTypeOK, NEW w \in [Products -> Int], NEW waits \in BOOLEAN,
         Recall(w, waits)
  PROVE  wanted' \in [Products -> Int] /\ calm' \in BOOLEAN
BY DEF Recall, NoneWanted, CartTypeOK

\* A change of the screen that is sent, or not, keeps the types.
LEMMA SendingTypes ==
  ASSUME CartTypeOK, NEW cond, NEW kind, NEW args, SendCallIf(cond, kind, args),
         cond => NewCall(kind, args) \in CallMade
  PROVE  calls' \in Seq(CallMade) /\ Len(calls') <= MaxCalls
<1>1. CASE cond
  BY <1>1, Sent DEF SendCallIf
<1>2. CASE ~cond
  BY <1>2 DEF SendCallIf, CartTypeOK
<1> QED
  BY <1>1, <1>2

LEMMA ShopperTypes ==
  ASSUME CartTypeOK,
         \/ ShopperActs
         \/ ToggleSession
         \/ ClearCart /\ UNCHANGED <<signedIn, server>>
  PROVE  CartTypeOK'
<1>0. /\ cart \subseteq CartItem /\ server \subseteq ServerItem
      /\ mutationVersion \in Nat /\ signedIn \in BOOLEAN
      /\ calls \in Seq(CallMade) /\ Len(calls) <= MaxCalls
      /\ wanted \in [Products -> Int] /\ CartQuiet \in BOOLEAN
  BY DEF CartTypeOK, CartQuiet
<1>1. ASSUME NEW l \in CartLines, AddItem(l)
      PROVE  CartTypeOK'
  <2>1. l.product \in Products /\ l.variant \in UNION {Variants[p] : p \in Products}
    BY DEF CartLines
  <2>2. [product |-> l.product, variant |-> l.variant, qty |-> 1, backendId |-> NoId]
          \in CartItem
    BY <2>1 DEF CartItem
  <2>3. \A i \in CartItem : [i EXCEPT !.qty = @ + 1] \in CartItem
    BY DEF CartItem
  <2>4. cart' \subseteq CartItem
    BY <1>0, <1>1, <2>2, <2>3 DEF AddItem, LinesAt
  <2>5. calls' \in Seq(CallMade) /\ Len(calls') <= MaxCalls
    BY <1>1, <2>1, CallsOfEachKind, SendingTypes DEF AddItem
  <2>6. wanted' \in [Products -> Int] /\ calm' \in BOOLEAN
    <3>1. [wanted EXCEPT ![l.product] = @ + 1] \in [Products -> Int]
      BY <1>0, <2>1
    <3> QED
      BY <1>0, <1>1, <3>1, RecallTypes DEF AddItem, Asked
  <2>7. mutationVersion' \in Nat /\ UNCHANGED <<signedIn, server>>
    BY <1>0, <1>1 DEF AddItem, Mutation
  <2> QED
    BY <1>0, <2>4, <2>5, <2>6, <2>7 DEF CartTypeOK
<1>2. ASSUME NEW i \in cart, RemoveItem(i)
      PROVE  CartTypeOK'
  <2>1. i \in CartItem
    BY <1>0
  <2>2. /\ i.product \in Products /\ i.qty \in Nat \ {0}
        /\ i.backendId # NoId => i.backendId \in 1..MaxCalls
    BY <2>1 DEF CartItem
  <2>3. calls' \in Seq(CallMade) /\ Len(calls') <= MaxCalls
    BY <1>2, <2>2, CallsOfEachKind, SendingTypes DEF RemoveItem
  <2>4. wanted' \in [Products -> Int] /\ calm' \in BOOLEAN
    <3>1. [wanted EXCEPT ![i.product] = @ + (-i.qty)] \in [Products -> Int]
      BY <1>0, <2>2
    <3> QED
      BY <1>0, <1>2, <3>1, RecallTypes DEF RemoveItem, Asked
  <2> QED
    BY <1>0, <1>2, <2>3, <2>4 DEF RemoveItem, Mutation, CartTypeOK
<1>3. ASSUME NEW i \in cart, NEW q \in {i.qty - 1, i.qty + 1}, UpdateQuantity(i, q)
      PROVE  CartTypeOK'
  <2>1. i \in CartItem
    BY <1>0
  <2>2. /\ i.product \in Products /\ i.qty \in Nat \ {0}
        /\ i.backendId # NoId => i.backendId \in 1..MaxCalls
    BY <2>1 DEF CartItem
  <2>3. q \in Nat \ {0}
    BY <1>3, <2>2 DEF UpdateQuantity
  <2>4. cart' \subseteq CartItem
    <3>1. [i EXCEPT !.qty = q] \in CartItem
      BY <2>1, <2>3 DEF CartItem
    <3> QED
      BY <1>0, <1>3, <3>1 DEF UpdateQuantity
  <2>5. calls' \in Seq(CallMade) /\ Len(calls') <= MaxCalls
    BY <1>3, <2>2, <2>3, CallsOfEachKind, SendingTypes DEF UpdateQuantity
  <2>6. wanted' \in [Products -> Int] /\ calm' \in BOOLEAN
    <3>1. [wanted EXCEPT ![i.product] = @ + (q - i.qty)] \in [Products -> Int]
      BY <1>0, <2>2, <2>3
    <3> QED
      BY <1>0, <1>3, <3>1, RecallTypes DEF UpdateQuantity, Asked
  <2> QED
    BY <1>0, <1>3, <2>4, <2>5, <2>6 DEF UpdateQuantity, Mutation, CartTypeOK
<1>4. CASE FetchFromBackend
  <2>1. calls' \in Seq(CallMade) /\ Len(calls') <= MaxCalls
    BY <1>4, CallsOfEachKind, Sent DEF FetchFromBackend
  <2>2. wanted' \in [Products -> Int] /\ calm' \in BOOLEAN
    BY <1>0, <1>4, RecallTypes DEF FetchFromBackend
  <2> QED
    BY <1>0, <1>4, <2>1, <2>2 DEF FetchFromBackend, CartTypeOK
<1>5. CASE ToggleSession
  <2>1. wanted' \in [Products -> Int] /\ calm' \in BOOLEAN
    <3>1. (CartQuiet /\ cart = {} /\ server = {}) \in BOOLEAN
      BY DEF CartQuiet
    <3> QED
      BY <1>0, <1>5, <3>1, RecallTypes DEF ToggleSession
  <2> QED
    BY <1>0, <1>5, <2>1 DEF ToggleSession, CartTypeOK
<1>6. CASE ClearCart /\ UNCHANGED <<signedIn, server>>
  <2>1. calls' \in Seq(CallMade) /\ Len(calls') <= MaxCalls
    BY <1>6, CallsOfEachKind, SendingTypes DEF ClearCart
  <2>2. wanted' \in [Products -> Int] /\ calm' \in BOOLEAN
    <3>1. NoneWanted \in [Products -> Int]
      BY DEF NoneWanted
    <3> QED
      BY <1>0, <1>6, <3>1, RecallTypes DEF ClearCart
  <2> QED
    BY <1>0, <1>6, <2>1, <2>2 DEF ClearCart, Mutation, CartTypeOK
<1> QED
  BY <1>1, <1>2, <1>3, <1>4, <1>5, <1>6 DEF ShopperActs

\* One call of the sequence is replaced.
LEMMA CallReplaced ==
  ASSUME CartTypeOK, NEW c \in CallsRunning, NEW r \in CallMade,
         calls' = [calls EXCEPT ![c] = r]
  PROVE  /\ calls' \in Seq(CallMade) /\ Len(calls') = Len(calls)
         /\ DOMAIN calls' = DOMAIN calls /\ calls'[c] = r
         /\ \A k \in DOMAIN calls \ {c} : calls'[k] = calls[k]
<1>1. calls \in Seq(CallMade) /\ c \in 1..Len(calls) /\ c \in DOMAIN calls
  BY RunningCall DEF CartTypeOK
<1> QED
  BY <1>1

\* A request is served.
LEMMA Serving ==
  ASSUME CartTypeOK, NEW c \in CallsRunning, ServeCall(c)
  PROVE  /\ calls' \in Seq(CallMade) /\ Len(calls') = Len(calls)
         /\ DOMAIN calls' = DOMAIN calls
         /\ calls'[c] = [calls[c] EXCEPT !.stage = "served", !.answer = ServedCart(c)]
         /\ \A k \in DOMAIN calls \ {c} : calls'[k] = calls[k]
         /\ server' = ServedCart(c) /\ ServedCart(c) \subseteq ServerItem
<1>1. ServedCart(c) \subseteq ServerItem
  BY ServedLines
<1>2. calls' = [calls EXCEPT ![c] = [calls[c] EXCEPT !.stage = "served",
                                                     !.answer = ServedCart(c)]]
  BY RunningCall DEF ServeCall
<1>3. [calls[c] EXCEPT !.stage = "served", !.answer = ServedCart(c)] \in CallMade
  BY <1>1, ServedCallIsACall
<1> QED
  BY <1>1, <1>2, <1>3, CallReplaced DEF ServeCall

LEMMA TrafficTypes ==
  ASSUME CartTypeOK, CartTraffic
  PROVE  CartTypeOK'
<1>1. PICK c \in CallsRunning : ServeCall(c) \/ FailCall(c) \/ AnswerCall(c)
  BY DEF CartTraffic
<1>2. CASE ServeCall(c)
  BY <1>2, Serving DEF ServeCall, CartTypeOK
<1>3. Over \in CallMade
  BY DEF CallMade
<1>4. CASE FailCall(c)
  <2>1. calls' \in Seq(CallMade) /\ Len(calls') = Len(calls)
    BY <1>3, <1>4, CallReplaced DEF FailCall
  <2>2. wanted' \in [Products -> Int] /\ calm' \in BOOLEAN
    BY <1>4, RecallTypes DEF FailCall, CartTypeOK
  <2> QED
    BY <1>4, <2>1, <2>2 DEF FailCall, CartTypeOK
<1>5. CASE AnswerCall(c)
  <2>1. calls' \in Seq(CallMade) /\ Len(calls') = Len(calls)
    BY <1>3, <1>5, CallReplaced DEF AnswerCall
  <2>2. cart' \subseteq CartItem
    BY <1>5, RunningCall, AnswerLines DEF AnswerCall, CartTypeOK
  <2> QED
    BY <1>5, <2>1, <2>2 DEF AnswerCall, CartTypeOK
<1> QED
  BY <1>1, <1>2, <1>4, <1>5

-----------------------------------------------------------------------------
(* The calm cart: what each request makes of the lines of the service.     *)

AfterAdd(lines, id, p) ==
  LET old == {i \in lines : i.product = p}
  IN  IF old = {} THEN lines \cup {[id |-> id, product |-> p, qty |-> 1]}
      ELSE (lines \ old) \cup {[i EXCEPT !.qty = @ + 1] : i \in old}

AfterUpdate(lines, id, q) ==
  LET old == {i \in lines : i.id = id}
  IN  (lines \ old) \cup {[i EXCEPT !.qty = q] : i \in old}

LEMMA AddTallies ==
  ASSUME NEW S \in SUBSET ServerItem, OneLineEach(S), NEW w \in [Products -> Nat],
         Tally(S, w), NEW p \in Products, NEW id, \A i \in S : i.id # id
  PROVE  /\ OneLineEach(AfterAdd(S, id, p))
         /\ Tally(AfterAdd(S, id, p), [w EXCEPT ![p] = @ + 1])
<1> DEFINE old == {i \in S : i.product = p}
           w2 == [w EXCEPT ![p] = @ + 1]
<1>1. w2[p] = w[p] + 1 /\ \A q \in Products \ {p} : w2[q] = w[q]
  OBVIOUS
<1>2. \A i \in S : i.product \in Products
  BY DEF ServerItem
<1>3. CASE old = {}
  <2> DEFINE n == [id |-> id, product |-> p, qty |-> 1]
  <2>1. AfterAdd(S, id, p) = S \cup {n} /\ w[p] = 0
    BY <1>3 DEF AfterAdd, Tally
  <2>2. OneLineEach(S \cup {n})
    BY <1>3 DEF OneLineEach
  <2>3. Tally(S \cup {n}, w2)
    <3>1. \A i \in S \cup {n} : i.qty = w2[i.product]
      BY <1>1, <1>2, <1>3, <2>1 DEF Tally
    <3>2. \A q \in Products : w2[q] # 0 => \E i \in S \cup {n} : i.product = q
      <4> SUFFICES ASSUME NEW q \in Products, w2[q] # 0
                   PROVE  \E i \in S \cup {n} : i.product = q
        OBVIOUS
      <4>1. n.product = p /\ n \in S \cup {n}
        OBVIOUS
      <4>2. CASE q = p
        BY <4>1, <4>2
      <4>3. CASE q # p
        <5>1. w[q] # 0
          BY <1>1, <4>3
        <5> QED
          BY <5>1 DEF Tally
      <4> QED
        BY <4>2, <4>3
    <3> QED
      BY <3>1, <3>2 DEF Tally
  <2> QED
    BY <2>1, <2>2, <2>3
<1>4. CASE old # {}
  <2>1. PICK j \in old : old = {j}
    BY <1>4 DEF OneLineEach
  <2> DEFINE n == [j EXCEPT !.qty = @ + 1]
  <2>2. AfterAdd(S, id, p) = (S \ {j}) \cup {n}
    BY <2>1 DEF AfterAdd
  <2>3. n.id = j.id /\ n.product = p /\ n.qty = w[p] + 1 /\ j \in S
    BY <2>1 DEF ServerItem, Tally
  <2> HIDE DEF n
  <2>4. \A i \in S \ {j} : i.id # j.id /\ i.product # p
    BY <2>1, <2>3 DEF OneLineEach
  <2>5. OneLineEach((S \ {j}) \cup {n})
    BY <2>3, <2>4 DEF OneLineEach
  <2>6. Tally((S \ {j}) \cup {n}, w2)
    <3>1. \A i \in (S \ {j}) \cup {n} : i.qty = w2[i.product]
      BY <1>1, <1>2, <2>3, <2>4 DEF Tally
    <3>2. \A q \in Products : w2[q] # 0 => \E i \in (S \ {j}) \cup {n} : i.product = q
      BY <1>1, <2>1, <2>3 DEF Tally
    <3> QED
      BY <3>1, <3>2 DEF Tally
  <2> QED
    BY <2>2, <2>5, <2>6
<1> QED
  BY <1>3, <1>4

LEMMA UpdateTallies ==
  ASSUME NEW S \in SUBSET ServerItem, OneLineEach(S), NEW w \in [Products -> Nat],
         Tally(S, w), NEW s \in S, NEW q \in Nat \ {0}
  PROVE  /\ OneLineEach(AfterUpdate(S, s.id, q))
         /\ Tally(AfterUpdate(S, s.id, q), [w EXCEPT ![s.product] = q])
<1> DEFINE n == [s EXCEPT !.qty = q]
           w2 == [w EXCEPT ![s.product] = q]
<1>1. {i \in S : i.id = s.id} = {s}
  BY DEF OneLineEach
<1>2. AfterUpdate(S, s.id, q) = (S \ {s}) \cup {n}
  BY <1>1 DEF AfterUpdate
<1>3. n.id = s.id /\ n.product = s.product /\ n.qty = q /\ s.product \in Products
  BY DEF ServerItem
<1> HIDE DEF n
<1>4. \A i \in S \ {s} : i.id # s.id /\ i.product # s.product /\ i.product \in Products
  BY DEF OneLineEach, ServerItem
<1>5. OneLineEach((S \ {s}) \cup {n})
  BY <1>3, <1>4 DEF OneLineEach
<1>6. w2[s.product] = q /\ \A p \in Products \ {s.product} : w2[p] = w[p]
  BY <1>3
<1>7. Tally((S \ {s}) \cup {n}, w2)
  <2>1. \A i \in (S \ {s}) \cup {n} : i.qty = w2[i.product]
    BY <1>3, <1>4, <1>6 DEF Tally
  <2>2. \A p \in Products : w2[p] # 0 => \E i \in (S \ {s}) \cup {n} : i.product = p
    BY <1>3, <1>6 DEF Tally
  <2> QED
    BY <2>1, <2>2 DEF Tally
<1> QED
  BY <1>2, <1>5, <1>7

LEMMA RemoveTallies ==
  ASSUME NEW S \in SUBSET ServerItem, OneLineEach(S), NEW w \in [Products -> Nat],
         Tally(S, w), NEW s \in S
  PROVE  /\ OneLineEach(S \ {i \in S : i.id = s.id})
         /\ Tally(S \ {i \in S : i.id = s.id}, [w EXCEPT ![s.product] = 0])
<1> DEFINE w2 == [w EXCEPT ![s.product] = 0]
<1>1. {i \in S : i.id = s.id} = {s}
  BY DEF OneLineEach
<1>2. s.product \in Products
  BY DEF ServerItem
<1>3. \A i \in S \ {s} : i.product # s.product /\ i.product \in Products
  BY DEF OneLineEach, ServerItem
<1>4. w2[s.product] = 0 /\ \A p \in Products \ {s.product} : w2[p] = w[p]
  BY <1>2
<1>5. Tally(S \ {s}, w2)
  BY <1>3, <1>4 DEF Tally
<1>6. OneLineEach(S \ {s})
  BY DEF OneLineEach
<1> QED
  BY <1>1, <1>5, <1>6

\* The screen shows the lines of the service as they are.
LEMMA ShownTallies ==
  ASSUME NEW S \in SUBSET ServerItem, OneLineEach(S), NEW w \in [Products -> Nat],
         Tally(S, w)
  PROVE  /\ OnePerProduct(FromBackend(S)) /\ Tally(FromBackend(S), w)
         /\ FromBackend(S) \subseteq CartItem
         /\ \A i \in FromBackend(S) : \E s \in S :
              s.id = i.backendId /\ s.product = i.product /\ s.qty = i.qty
<1> DEFINE shown(s) == [product |-> s.product, variant |-> NoVariant,
                        qty |-> s.qty, backendId |-> s.id]
<1>1. FromBackend(S) = {shown(s) : s \in S}
  BY DEF FromBackend
<1>2. \A s : /\ shown(s).product = s.product /\ shown(s).qty = s.qty
             /\ shown(s).backendId = s.id
  OBVIOUS
<1> HIDE DEF shown
<1>3. OnePerProduct(FromBackend(S))
  BY <1>1, <1>2 DEF OnePerProduct, OneLineEach
<1>4. Tally(FromBackend(S), w)
  BY <1>1, <1>2 DEF Tally
<1> QED
  BY <1>1, <1>2, <1>3, <1>4, AnswerLines

\* Nothing is wanted of what has no lines.
LEMMA NothingTallies ==
  /\ NoneWanted \in [Products -> Nat] /\ Tally({}, NoneWanted) /\ OneLineEach({})
  /\ FromBackend({}) = {} /\ Units(LinesFor(NoneWanted)) = 0
  /\ \A S \in SUBSET ServerItem : Tally(S, NoneWanted) => S = {}
<1>1. NoneWanted \in [Products -> Nat] /\ \A p \in Products : NoneWanted[p] = 0
  BY DEF NoneWanted
<1>2. UnitsOf(LinesFor(NoneWanted)) = {}
  BY <1>1 DEF UnitsOf, LinesFor
<1>3. Units(LinesFor(NoneWanted)) = 0
  BY <1>2, FS_EmptySet DEF Units
<1>4. \A S \in SUBSET ServerItem : Tally(S, NoneWanted) => S = {}
  BY <1>1 DEF Tally, ServerItem
<1> QED
  BY <1>1, <1>3, <1>4 DEF Tally, OneLineEach, FromBackend

\* One product is wanted in another quantity.
LEMMA WantingAnother ==
  ASSUME NEW w \in [Products -> Nat], NEW p \in Products, NEW n \in Nat
  PROVE  Units(LinesFor([w EXCEPT ![p] = n])) = Units(LinesFor(w)) - w[p] + n
<1> DEFINE S == LinesFor(w)
           j == [product |-> p, qty |-> w[p]]
           k == [product |-> p, qty |-> n]
<1>1. j \in S /\ k \notin S \ {j} /\ j.qty = w[p] /\ k.qty = n
  BY DEF LinesFor
<1>2. LinesFor([w EXCEPT ![p] = n]) = (S \ {j}) \cup {k}
  BY DEF LinesFor
<1>3. IsFiniteSet(S) /\ \A i \in S : i.qty \in Nat
  BY LinesForAreFinite
<1> HIDE DEF S, j, k
<1>4. Units((S \ {j}) \cup {k}) = Units(S) - j.qty + k.qty
  BY <1>1, <1>3, OneLineChanged
<1> QED
  BY <1>1, <1>2, <1>4 DEF S

\* The calm cart at rest.
LEMMA AtRest ==
  ASSUME CartTypeOK, CartInStep, calm, CartQuiet
  PROVE  /\ OneLineEach(server) /\ Tally(server, wanted) /\ cart = FromBackend(server)
         /\ OnePerProduct(cart) /\ Tally(cart, wanted) /\ IsFiniteSet(cart)
         /\ wanted \in [Products -> Nat] /\ Units(cart) = Units(LinesFor(wanted))
         /\ \A i \in cart : /\ i \in CartItem /\ i.product \in Products
                            /\ i.qty \in Nat \ {0} /\ i.qty = wanted[i.product]
                            /\ i.backendId # NoId
                            /\ \E s \in server : s.id = i.backendId /\ s.product = i.product
<1>1. /\ OneLineEach(server) /\ Tally(server, wanted) /\ cart = FromBackend(server)
      /\ wanted \in [Products -> Nat] /\ server \in SUBSET ServerItem
  BY DEF CartInStep, CartTypeOK
<1>2. /\ OnePerProduct(cart) /\ Tally(cart, wanted) /\ cart \subseteq CartItem
      /\ \A i \in cart : \E s \in server :
           s.id = i.backendId /\ s.product = i.product /\ s.qty = i.qty
  BY <1>1, ShownTallies
<1>3. \A i \in cart : i.product \in Products /\ i.qty \in Nat \ {0}
  BY <1>2 DEF CartItem
<1>4. Units(cart) = Units(LinesFor(wanted)) /\ IsFiniteSet(cart)
  BY <1>1, <1>2, <1>3, TallyTotal
<1>5. \A s \in server : s.id # NoId
  BY <1>1, CartAssumption DEF ServerItem
<1> QED
  BY <1>1, <1>2, <1>3, <1>4, <1>5 DEF Tally

\* What is shown has the units and the products that are wanted.
LEMMA ScreenTallies ==
  ASSUME NEW S \in SUBSET ServerItem, OneLineEach(S), NEW w \in [Products -> Nat],
         Tally(S, w)
  PROVE  /\ Units(FromBackend(S)) = Units(LinesFor(w))
         /\ {i.product : i \in FromBackend(S)} = {p \in Products : w[p] # 0}
<1>1. OnePerProduct(FromBackend(S)) /\ Tally(FromBackend(S), w)
  BY ShownTallies
<1>2. FromBackend(S) \subseteq CartItem
  BY ShownTallies
<1>3. \A i \in FromBackend(S) : i.product \in Products /\ i.qty \in Nat \ {0}
  BY <1>2 DEF CartItem
<1>4. Units(FromBackend(S)) = Units(LinesFor(w))
  BY <1>1, <1>3, TallyTotal
<1>5. \A i \in FromBackend(S) : w[i.product] # 0
  BY <1>1, <1>3 DEF Tally
<1>6. \A p \in Products : w[p] # 0 => \E i \in FromBackend(S) : i.product = p
  BY <1>1 DEF Tally
<1> QED
  BY <1>3, <1>4, <1>5, <1>6

LEMMA WantedIs == WantedLines = LinesFor(wanted)
  BY DEF WantedLines, LinesFor

-----------------------------------------------------------------------------
(* The calm cart: what each action makes of it.                            *)

\* One request is made of a cart at rest, and it brings what is wanted.
LEMMA OneCallSent ==
  ASSUME CartTypeOK, CartInStep, calm, CartQuiet, signedIn,
         NEW kind, NEW args, SendCall(kind, args), NewCall(kind, args) \in CallMade,
         UNCHANGED <<signedIn, server>>, wanted' \in [Products -> Nat],
         NEW n, n = Len(calls) + 1, NEW After, ServedCart(n)' = After,
         OneLineEach(After), Tally(After, wanted'),
         kind = "clear" => cart' = {} /\ wanted' = NoneWanted,
         kind = "fetch" => mutationVersion' = mutationVersion
  PROVE  CartInStep'
<1>1. /\ Len(calls) \in Nat
      /\ DOMAIN calls = 1..Len(calls) /\ DOMAIN calls' = 1..n
      /\ \A k \in 1..Len(calls) : calls'[k] = calls[k]
      /\ calls'[n] = NewCall(kind, args)
  BY Sent
<1>2. /\ calls'[n].stage = "sent" /\ calls'[n].kind = kind
      /\ calls'[n].version = mutationVersion
  BY <1>1 DEF NewCall
<1>3. \A k \in 1..Len(calls) : calls[k].stage = "done"
  BY <1>1 DEF CartQuiet, CallsRunning
<1>4. CallsRunning' = {n}
  <2>1. \A k \in 1..n : k # n => k \in 1..Len(calls)
    BY <1>1
  <2>2. n \in 1..n
    BY <1>1
  <2> QED
    BY <1>1, <1>2, <1>3, <2>1, <2>2 DEF CallsRunning
<1>5. CallInStep(n)'
  BY <1>2 DEF CallInStep
<1>6. \A i \in server : i.id \in DOMAIN calls' /\ calls'[i.id].stage # "sent"
  <2> SUFFICES ASSUME NEW i \in server
               PROVE  i.id \in DOMAIN calls' /\ calls'[i.id].stage # "sent"
    OBVIOUS
  <2>1. i.id \in 1..Len(calls) /\ calls[i.id].stage # "sent"
    BY <1>1 DEF CartInStep
  <2>2. i.id \in 1..n
    BY <1>1, <2>1
  <2> QED
    BY <1>1, <2>1, <2>2
<1>7. ~CartQuiet'
  BY <1>4 DEF CartQuiet
<1>8. \A c, d \in CallsRunning' : c = d
  BY <1>4
<1>9. \A c \in CallsRunning' : CallInStep(c)'
  BY <1>4, <1>5
<1> QED
  BY <1>6, <1>7, <1>8, <1>9 DEF CartInStep

\* A new request runs when the service has no line of its id.
LEMMA NewIdIsNew ==
  ASSUME CartTypeOK, CartInStep, calm, NEW n, n = Len(calls) + 1
  PROVE  /\ \A i \in server : i.id # n
         /\ server \in SUBSET ServerItem
<1>1. DOMAIN calls = 1..Len(calls) /\ Len(calls) \in Nat
  BY DEF CartTypeOK
<1>2. \A i \in server : i.id \in 1..Len(calls)
  BY <1>1 DEF CartInStep
<1> QED
  BY <1>1, <1>2 DEF CartTypeOK

CalmCart == CartInStep /\ CalmScreen

LEMMA AddKeepsCalm ==
  ASSUME CartTypeOK, CalmCart, NEW l \in CartLines, AddItem(l)
  PROVE  CalmCart'
<1> SUFFICES ASSUME calm' PROVE CalmCart'
  BY DEF CalmCart, CartInStep, CalmScreen
<1>0. PICK n : n = Len(calls) + 1
  OBVIOUS
<1> DEFINE p == l.product
           w2 == [wanted EXCEPT ![p] = @ + 1]
<1>1. calm /\ CartQuiet /\ signedIn /\ wanted' = w2 /\ UNCHANGED <<signedIn, server>>
  BY DEF AddItem, Asked, Recall
<1>2. p \in Products
  BY DEF CartLines
<1>3. SendCall("add", [product |-> p]) /\ NewCall("add", [product |-> p]) \in CallMade
  BY <1>1, <1>2, CallsOfEachKind DEF AddItem, SendCallIf
<1>4. CartInStep
  BY DEF CalmCart
<1>5. /\ OneLineEach(server) /\ Tally(server, wanted)
      /\ OnePerProduct(cart) /\ Tally(cart, wanted) /\ IsFiniteSet(cart)
      /\ wanted \in [Products -> Nat] /\ Units(cart) = Units(LinesFor(wanted))
      /\ \A i \in cart : /\ i.qty \in Nat /\ i.product \in Products
                         /\ i.qty = wanted[i.product] /\ i.backendId # NoId
                         /\ i \in CartItem
  BY <1>1, <1>4, AtRest
<1>6. w2 \in [Products -> Nat] /\ w2[p] = wanted[p] + 1 /\ wanted[p] \in Nat
      /\ \A q \in Products \ {p} : w2[q] = wanted[q]
  BY <1>2, <1>5
<1>7. CartInStep'
  <2>1. calls'[n] = NewCall("add", [product |-> p])
    BY <1>0, <1>3, Sent
  <2>2. ServedCart(n)' = AfterAdd(server, n, p)
    <3>1. calls'[n].kind = "add" /\ calls'[n].args.product = p
      BY <2>1 DEF NewCall
    <3> HIDE DEF p
    <3>2. ServedCart(n)' = ServedAdd(n)'
      BY <3>1 DEF ServedCart
    <3> QED
      BY <1>1, <3>1, <3>2 DEF ServedAdd, OfProduct, AfterAdd
  <2>3. \A i \in server : i.id # n
    BY <1>0, <1>1, <1>4, NewIdIsNew
  <2>4. server \in SUBSET ServerItem
    BY DEF CartTypeOK
  <2>5. OneLineEach(AfterAdd(server, n, p)) /\ Tally(AfterAdd(server, n, p), w2)
    BY <1>2, <1>5, <2>3, <2>4, AddTallies
  <2> HIDE DEF p, w2
  <2> QED
    BY <1>0, <1>1, <1>3, <1>4, <1>6, <2>2, <2>5, OneCallSent
<1>8. Units(LinesFor(w2)) = Units(LinesFor(wanted)) + 1
  <2>1. w2 = [wanted EXCEPT ![p] = wanted[p] + 1] /\ wanted[p] + 1 \in Nat
    BY <1>2, <1>5, <1>6
  <2>2. Units(LinesFor(w2)) = Units(LinesFor(wanted)) - wanted[p] + (wanted[p] + 1)
    BY <1>2, <1>5, <2>1, WantingAnother
  <2>3. Units(LinesFor(wanted)) \in Nat
    BY <1>5, LinesForAreFinite
  <2> QED
    BY <1>6, <2>2, <2>3
<1>9. {i.product : i \in cart} = {q \in Products : wanted[q] # 0}
  BY <1>1 DEF CalmCart, CalmScreen
<1>10. {q \in Products : w2[q] # 0} = {q \in Products : wanted[q] # 0} \cup {p}
  BY <1>2, <1>6
<1>11. Units(cart') = Units(cart) + 1 /\ {i.product : i \in cart'} = {i.product : i \in cart} \cup {p}
  <2>1. CASE LinesAt(l) = {}
    <3> DEFINE j == [product |-> p, variant |-> l.variant, qty |-> 1, backendId |-> NoId]
    <3>1. cart' = cart \cup {j}
      BY <2>1 DEF AddItem
    <3>2. j.product = p /\ j.qty = 1 /\ j.backendId = NoId
      OBVIOUS
    <3> HIDE DEF j
    <3>3. j \notin cart
      BY <1>5, <3>2
    <3>4. Units(cart \cup {j}) = Units(cart) + j.qty
      BY <1>5, <3>2, <3>3, OneLineMore
    <3> QED
      BY <3>1, <3>2, <3>4
  <2>2. CASE LinesAt(l) # {}
    <3>1. PICK j \in LinesAt(l) : LinesAt(l) = {j}
      BY <1>5, <2>2 DEF LinesAt, OnePerProduct
    <3> DEFINE k == [j EXCEPT !.qty = @ + 1]
    <3>2. cart' = (cart \ {j}) \cup {k} /\ j \in cart /\ j.product = p
      BY <3>1 DEF AddItem, LinesAt
    <3>3. k.product = p /\ k.qty = j.qty + 1 /\ j.qty \in Nat
      BY <1>5, <3>2 DEF CartItem
    <3> HIDE DEF k
    <3>4. k \notin cart \ {j}
      BY <1>5, <3>2, <3>3 DEF OnePerProduct
    <3>5. Units((cart \ {j}) \cup {k}) = Units(cart) - j.qty + k.qty /\ Units(cart) \in Nat
      BY <1>5, <3>2, <3>3, <3>4, OneLineChanged
    <3>6. Units(cart') = Units(cart) + 1
      BY <3>2, <3>3, <3>5
    <3> QED
      BY <3>2, <3>3, <3>6
  <2> QED
    BY <2>1, <2>2
<1>12. CalmScreen'
  BY <1>1, <1>5, <1>8, <1>9, <1>10, <1>11, WantedIs DEF CalmScreen, WantedLines, LinesFor
<1> QED
  BY <1>7, <1>12 DEF CalmCart

LEMMA RemoveKeepsCalm ==
  ASSUME CartTypeOK, CalmCart, NEW i \in cart, RemoveItem(i)
  PROVE  CalmCart'
<1> SUFFICES ASSUME calm' PROVE CalmCart'
  BY DEF CalmCart, CartInStep, CalmScreen
<1>0. PICK n : n = Len(calls) + 1
  OBVIOUS
<1> DEFINE p == i.product
           id == i.backendId
           w2 == [wanted EXCEPT ![p] = 0]
<1>1. /\ calm /\ CartQuiet /\ signedIn /\ UNCHANGED <<signedIn, server>>
      /\ wanted' = [wanted EXCEPT ![p] = @ + (-i.qty)] /\ cart' = cart \ {i}
  BY DEF RemoveItem, Asked, Recall
<1>2. CartInStep
  BY DEF CalmCart
<1>3. /\ OneLineEach(server) /\ Tally(server, wanted)
      /\ OnePerProduct(cart) /\ Tally(cart, wanted) /\ IsFiniteSet(cart)
      /\ wanted \in [Products -> Nat] /\ Units(cart) = Units(LinesFor(wanted))
      /\ \A j \in cart : /\ j.qty \in Nat /\ j.product \in Products /\ j \in CartItem
      /\ p \in Products /\ i.qty \in Nat \ {0} /\ i.qty = wanted[p] /\ id # NoId
  BY <1>1, <1>2, AtRest
<1>4. PICK s \in server : s.id = id /\ s.product = p
  BY <1>1, <1>2, AtRest
<1>5. wanted' = w2
  <2>1. wanted[p] + (-i.qty) = 0
    BY <1>3
  <2>2. wanted' = [wanted EXCEPT ![p] = wanted[p] + (-i.qty)]
    BY <1>1
  <2> QED
    BY <2>1, <2>2
<1>6. w2 \in [Products -> Nat] /\ w2[p] = 0 /\ \A q \in Products \ {p} : w2[q] = wanted[q]
  BY <1>3
<1>7. id \in 1..MaxCalls /\ SendCall("remove", [id |-> id])
      /\ NewCall("remove", [id |-> id]) \in CallMade
  <2>1. id \in 1..MaxCalls
    BY <1>3 DEF CartItem
  <2> QED
    BY <1>1, <1>3, <2>1, CallsOfEachKind DEF RemoveItem, SendCallIf
<1>8. CartInStep'
  <2> DEFINE After == server \ {j \in server : j.id = s.id}
  <2>1. calls'[n] = NewCall("remove", [id |-> id])
    BY <1>0, <1>7, Sent
  <2>2. ServedCart(n)' = After
    <3>1. calls'[n].kind = "remove" /\ calls'[n].args.id = id
      BY <2>1 DEF NewCall
    <3> HIDE DEF id
    <3>2. ServedCart(n)' = server' \ AtServer(id)'
      BY <3>1 DEF ServedCart, AtServer
    <3> QED
      BY <1>1, <1>4, <3>2 DEF AtServer
  <2>3. OneLineEach(After) /\ Tally(After, w2)
    <3>1. server \in SUBSET ServerItem
      BY DEF CartTypeOK
    <3> QED
      BY <1>3, <1>4, <3>1, RemoveTallies
  <2>4. wanted' \in [Products -> Nat] /\ Tally(After, wanted')
    BY <1>5, <1>6, <2>3
  <2>5. calm /\ CartQuiet /\ signedIn /\ UNCHANGED <<signedIn, server>>
    BY <1>1
  <2> HIDE DEF id, w2, After
  <2> QED
    BY <1>0, <1>2, <1>7, <2>2, <2>3, <2>4, <2>5, OneCallSent
<1>9. Units(cart') = Units(LinesFor(w2))
  <2>1. Units(cart) = Units(cart \ {i}) + i.qty /\ Units(cart \ {i}) \in Nat
    BY <1>3, OneLineLess
  <2>2. Units(LinesFor(w2)) = Units(LinesFor(wanted)) - wanted[p] + 0
    BY <1>3, WantingAnother
  <2> QED
    BY <1>1, <1>3, <2>1, <2>2
<1>10. {j.product : j \in cart'} = {q \in Products : w2[q] # 0}
  <2>1. {j.product : j \in cart} = {q \in Products : wanted[q] # 0}
    BY <1>1 DEF CalmCart, CalmScreen
  <2>2. \A j \in cart \ {i} : j.product # p
    BY <1>3 DEF OnePerProduct
  <2>3. {j.product : j \in cart \ {i}} = {j.product : j \in cart} \ {p}
    BY <2>2
  <2>4. {q \in Products : w2[q] # 0} = {q \in Products : wanted[q] # 0} \ {p}
    BY <1>6
  <2> QED
    BY <1>1, <2>1, <2>3, <2>4
<1>11. CalmScreen'
  BY <1>5, <1>9, <1>10 DEF CalmScreen, WantedLines, LinesFor
<1> QED
  BY <1>8, <1>11 DEF CalmCart

LEMMA UpdateKeepsCalm ==
  ASSUME CartTypeOK, CalmCart, NEW i \in cart, NEW q \in Nat, UpdateQuantity(i, q)
  PROVE  CalmCart'
<1> SUFFICES ASSUME calm' PROVE CalmCart'
  BY DEF CalmCart, CartInStep, CalmScreen
<1>0. PICK n : n = Len(calls) + 1
  OBVIOUS
<1> DEFINE p == i.product
           id == i.backendId
           k == [i EXCEPT !.qty = q]
           w2 == [wanted EXCEPT ![p] = q]
<1>1. /\ calm /\ CartQuiet /\ signedIn /\ UNCHANGED <<signedIn, server>> /\ q \in Nat \ {0}
      /\ wanted' = [wanted EXCEPT ![p] = @ + (q - i.qty)] /\ cart' = (cart \ {i}) \cup {k}
  <2>1. calm /\ CartQuiet /\ signedIn
    BY DEF UpdateQuantity, Asked, Recall
  <2>2. wanted' = [wanted EXCEPT ![p] = @ + (q - i.qty)]
    BY <2>1 DEF UpdateQuantity, Asked, Recall
  <2>3. UNCHANGED <<signedIn, server>> /\ q \in Nat \ {0} /\ cart' = (cart \ {i}) \cup {k}
    BY DEF UpdateQuantity
  <2> QED
    BY <2>1, <2>2, <2>3
<1>2. CartInStep
  BY DEF CalmCart
<1>3. /\ OneLineEach(server) /\ Tally(server, wanted)
      /\ OnePerProduct(cart) /\ Tally(cart, wanted) /\ IsFiniteSet(cart)
      /\ wanted \in [Products -> Nat] /\ Units(cart) = Units(LinesFor(wanted))
      /\ \A j \in cart : /\ j.qty \in Nat /\ j.product \in Products /\ j \in CartItem
      /\ p \in Products /\ i.qty \in Nat \ {0} /\ i.qty = wanted[p] /\ id # NoId
  BY <1>1, <1>2, AtRest
<1>4. PICK s \in server : s.id = id /\ s.product = p
  BY <1>1, <1>2, AtRest
<1>5. wanted' = w2
  <2>1. wanted[p] + (q - i.qty) = q
    BY <1>3
  <2>2. wanted' = [wanted EXCEPT ![p] = wanted[p] + (q - i.qty)]
    BY <1>1
  <2> QED
    BY <2>1, <2>2
<1>6. w2 \in [Products -> Nat] /\ w2[p] = q /\ \A r \in Products \ {p} : w2[r] = wanted[r]
  BY <1>1, <1>3
<1>7. id \in 1..MaxCalls /\ SendCall("update", [id |-> id, qty |-> q])
      /\ NewCall("update", [id |-> id, qty |-> q]) \in CallMade
  <2>1. id \in 1..MaxCalls
    BY <1>3 DEF CartItem
  <2> QED
    BY <1>1, <1>3, <2>1, CallsOfEachKind DEF UpdateQuantity, SendCallIf
<1>8. CartInStep'
  <2>1. calls'[n] = NewCall("update", [id |-> id, qty |-> q])
    BY <1>0, <1>7, Sent
  <2>2. ServedCart(n)' = AfterUpdate(server, s.id, q)
    <3>1. calls'[n].kind = "update" /\ calls'[n].args.id = id /\ calls'[n].args.qty = q
      BY <2>1 DEF NewCall
    <3> HIDE DEF id
    <3>2. ServedCart(n)' = ServedUpdate(n)'
      BY <3>1 DEF ServedCart
    <3> QED
      BY <1>1, <1>4, <3>1, <3>2 DEF ServedUpdate, AtServer, AfterUpdate
  <2>3. OneLineEach(AfterUpdate(server, s.id, q)) /\ Tally(AfterUpdate(server, s.id, q), w2)
    <3>1. server \in SUBSET ServerItem
      BY DEF CartTypeOK
    <3> QED
      BY <1>1, <1>3, <1>4, <3>1, UpdateTallies
  <2>4. wanted' \in [Products -> Nat] /\ Tally(AfterUpdate(server, s.id, q), wanted')
    BY <1>5, <1>6, <2>3
  <2>5. calm /\ CartQuiet /\ signedIn /\ UNCHANGED <<signedIn, server>>
    BY <1>1
  <2> HIDE DEF id, w2
  <2> QED
    BY <1>0, <1>2, <1>7, <2>2, <2>3, <2>4, <2>5, OneCallSent
<1>9. k.product = p /\ k.qty = q /\ \A j \in cart \ {i} : j.product # p
  <2>1. k.product = p /\ k.qty = q
    BY <1>3 DEF CartItem
  <2> QED
    BY <1>3, <2>1 DEF OnePerProduct
<1> HIDE DEF k
<1>10. Units(cart') = Units(LinesFor(w2))
  <2>1. k \notin cart \ {i}
    BY <1>9
  <2>2. Units((cart \ {i}) \cup {k}) = Units(cart) - i.qty + k.qty
    BY <1>1, <1>3, <1>9, <2>1, OneLineChanged
  <2>3. Units(LinesFor(w2)) = Units(LinesFor(wanted)) - wanted[p] + q
    BY <1>1, <1>3, WantingAnother
  <2> QED
    BY <1>1, <1>3, <1>9, <2>2, <2>3
<1>11. {j.product : j \in cart'} = {r \in Products : w2[r] # 0}
  <2>1. {j.product : j \in cart} = {r \in Products : wanted[r] # 0}
    BY <1>1 DEF CalmCart, CalmScreen
  <2>2. {j.product : j \in (cart \ {i}) \cup {k}} = {j.product : j \in cart}
    BY <1>9
  <2>3. {r \in Products : w2[r] # 0} = {r \in Products : wanted[r] # 0}
    BY <1>1, <1>3, <1>6
  <2> QED
    BY <1>1, <2>1, <2>2, <2>3
<1>12. CalmScreen'
  BY <1>5, <1>10, <1>11 DEF CalmScreen, WantedLines, LinesFor
<1> QED
  BY <1>8, <1>12 DEF CalmCart

LEMMA FetchKeepsCalm ==
  ASSUME CartTypeOK, CalmCart, FetchFromBackend
  PROVE  CalmCart'
<1> SUFFICES ASSUME calm' PROVE CalmCart'
  BY DEF CalmCart, CartInStep, CalmScreen
<1>0. PICK n : n = Len(calls) + 1
  OBVIOUS
<1>1. /\ calm /\ CartQuiet /\ signedIn /\ UNCHANGED <<signedIn, server>>
      /\ wanted' = wanted /\ cart' = cart /\ mutationVersion' = mutationVersion
      /\ SendCall("fetch", <<>>) /\ NewCall("fetch", <<>>) \in CallMade
  BY CallsOfEachKind DEF FetchFromBackend, Recall
<1>2. CartInStep
  BY DEF CalmCart
<1>3. OneLineEach(server) /\ Tally(server, wanted) /\ wanted \in [Products -> Nat]
  BY <1>1, <1>2, AtRest
<1>4. CartInStep'
  <2>1. calls'[n] = NewCall("fetch", <<>>)
    BY <1>0, <1>1, Sent
  <2>2. calls'[n].kind = "fetch"
    BY <2>1 DEF NewCall
  <2>3. ServedCart(n)' = server
    BY <1>1, <2>2 DEF ServedCart
  <2> QED
    BY <1>0, <1>1, <1>2, <1>3, <2>3, OneCallSent
<1> QED
  BY <1>1, <1>4 DEF CalmCart, CalmScreen, WantedLines

\* Emptying the cart: the service is asked to, when there is one to ask.
LEMMA ClearKeepsCalm ==
  ASSUME CartTypeOK, CalmCart, ClearCart, UNCHANGED <<signedIn, server>>
  PROVE  CalmCart'
<1> SUFFICES ASSUME calm' PROVE CalmCart'
  BY DEF CalmCart, CartInStep, CalmScreen
<1>0. PICK n : n = Len(calls) + 1
  OBVIOUS
<1>1. calm /\ CartQuiet /\ wanted' = NoneWanted /\ cart' = {}
  BY DEF ClearCart, Recall
<1>2. CartInStep
  BY DEF CalmCart
<1>3. CalmScreen'
  <2>1. \A p \in Products : NoneWanted[p] = 0
    BY DEF NoneWanted
  <2>2. Units({}) = Units(LinesFor(NoneWanted))
    BY NoUnits, NothingTallies
  <2> QED
    BY <1>1, <2>1, <2>2 DEF CalmScreen, WantedLines, LinesFor
<1>4. CASE signedIn
  <2>1. SendCall("clear", <<>>) /\ NewCall("clear", <<>>) \in CallMade
    BY <1>4, CallsOfEachKind DEF ClearCart, SendCallIf
  <2>2. calls'[n] = NewCall("clear", <<>>)
    BY <1>0, <2>1, Sent
  <2>3. calls'[n].kind = "clear"
    BY <2>2 DEF NewCall
  <2>4. ServedCart(n)' = {}
    BY <2>3 DEF ServedCart
  <2>5. wanted' \in [Products -> Nat] /\ OneLineEach({}) /\ Tally({}, wanted')
    BY <1>1, NothingTallies
  <2>6. CartInStep'
    <3> DEFINE After == {}
    <3>1. ServedCart(n)' = After /\ OneLineEach(After) /\ Tally(After, wanted')
      BY <2>4, <2>5
    <3>2. calm /\ CartQuiet /\ cart' = {} /\ wanted' = NoneWanted
      BY <1>1
    <3> HIDE DEF After
    <3> QED
      BY <1>0, <1>2, <1>4, <2>1, <2>5, <3>1, <3>2, OneCallSent
  <2> QED
    BY <1>3, <2>6 DEF CalmCart
<1>5. CASE ~signedIn
  <2>1. cart = {} /\ server = {} /\ calls' = calls
    BY <1>1, <1>2, <1>5 DEF CartInStep, ClearCart, SendCallIf
  <2>2. CallsRunning' = {}
    BY <1>1, <2>1 DEF CartQuiet, CallsRunning
  <2> QED
    BY <1>1, <1>3, <2>1, <2>2, NothingTallies DEF CartInStep, CartQuiet, CalmCart
<1> QED
  BY <1>4, <1>5

LEMMA ToggleKeepsCalm ==
  ASSUME CartTypeOK, CalmCart, ToggleSession
  PROVE  CalmCart'
<1> SUFFICES ASSUME calm' PROVE CalmCart'
  BY DEF CalmCart, CartInStep, CalmScreen
<1>1. /\ calm /\ CartQuiet /\ cart = {} /\ server = {}
      /\ UNCHANGED <<cart, server, calls, mutationVersion, wanted>>
  BY DEF ToggleSession, Recall
<1>2. CallsRunning' = {}
  BY <1>1 DEF CartQuiet, CallsRunning
<1>3. CartInStep'
  BY <1>1, <1>2, NothingTallies DEF CalmCart, CartInStep, CartQuiet
<1> QED
  BY <1>1, <1>3 DEF CalmCart, CalmScreen, WantedLines

\* The request is served: the service holds what it brings.
LEMMA ServeKeepsCalm ==
  ASSUME CartTypeOK, CalmCart, NEW c \in CallsRunning, ServeCall(c)
  PROVE  CalmCart'
<1> SUFFICES ASSUME calm PROVE CalmCart'
  BY DEF CalmCart, CartInStep, CalmScreen, ServeCall
<1>1. /\ DOMAIN calls' = DOMAIN calls /\ server' = ServedCart(c)
      /\ \A k \in DOMAIN calls \ {c} : calls'[k] = calls[k]
      /\ calls'[c] = [calls[c] EXCEPT !.stage = "served", !.answer = ServedCart(c)]
  BY Serving
<1>2. calls[c].stage = "sent" /\ UNCHANGED <<cart, mutationVersion, signedIn, wanted, calm>>
  BY DEF ServeCall
<1>3. /\ calls'[c].stage = "served" /\ calls'[c].answer = ServedCart(c)
      /\ calls'[c].kind = calls[c].kind /\ calls'[c].version = calls[c].version
      /\ c \in DOMAIN calls
  <2>1. calls[c] = [kind |-> calls[c].kind, args |-> calls[c].args,
                    version |-> calls[c].version, stage |-> calls[c].stage,
                    answer |-> calls[c].answer]
        /\ c \in DOMAIN calls
    BY RunningCall
  <2> QED
    BY <1>1, <2>1
<1>4. CallsRunning' = CallsRunning
  BY <1>1, <1>2, <1>3 DEF CallsRunning
<1>5. /\ wanted \in [Products -> Nat] /\ \A d \in CallsRunning : d = c
      /\ CallInStep(c) /\ signedIn
      /\ \A i \in server : i.id \in DOMAIN calls /\ calls[i.id].stage # "sent"
  BY DEF CalmCart, CartInStep, CartQuiet
<1>6. CallInStep(c)'
  BY <1>1, <1>2, <1>3, <1>5 DEF CallInStep
<1>7. \A i \in ServedCart(c) : i.id = c \/ \E j \in server : j.id = i.id
  <2>1. calls[c].kind \in {"add", "update", "remove", "clear", "fetch"}
    BY RunningCall
  <2>2. \A j \in server : [j EXCEPT !.qty = @ + 1].id = j.id
    BY DEF CartTypeOK, ServerItem
  <2>3. \A j \in server : [j EXCEPT !.qty = calls[c].args.qty].id = j.id
    BY DEF CartTypeOK, ServerItem
  <2>4. CASE calls[c].kind = "add"
    <3>1. ServedCart(c) = ServedAdd(c)
      BY <2>4 DEF ServedCart
    <3> DEFINE new == [id |-> c, product |-> calls[c].args.product, qty |-> 1]
               more(j) == [j EXCEPT !.qty = @ + 1]
    <3>2. new.id = c /\ \A j \in server : more(j).id = j.id
      BY <2>2
    <3>3. \A i \in ServedAdd(c) : i \in server \/ i = new \/ \E j \in server : i = more(j)
      BY DEF ServedAdd, OfProduct
    <3> HIDE DEF new, more
    <3> QED
      BY <3>1, <3>2, <3>3
  <2>5. CASE calls[c].kind = "update"
    <3>1. ServedCart(c) = ServedUpdate(c)
      BY <2>5 DEF ServedCart
    <3> QED
      BY <2>3, <3>1 DEF ServedUpdate, AtServer
  <2>6. CASE calls[c].kind \in {"remove", "clear", "fetch"}
    BY <2>6 DEF ServedCart
  <2> QED
    BY <2>1, <2>4, <2>5, <2>6
<1>8. \A i \in server' : i.id \in DOMAIN calls' /\ calls'[i.id].stage # "sent"
  <2> SUFFICES ASSUME NEW i \in ServedCart(c)
               PROVE  i.id \in DOMAIN calls' /\ calls'[i.id].stage # "sent"
    BY <1>1
  <2>1. CASE i.id = c
    BY <1>1, <1>3, <2>1
  <2>2. CASE i.id # c
    <3>1. i.id \in DOMAIN calls /\ calls[i.id].stage # "sent"
      BY <1>5, <1>7, <2>2
    <3> QED
      BY <1>1, <2>2, <3>1
  <2> QED
    BY <2>1, <2>2
<1>9. ~CartQuiet'
  BY <1>4 DEF CartQuiet
<1>10. \A d \in CallsRunning' : CallInStep(d)'
  BY <1>4, <1>5, <1>6
<1>11. CartInStep'
  BY <1>2, <1>4, <1>5, <1>8, <1>9, <1>10 DEF CartInStep
<1> QED
  BY <1>2, <1>11 DEF CalmCart, CalmScreen, WantedLines

\* The answer arrives: the screen shows what the service holds.
LEMMA AnswerKeepsCalm ==
  ASSUME CartTypeOK, CalmCart, NEW c \in CallsRunning, AnswerCall(c)
  PROVE  CalmCart' /\ calm' = calm
<1> SUFFICES ASSUME calm PROVE CalmCart'
  BY DEF CalmCart, CartInStep, CalmScreen, AnswerCall
<1>1. /\ DOMAIN calls' = DOMAIN calls /\ calls'[c] = Over
      /\ \A k \in DOMAIN calls \ {c} : calls'[k] = calls[k]
  <2>1. Over \in CallMade
    BY DEF CallMade
  <2> QED
    BY <2>1, CallReplaced DEF AnswerCall
<1>2. /\ calls[c].stage = "served"
      /\ UNCHANGED <<mutationVersion, signedIn, server, wanted, calm>>
      /\ cart' = IF AnswerApplies(c) THEN FromBackend(calls[c].answer) ELSE cart
  BY DEF AnswerCall
<1>3. /\ wanted \in [Products -> Nat] /\ \A d \in CallsRunning : d = c
      /\ CallInStep(c) /\ signedIn
      /\ \A i \in server : i.id \in DOMAIN calls /\ calls[i.id].stage # "sent"
  BY DEF CalmCart, CartInStep, CartQuiet
<1>4. CallsRunning' = {}
  BY <1>1, <1>3 DEF CallsRunning, Over
<1>5. /\ OneLineEach(server) /\ Tally(server, wanted) /\ calls[c].answer = server
      /\ calls[c].kind = "clear" => cart = {} /\ wanted = NoneWanted
      /\ calls[c].kind = "fetch" => calls[c].version = mutationVersion
  BY <1>2, <1>3 DEF CallInStep
<1>6. server \in SUBSET ServerItem
  BY DEF CartTypeOK
<1>7. cart' = FromBackend(server)
  <2>1. CASE calls[c].kind = "clear"
    <3>1. server = {} /\ cart = {}
      BY <1>5, <1>6, <2>1, NothingTallies
    <3> QED
      BY <1>2, <1>5, <3>1, NothingTallies
  <2>2. CASE calls[c].kind # "clear"
    BY <1>2, <1>5, <2>2 DEF AnswerApplies
  <2> QED
    BY <2>1, <2>2
<1>8. \A i \in server' : i.id \in DOMAIN calls' /\ calls'[i.id].stage # "sent"
  BY <1>1, <1>2, <1>3 DEF Over
<1>9. CartInStep'
  BY <1>2, <1>3, <1>4, <1>5, <1>7, <1>8 DEF CartInStep
<1>10. CalmScreen'
  <2>1. /\ Units(cart') = Units(LinesFor(wanted))
        /\ {i.product : i \in cart'} = {p \in Products : wanted[p] # 0}
    BY <1>3, <1>5, <1>6, <1>7, ScreenTallies
  <2> QED
    BY <1>2, <2>1 DEF CalmScreen, WantedLines, LinesFor
<1> QED
  BY <1>9, <1>10 DEF CalmCart

\* After a failure the shopper is not calm any more.
LEMMA TrafficKeepsCalm ==
  ASSUME CartTypeOK, CalmCart, CartTraffic
  PROVE  CalmCart'
<1>1. PICK c \in CallsRunning : ServeCall(c) \/ FailCall(c) \/ AnswerCall(c)
  BY DEF CartTraffic
<1>2. CASE FailCall(c)
  BY <1>2 DEF FailCall, Recall, CalmCart, CartInStep, CalmScreen
<1> QED
  BY <1>1, <1>2, ServeKeepsCalm, AnswerKeepsCalm

LEMMA ShopperKeepsCalm ==
  ASSUME CartTypeOK, CalmCart, ShopperActs
  PROVE  CalmCart'
<1>1. ASSUME NEW i \in cart, NEW q \in {i.qty - 1, i.qty + 1}, UpdateQuantity(i, q)
      PROVE  CalmCart'
  <2>1. i.qty \in Nat \ {0}
    BY DEF CartTypeOK, CartItem
  <2> QED
    BY <1>1, <2>1, UpdateKeepsCalm
<1> QED
  BY <1>1, AddKeepsCalm, RemoveKeepsCalm, FetchKeepsCalm DEF ShopperActs

LEMMA StayingKeepsCalm ==
  ASSUME CartTypeOK, CalmCart, UNCHANGED cartVars
  PROVE  CartTypeOK' /\ CalmCart'
<1>1. /\ UNCHANGED <<cart, mutationVersion, signedIn, server, calls, wanted, calm>>
  BY DEF cartVars
<1>2. CartTypeOK'
  BY <1>1 DEF CartTypeOK
<1>3. CallsRunning' = CallsRunning /\ CartQuiet' = CartQuiet
  BY <1>1 DEF CallsRunning, CartQuiet
<1>4. \A c : CallInStep(c)' = CallInStep(c)
  BY <1>1 DEF CallInStep, ServedCart, ServedAdd, ServedUpdate, OfProduct, AtServer
<1> QED
  BY <1>1, <1>2, <1>3, <1>4 DEF CalmCart, CartInStep, CalmScreen, WantedLines

LEMMA CalmStart ==
  ASSUME CartInit
  PROVE  CartTypeOK /\ CalmCart
<1>1. CartTypeOK
  <2>1. wanted \in [Products -> Int]
    BY DEF CartInit, NoneWanted
  <2>2. calls \in Seq(CallMade) /\ Len(calls) <= MaxCalls
    BY CartAssumption DEF CartInit
  <2> QED
    BY <2>1, <2>2 DEF CartInit, CartTypeOK
<1>2. CallsRunning = {} /\ CartQuiet
  BY DEF CartInit, CallsRunning, CartQuiet
<1>3. CartInStep
  BY <1>2, NothingTallies DEF CartInit, CartInStep
<1>4. CalmScreen
  BY NoUnits, NothingTallies DEF CartInit, CalmScreen, WantedLines, LinesFor, NoneWanted
<1> QED
  BY <1>1, <1>3, <1>4 DEF CalmCart

\* Calm at rest, the screen and the service hold what is wanted.
LEMMA CalmIsShared ==
  ASSUME CartTypeOK, CalmCart
  PROVE  CalmCartIsShared
<1> SUFFICES ASSUME calm, CartQuiet, NEW p \in Products
             PROVE  UnitsIn(cart, p) = wanted[p] /\ UnitsIn(server, p) = wanted[p]
  BY DEF CalmCartIsShared
<1>1. /\ OneLineEach(server) /\ Tally(server, wanted) /\ OnePerProduct(cart)
      /\ Tally(cart, wanted) /\ wanted \in [Products -> Nat]
  BY AtRest DEF CalmCart
<1>2. OnePerProduct(server)
  BY <1>1 DEF OnePerProduct, OneLineEach
<1> QED
  BY <1>1, <1>2, TallyIn

-----------------------------------------------------------------------------
(* There are finitely many lines anywhere.                                 *)

LEMMA FiniteChanges ==
  ASSUME NEW S, IsFiniteSet(S)
  PROVE  /\ IsFiniteSet({[i EXCEPT !.qty = @ + 1] : i \in S})
         /\ IsFiniteSet(FromBackend(S))
<1>1. IsFiniteSet({[i EXCEPT !.qty = @ + 1] : i \in S})
  <2> DEFINE f == [i \in S |-> [i EXCEPT !.qty = @ + 1]]
  <2>1. f \in Surjection(S, {[i EXCEPT !.qty = @ + 1] : i \in S})
    BY Fun_IsSurj
  <2> QED
    BY <2>1, FS_Surjection
<1>2. IsFiniteSet(FromBackend(S))
  <2> DEFINE f == [i \in S |-> [product |-> i.product, variant |-> NoVariant,
                                qty |-> i.qty, backendId |-> i.id]]
  <2>1. f \in Surjection(S, FromBackend(S))
    BY Fun_IsSurj DEF FromBackend
  <2> QED
    BY <2>1, FS_Surjection
<1> QED
  BY <1>1, <1>2

LEMMA FiniteParts ==
  ASSUME NEW S, IsFiniteSet(S)
  PROVE  /\ \A T : T \subseteq S => IsFiniteSet(T)
         /\ \A j : IsFiniteSet(S \cup {j})
         /\ \A T : IsFiniteSet(T) => IsFiniteSet(S \cup T)
BY FS_Subset, FS_AddElement, FS_Union

\* What a request carries, or what it leaves to the service, is finite.
LEMMA SendingFinite ==
  ASSUME CartTypeOK, CartFinite, NEW cond, NEW kind, NEW args,
         SendCallIf(cond, kind, args), cond => NewCall(kind, args) \in CallMade,
         IsFiniteSet(cart'), server' = server
  PROVE  CartFinite'
<1>1. \A c \in CallsRunning' : IsFiniteSet(calls'[c].answer)
  <2>1. CASE cond
    <3>1. /\ DOMAIN calls = 1..Len(calls) /\ DOMAIN calls' = 1..(Len(calls) + 1)
          /\ \A k \in 1..Len(calls) : calls'[k] = calls[k]
          /\ calls'[Len(calls) + 1] = NewCall(kind, args) /\ Len(calls) \in Nat
      BY <2>1, Sent DEF SendCallIf
    <3>2. NewCall(kind, args).answer = {}
      BY DEF NewCall
    <3>3. \A c \in CallsRunning' : c \in CallsRunning \/ c = Len(calls) + 1
      BY <3>1 DEF CallsRunning
    <3>4. \A c \in CallsRunning : c \in 1..Len(calls)
      BY <3>1 DEF CallsRunning
    <3> QED
      BY <3>1, <3>2, <3>3, <3>4, FS_EmptySet DEF CartFinite
  <2>2. CASE ~cond
    BY <2>2 DEF SendCallIf, CartFinite, CallsRunning
  <2> QED
    BY <2>1, <2>2
<1> QED
  BY <1>1 DEF CartFinite

LEMMA ShopperFinite ==
  ASSUME CartTypeOK, CartFinite,
         \/ ShopperActs
         \/ ToggleSession
         \/ ClearCart /\ UNCHANGED <<signedIn, server>>
  PROVE  CartFinite'
<1>0. IsFiniteSet(cart) /\ \A i \in cart : i \in CartItem
  BY DEF CartFinite, CartTypeOK
<1>1. ASSUME NEW l \in CartLines, AddItem(l) PROVE CartFinite'
  <2>1. IsFiniteSet(LinesAt(l)) /\ IsFiniteSet(cart \ LinesAt(l))
    BY <1>0, FiniteParts DEF LinesAt
  <2>2. IsFiniteSet({[i EXCEPT !.qty = @ + 1] : i \in LinesAt(l)})
    BY <2>1, FiniteChanges
  <2>3. IsFiniteSet((cart \ LinesAt(l)) \cup {[i EXCEPT !.qty = @ + 1] : i \in LinesAt(l)})
    BY <2>1, <2>2, FiniteParts
  <2>4. IsFiniteSet(cart \cup {[product |-> l.product, variant |-> l.variant,
                                qty |-> 1, backendId |-> NoId]})
    BY <1>0, FiniteParts
  <2>5. IsFiniteSet(cart') /\ server' = server
    BY <1>1, <2>3, <2>4 DEF AddItem
  <2>6. l.product \in Products
    BY DEF CartLines
  <2>7. SendCallIf(signedIn, "add", [product |-> l.product])
        /\ NewCall("add", [product |-> l.product]) \in CallMade
    BY <1>1, <2>6, CallsOfEachKind DEF AddItem
  <2> QED
    BY <2>5, <2>7, SendingFinite
<1>2. ASSUME NEW i \in cart, RemoveItem(i) PROVE CartFinite'
  <2>1. IsFiniteSet(cart') /\ server' = server
    BY <1>0, <1>2, FiniteParts DEF RemoveItem
  <2>2. i.backendId # NoId => i.backendId \in 1..MaxCalls
    BY <1>0 DEF CartItem
  <2>3. SendCallIf(signedIn /\ i.backendId # NoId, "remove", [id |-> i.backendId])
    BY <1>2 DEF RemoveItem
  <2>4. signedIn /\ i.backendId # NoId => NewCall("remove", [id |-> i.backendId]) \in CallMade
    BY <2>2, CallsOfEachKind
  <2> QED
    BY <2>1, <2>3, <2>4, SendingFinite
<1>3. ASSUME NEW i \in cart, NEW q \in {i.qty - 1, i.qty + 1}, UpdateQuantity(i, q)
      PROVE  CartFinite'
  <2>1. IsFiniteSet(cart \ {i})
    BY <1>0, FiniteParts
  <2>2. IsFiniteSet(cart') /\ server' = server
    BY <1>3, <2>1, FiniteParts DEF UpdateQuantity
  <2>3. /\ i.backendId # NoId => i.backendId \in 1..MaxCalls
        /\ i.qty \in Nat \ {0}
    BY <1>0 DEF CartItem
  <2>4. q \in Nat \ {0}
    BY <1>3, <2>3 DEF UpdateQuantity
  <2>5. SendCallIf(signedIn /\ i.backendId # NoId, "update", [id |-> i.backendId, qty |-> q])
    BY <1>3 DEF UpdateQuantity
  <2>6. signedIn /\ i.backendId # NoId =>
          NewCall("update", [id |-> i.backendId, qty |-> q]) \in CallMade
    BY <2>3, <2>4, CallsOfEachKind
  <2> QED
    BY <2>2, <2>5, <2>6, SendingFinite
<1>4. CASE FetchFromBackend
  <2>1. SendCallIf(TRUE, "fetch", <<>>) /\ NewCall("fetch", <<>>) \in CallMade
        /\ cart' = cart /\ server' = server
    BY <1>4, CallsOfEachKind DEF FetchFromBackend, SendCallIf
  <2> QED
    BY <1>0, <2>1, SendingFinite
<1>5. CASE ToggleSession
  BY <1>5 DEF ToggleSession, CartFinite, CallsRunning
<1>6. CASE ClearCart /\ UNCHANGED <<signedIn, server>>
  <2>1. SendCallIf(signedIn, "clear", <<>>) /\ NewCall("clear", <<>>) \in CallMade
        /\ cart' = {} /\ server' = server
    BY <1>6, CallsOfEachKind DEF ClearCart
  <2> QED
    BY <2>1, FS_EmptySet, SendingFinite
<1> QED
  BY <1>1, <1>2, <1>3, <1>4, <1>5, <1>6 DEF ShopperActs

LEMMA ServedFinite ==
  ASSUME CartTypeOK, CartFinite, NEW c \in CallsRunning
  PROVE  IsFiniteSet(ServedCart(c))
<1>1. IsFiniteSet(server)
      /\ calls[c].kind \in {"add", "update", "remove", "clear", "fetch"}
  BY RunningCall DEF CartFinite
<1>2. CASE calls[c].kind = "add"
  <2> DEFINE old == OfProduct(calls[c].args.product)
             new == [id |-> c, product |-> calls[c].args.product, qty |-> 1]
  <2>1. IsFiniteSet(old) /\ IsFiniteSet(server \ old) /\ IsFiniteSet(server \cup {new})
    BY <1>1, FiniteParts DEF OfProduct
  <2>2. IsFiniteSet({[i EXCEPT !.qty = @ + 1] : i \in old})
    BY <2>1, FiniteChanges
  <2>3. IsFiniteSet((server \ old) \cup {[i EXCEPT !.qty = @ + 1] : i \in old})
    BY <2>1, <2>2, FiniteParts
  <2>4. ServedCart(c) = ServedAdd(c)
    BY <1>2 DEF ServedCart
  <2> QED
    BY <2>1, <2>3, <2>4 DEF ServedAdd
<1>3. CASE calls[c].kind = "update"
  <2> DEFINE old == AtServer(calls[c].args.id)
  <2>1. IsFiniteSet(old) /\ IsFiniteSet(server \ old)
    BY <1>1, FiniteParts DEF AtServer
  <2>2. IsFiniteSet({[i EXCEPT !.qty = calls[c].args.qty] : i \in old})
    <3> DEFINE f == [i \in old |-> [i EXCEPT !.qty = calls[c].args.qty]]
    <3>1. f \in Surjection(old, {[i EXCEPT !.qty = calls[c].args.qty] : i \in old})
      BY Fun_IsSurj
    <3> QED
      BY <2>1, <3>1, FS_Surjection
  <2>3. IsFiniteSet((server \ old) \cup {[i EXCEPT !.qty = calls[c].args.qty] : i \in old})
    BY <2>1, <2>2, FiniteParts
  <2>4. ServedCart(c) = ServedUpdate(c)
    BY <1>3 DEF ServedCart
  <2> QED
    BY <2>3, <2>4 DEF ServedUpdate
<1>4. CASE calls[c].kind \in {"remove", "clear", "fetch"}
  <2>1. ServedCart(c) \subseteq server
    BY <1>4 DEF ServedCart
  <2> QED
    BY <1>1, <2>1, FiniteParts
<1> QED
  BY <1>1, <1>2, <1>3, <1>4

LEMMA TrafficFinite ==
  ASSUME CartTypeOK, CartFinite, CartTraffic
  PROVE  CartFinite'
<1>1. PICK c \in CallsRunning : ServeCall(c) \/ FailCall(c) \/ AnswerCall(c)
  BY DEF CartTraffic
<1>2. CASE ServeCall(c)
  <2>1. IsFiniteSet(ServedCart(c))
    BY ServedFinite
  <2>2. calls[c] = [kind |-> calls[c].kind, args |-> calls[c].args,
                    version |-> calls[c].version, stage |-> calls[c].stage,
                    answer |-> calls[c].answer]
    BY RunningCall
  <2>3. /\ DOMAIN calls' = DOMAIN calls /\ server' = ServedCart(c) /\ cart' = cart
        /\ \A k \in DOMAIN calls \ {c} : calls'[k] = calls[k]
        /\ calls'[c] = [calls[c] EXCEPT !.stage = "served", !.answer = ServedCart(c)]
    BY <1>2, Serving DEF ServeCall
  <2>4. calls'[c].answer = ServedCart(c)
    BY <2>2, <2>3
  <2> QED
    BY <2>1, <2>3, <2>4 DEF CartFinite, CallsRunning
<1>3. ASSUME calls' = [calls EXCEPT ![c] = Over], server' = server, IsFiniteSet(cart')
      PROVE  CartFinite'
  <2>1. Over \in CallMade
    BY DEF CallMade
  <2>2. /\ DOMAIN calls' = DOMAIN calls /\ calls'[c] = Over
        /\ \A k \in DOMAIN calls \ {c} : calls'[k] = calls[k]
    BY <1>3, <2>1, CallReplaced
  <2> QED
    BY <1>3, <2>2 DEF CartFinite, CallsRunning, Over
<1>4. CASE FailCall(c)
  BY <1>3, <1>4 DEF FailCall, CartFinite
<1>5. CASE AnswerCall(c)
  <2>1. IsFiniteSet(FromBackend(calls[c].answer)) /\ IsFiniteSet(cart)
    BY FiniteChanges DEF CartFinite
  <2> QED
    BY <1>3, <1>5, <2>1 DEF AnswerCall
<1> QED
  BY <1>1, <1>2, <1>4, <1>5

-----------------------------------------------------------------------------
(* The cart in the steps of the checkout.                                  *)

allVars == <<cartVars, checkoutVars>>

RecallOnly ==
  /\ \E waits \in BOOLEAN : Recall(wanted, waits)
  /\ UNCHANGED <<cart, mutationVersion, signedIn, server, calls>>

CartPart ==
  \/ ShopperActs \/ ToggleSession \/ CartTraffic
  \/ ClearCart /\ UNCHANGED <<signedIn, server>>
  \/ UNCHANGED cartVars
  \/ RecallOnly

LEMMA CheckoutMovesTheCart ==
  ASSUME [CheckoutNext]_allVars
  PROVE  CartPart
<1>1. CASE CheckoutActs
  <2>1. Submitting \in BOOLEAN /\ CartQuiet \in BOOLEAN
    BY DEF Submitting, CartQuiet
  <2>2. CASE LeaveCheckout
    BY <2>1, <2>2 DEF LeaveCheckout, CartPart, RecallOnly
  <2>3. CASE \E m \in {"cod", "bkash"} : PlaceOrder(m)
    BY <2>1, <2>3 DEF PlaceOrder, CartPart, RecallOnly
  <2> QED
    BY <1>1, <2>2, <2>3 DEF CheckoutActs, OpenCheckout, FetchShippingRates, ApplyCoupon,
       RemoveCoupon, CouponAnswered, KeepCart, CartPart
<1>2. CASE PlacingGoesOn
  BY <1>2 DEF PlacingGoesOn, CreateAnswered, CreateFailed, FinishOrder, KeepCart, CartPart
<1> QED
  BY <1>1, <1>2 DEF CheckoutNext, CartPart, allVars

LEMMA CartPartTypes ==
  ASSUME CartTypeOK, CartFinite, CartPart
  PROVE  CartTypeOK' /\ CartFinite'
<1>1. CASE RecallOnly
  <2>1. wanted' \in [Products -> Int] /\ calm' \in BOOLEAN
    BY <1>1, RecallTypes DEF RecallOnly, CartTypeOK
  <2> QED
    BY <1>1, <2>1 DEF RecallOnly, CartTypeOK, CartFinite, CallsRunning
<1>2. CASE UNCHANGED cartVars
  BY <1>2 DEF cartVars, CartTypeOK, CartFinite, CallsRunning
<1>3. CASE \/ ShopperActs
           \/ ToggleSession
           \/ ClearCart /\ UNCHANGED <<signedIn, server>>
  <2>1. CartTypeOK'
    BY <1>3, ShopperTypes
  <2>2. CartFinite'
    BY <1>3, ShopperFinite
  <2> QED
    BY <2>1, <2>2
<1>4. CASE CartTraffic
  BY <1>4, TrafficTypes, TrafficFinite
<1>5. \/ RecallOnly \/ UNCHANGED cartVars \/ CartTraffic
      \/ ShopperActs
      \/ ToggleSession
      \/ ClearCart /\ UNCHANGED <<signedIn, server>>
  BY DEF CartPart
<1> HIDE DEF CartPart
<1> QED
  BY <1>1, <1>2, <1>3, <1>4, <1>5

LEMMA CartPartCalm ==
  ASSUME CartTypeOK, CalmCart, CartPart
  PROVE  CalmCart'
<1>1. CASE RecallOnly
  <2>1. CASE calm'
    <3>1. UNCHANGED cartVars
      BY <1>1, <2>1 DEF RecallOnly, Recall, cartVars, CartTypeOK
    <3> QED
      BY <3>1, StayingKeepsCalm
  <2>2. CASE ~calm'
    BY <2>2 DEF CalmCart, CartInStep, CalmScreen
  <2> QED
    BY <2>1, <2>2
<1> QED
  BY <1>1, ShopperKeepsCalm, ToggleKeepsCalm, TrafficKeepsCalm, ClearKeepsCalm,
     StayingKeepsCalm DEF CartPart

-----------------------------------------------------------------------------
(* What each step of the checkout makes of the orders.                     *)

AnOrder == StandingOrder \cup [visit : Nat, stage : {"failed"}]

LEMMA Standing ==
  ASSUME CheckoutTypeOK, NEW o \in DOMAIN placing
  PROVE  /\ placing[o].visit \in Nat /\ placing[o] \in AnOrder
         /\ placing[o].stage # "failed" => placing[o] \in StandingOrder
         /\ placing[o].stage \in {"creating", "paying", "done", "failed"}
         /\ DOMAIN placing = 1..Len(placing) /\ Len(placing) \in Nat
<1>1. placing[o] \in AnOrder /\ DOMAIN placing = 1..Len(placing) /\ Len(placing) \in Nat
  BY DEF CheckoutTypeOK, AnOrder
<1> QED
  BY <1>1 DEF AnOrder, StandingOrder

LEMMA OrderReplaced ==
  ASSUME CheckoutTypeOK, NEW o \in DOMAIN placing, NEW r \in AnOrder,
         placing' = [placing EXCEPT ![o] = r]
  PROVE  /\ placing' \in Seq(AnOrder) /\ DOMAIN placing' = DOMAIN placing
         /\ placing'[o] = r /\ \A k \in DOMAIN placing \ {o} : placing'[k] = placing[k]
<1>1. placing \in Seq(AnOrder)
  BY DEF CheckoutTypeOK, AnOrder
<1> QED
  BY <1>1

\* The order was created: only its stage changes.
LEMMA Created ==
  ASSUME CheckoutTypeOK, NEW o \in DOMAIN placing, CreateAnswered(o)
  PROVE  /\ placing' \in Seq(AnOrder) /\ DOMAIN placing' = DOMAIN placing
         /\ \A k \in DOMAIN placing \ {o} : placing'[k] = placing[k]
         /\ placing'[o].stage = "paying"
         /\ placing'[o].visit = placing[o].visit /\ placing'[o].lines = placing[o].lines
         /\ placing'[o].amount = placing[o].amount /\ placing'[o].paid = placing[o].paid
         /\ placing'[o].coupon = placing[o].coupon
<1> DEFINE r == [placing[o] EXCEPT !.stage = "paying"]
<1>1. placing[o] \in StandingOrder /\ placing' = [placing EXCEPT ![o] = r]
  BY Standing DEF CreateAnswered
<1>2. /\ r \in StandingOrder /\ r.stage = "paying"
      /\ r.visit = placing[o].visit /\ r.lines = placing[o].lines
      /\ r.amount = placing[o].amount /\ r.paid = placing[o].paid
      /\ r.coupon = placing[o].coupon
  BY <1>1 DEF StandingOrder
<1> HIDE DEF r
<1> QED
  BY <1>1, <1>2, OrderReplaced DEF AnOrder

LEMMA NotCreated ==
  ASSUME CheckoutTypeOK, NEW o \in DOMAIN placing, CreateFailed(o)
  PROVE  /\ placing' \in Seq(AnOrder) /\ DOMAIN placing' = DOMAIN placing
         /\ \A k \in DOMAIN placing \ {o} : placing'[k] = placing[k]
         /\ placing'[o].stage = "failed" /\ placing'[o].visit = placing[o].visit
<1> DEFINE r == [visit |-> placing[o].visit, stage |-> "failed"]
<1>1. r \in AnOrder /\ r.stage = "failed" /\ r.visit = placing[o].visit
  BY Standing DEF AnOrder
<1>2. placing' = [placing EXCEPT ![o] = r]
  BY DEF CreateFailed
<1> HIDE DEF r
<1> QED
  BY <1>1, <1>2, OrderReplaced

\* The order is finished: its lines and its amount stay.
LEMMA Finished ==
  ASSUME CheckoutTypeOK, NEW o \in DOMAIN placing, NEW paid \in BOOLEAN,
         FinishOrder(o, paid)
  PROVE  /\ placing' \in Seq(AnOrder) /\ DOMAIN placing' = DOMAIN placing
         /\ \A k \in DOMAIN placing \ {o} : placing'[k] = placing[k]
         /\ placing'[o].stage = "done" /\ placing'[o].asked = wanted
         /\ placing'[o].visit = placing[o].visit /\ placing'[o].lines = placing[o].lines
         /\ placing'[o].amount = placing[o].amount
         /\ placing'[o].paid \in {0, placing[o].amount}
         /\ placing'[o].coupon = placing[o].coupon
<1> DEFINE sum == IF paid THEN placing[o].amount ELSE 0
           r == [placing[o] EXCEPT !.stage = "done", !.asked = wanted, !.paid = sum]
<1>1. placing[o] \in StandingOrder
  BY Standing DEF FinishOrder
<1>2. placing' = [placing EXCEPT ![o] = r]
  BY DEF FinishOrder
<1>3. sum \in Int /\ sum \in {0, placing[o].amount} /\ wanted \in [Products -> Int]
  BY <1>1 DEF StandingOrder, CheckoutTypeOK, CartTypeOK
<1> HIDE DEF sum
<1>4. /\ r \in StandingOrder /\ r.stage = "done" /\ r.asked = wanted /\ r.paid = sum
      /\ r.visit = placing[o].visit /\ r.lines = placing[o].lines
      /\ r.amount = placing[o].amount /\ r.coupon = placing[o].coupon
  BY <1>1, <1>3 DEF StandingOrder
<1> HIDE DEF r
<1> QED
  BY <1>2, <1>3, <1>4, OrderReplaced DEF AnOrder

NewOrder(method) ==
  [visit |-> visit.n, stage |-> "creating", lines |-> cart,
   pays |-> method # "cod" /\ signedIn, paid |-> 0,
   amount |-> GrandTotal(cart, visit), coupon |-> visit.coupon # NoCoupon,
   asked |-> NoneWanted]

LEMMA Numbers ==
  ASSUME CheckoutTypeOK
  PROVE  /\ Units(cart) \in Nat /\ GrandTotal(cart, visit) \in Nat
         /\ CartDeliveryProfile(cart) \in {1, 2} /\ visit.n \in Nat
         /\ visit.quote \in Nat /\ visit.validating \in Nat /\ visit.coupon \in [for : Nat]
<1>1. IsFiniteSet(cart) /\ \A i \in cart : i.qty \in Nat
  BY DEF CheckoutTypeOK, CartFinite, CartTypeOK, CartItem
<1>2. Units(cart) \in Nat
  BY <1>1, UnitsAreFinite
<1>3. /\ visit.n \in Nat
      /\ visit.quote \in Nat /\ visit.validating \in Nat /\ visit.coupon \in [for : Nat]
      /\ visit.coupon.for \in Nat
  BY DEF CheckoutTypeOK
<1>4. GrandTotal(cart, visit) \in Nat
  <2> DEFINE t == Units(cart) + visit.quote - DiscountFor(visit.coupon.for)
  <2>1. t \in Int
    BY <1>2, <1>3 DEF DiscountFor
  <2>2. GrandTotal(cart, visit) = IF t < 0 THEN 0 ELSE t
    BY DEF GrandTotal
  <2> HIDE DEF t
  <2> QED
    BY <2>1, <2>2
<1> QED
  BY <1>2, <1>3, <1>4 DEF CartDeliveryProfile

\* A new order is the last one and leaves the others as they are.
LEMMA Placed ==
  ASSUME CheckoutTypeOK, NEW m \in {"cod", "bkash"}, PlaceOrder(m)
  PROVE  /\ placing' \in Seq(AnOrder)
         /\ DOMAIN placing = 1..Len(placing) /\ Len(placing) \in Nat
         /\ DOMAIN placing' = 1..(Len(placing) + 1)
         /\ \A k \in DOMAIN placing : placing'[k] = placing[k]
         /\ placing'[Len(placing) + 1] = NewOrder(m)
<1>1. NewOrder(m) \in StandingOrder
  <2>1. /\ visit.n \in Nat /\ GrandTotal(cart, visit) \in Int
        /\ cart \in SUBSET CartItem /\ NoneWanted \in [Products -> Int]
        /\ (m # "cod" /\ signedIn) \in BOOLEAN /\ (visit.coupon # NoCoupon) \in BOOLEAN
    BY Numbers DEF CheckoutTypeOK, CartTypeOK, NoneWanted
  <2> QED
    BY <2>1 DEF NewOrder, StandingOrder
<1>2. placing' = Append(placing, NewOrder(m))
  BY DEF PlaceOrder, NewOrder
<1>3. placing \in Seq(AnOrder) /\ NewOrder(m) \in AnOrder
  BY <1>1 DEF CheckoutTypeOK, AnOrder
<1> HIDE DEF NewOrder
<1> QED
  BY <1>2, <1>3

AVisit ==
  [n : Nat, view : {"away", "form", "placed"}, quote : Nat, coupon : [for : Nat],
   validating : Nat]

\* What a step may do to the open page: the checkout's own actions, and the
\* end of an order, which shows that it was placed.
LEMMA VisitMoves ==
  ASSUME CheckoutTypeOK, [CheckoutNext]_allVars
  PROVE  /\ visit' \in AVisit
         /\ \/ visit'.n = visit.n
            \/ visit.view = "away" /\ visit'.n = visit.n + 1 /\ placing' = placing
<1>1. visit \in AVisit /\ visit.n \in Nat
  BY DEF CheckoutTypeOK, AVisit
<1>2. \A k \in Nat : Away(k) \in AVisit /\ Away(k).n = k /\ Away(k).view = "away"
  BY DEF Away, AVisit, NoQuote, NoCoupon
<1>3. CASE UNCHANGED visit
  BY <1>1, <1>3
<1>4. CASE OpenCheckout
  <2>1. visit' = [Away(visit.n + 1) EXCEPT !.view = "form"]
        /\ visit.view = "away" /\ placing' = placing
    BY <1>4 DEF OpenCheckout
  <2>2. Away(visit.n + 1) \in AVisit /\ Away(visit.n + 1).n = visit.n + 1
    BY <1>1, <1>2
  <2> QED
    BY <2>1, <2>2 DEF AVisit
<1>5. CASE LeaveCheckout
  BY <1>1, <1>2, <1>5 DEF LeaveCheckout
<1>6. CASE FetchShippingRates
  <2>1. visit' = [visit EXCEPT !.quote = CartDeliveryProfile(cart)]
        /\ CartDeliveryProfile(cart) \in Nat
    BY <1>6, Numbers DEF FetchShippingRates
  <2> QED
    BY <1>1, <2>1 DEF AVisit
<1>7. CASE ApplyCoupon
  <2>1. visit' = [visit EXCEPT !.validating = Units(cart)] /\ Units(cart) \in Nat
    BY <1>7, Numbers DEF ApplyCoupon
  <2> QED
    BY <1>1, <2>1 DEF AVisit
<1>8. CASE RemoveCoupon
  BY <1>1, <1>8 DEF RemoveCoupon, AVisit, NoCoupon
<1>9. ASSUME NEW valid \in BOOLEAN, CouponAnswered(valid)
      PROVE  visit' \in AVisit /\ visit'.n = visit.n
  <2> DEFINE new == IF valid THEN [for |-> visit.validating] ELSE NoCoupon
  <2>1. new \in [for : Nat]
    BY <1>1 DEF AVisit, NoCoupon
  <2>2. visit' = [visit EXCEPT !.validating = 0, !.coupon = new]
    BY <1>9 DEF CouponAnswered
  <2> HIDE DEF new
  <2> QED
    BY <1>1, <2>1, <2>2 DEF AVisit
<1>10. ASSUME NEW o \in DOMAIN placing, NEW paid \in BOOLEAN, FinishOrder(o, paid)
       PROVE  visit' \in AVisit /\ visit'.n = visit.n
  BY <1>1, <1>10 DEF FinishOrder, AVisit
<1>11. CASE CheckoutActs
  <2>1. CASE \E m \in {"cod", "bkash"} : PlaceOrder(m)
    BY <1>3, <2>1 DEF PlaceOrder
  <2> QED
    BY <1>4, <1>5, <1>6, <1>7, <1>8, <1>9, <1>11, <2>1 DEF CheckoutActs
<1>12. CASE PlacingGoesOn
  <2>1. PICK o \in DOMAIN placing :
          CreateAnswered(o) \/ CreateFailed(o) \/ \E paid \in BOOLEAN : FinishOrder(o, paid)
    BY <1>12 DEF PlacingGoesOn
  <2>2. CASE CreateAnswered(o) \/ CreateFailed(o)
    BY <1>3, <2>2 DEF CreateAnswered, CreateFailed
  <2> QED
    BY <1>10, <2>1, <2>2
<1> QED
  BY <1>3, <1>11, <1>12 DEF CheckoutNext, allVars, checkoutVars

LEMMA CheckoutTypesKept ==
  ASSUME CheckoutTypeOK, [CheckoutNext]_allVars
  PROVE  CheckoutTypeOK'
<1>1. CartTypeOK' /\ CartFinite'
  BY CheckoutMovesTheCart, CartPartTypes DEF CheckoutTypeOK
<1>2. visit' \in AVisit
  BY VisitMoves
<1>3. placing' \in Seq(AnOrder)
  <2>1. CASE UNCHANGED placing
    BY <2>1 DEF CheckoutTypeOK, AnOrder
  <2>2. CASE CheckoutActs
    BY <2>1, <2>2, Placed DEF CheckoutActs, OpenCheckout, LeaveCheckout, FetchShippingRates,
       ApplyCoupon, RemoveCoupon, CouponAnswered
  <2>3. CASE PlacingGoesOn
    BY <2>3, Created, NotCreated, Finished DEF PlacingGoesOn
  <2> QED
    BY <2>1, <2>2, <2>3 DEF CheckoutNext, allVars, checkoutVars
<1> QED
  BY <1>1, <1>2, <1>3 DEF CheckoutTypeOK, AVisit, AnOrder

-----------------------------------------------------------------------------
(* One order of a visit.                                                   *)

LEMMA VisitsKept ==
  ASSUME CheckoutTypeOK, VisitsInOrder, OneOrderPerVisit, [CheckoutNext]_allVars
  PROVE  VisitsInOrder' /\ OneOrderPerVisit'
<1>0. visit.n \in Nat
      /\ \A o \in DOMAIN placing : placing[o].visit \in Nat /\ placing[o].visit <= visit.n
  BY Numbers, Standing DEF VisitsInOrder
<1>1. ASSUME placing' = placing, visit'.n = visit.n, visit'.view = "form" => visit.view = "form"
      PROVE  VisitsInOrder' /\ OneOrderPerVisit'
  BY <1>1 DEF VisitsInOrder, OneOrderPerVisit
<1>2. CASE OpenCheckout
  <2>1. visit'.n = visit.n + 1 /\ placing' = placing
    <3>1. visit' = [Away(visit.n + 1) EXCEPT !.view = "form"] /\ placing' = placing
      BY <1>2 DEF OpenCheckout
    <3> QED
      BY <3>1 DEF Away
  <2> QED
    BY <1>0, <2>1 DEF VisitsInOrder, OneOrderPerVisit
<1>3. CASE LeaveCheckout
  BY <1>1, <1>3 DEF LeaveCheckout, Away
<1>4. CASE FetchShippingRates \/ ApplyCoupon \/ RemoveCoupon \/ \E v \in BOOLEAN : CouponAnswered(v)
  <2>1. visit'.n = visit.n /\ visit'.view = visit.view /\ placing' = placing
    BY <1>4 DEF CheckoutTypeOK, FetchShippingRates, ApplyCoupon, RemoveCoupon, CouponAnswered
  <2> QED
    BY <1>1, <2>1
<1>5. ASSUME NEW m \in {"cod", "bkash"}, PlaceOrder(m)
      PROVE  VisitsInOrder' /\ OneOrderPerVisit'
  <2>1. PICK n : n = Len(placing) + 1
    OBVIOUS
  <2>2. /\ DOMAIN placing = 1..Len(placing) /\ DOMAIN placing' = 1..n /\ Len(placing) \in Nat
        /\ \A k \in DOMAIN placing : placing'[k] = placing[k]
        /\ placing'[n] = NewOrder(m)
    BY <1>5, <2>1, Placed
  <2>3. /\ placing'[n].visit = visit.n /\ placing'[n].stage = "creating"
    BY <2>2 DEF NewOrder
  <2>4. visit' = visit /\ visit.view = "form" /\ ~Submitting
    BY <1>5 DEF PlaceOrder, OnForm
  <2>5. \A k \in DOMAIN placing : placing[k].visit = visit.n => placing[k].stage = "failed"
    BY <2>4, Standing DEF VisitsInOrder, Submitting
  <2>6. \A k \in DOMAIN placing' : k \in DOMAIN placing \/ k = n
    BY <2>1, <2>2
  <2>7. VisitsInOrder'
    BY <1>0, <2>2, <2>3, <2>4, <2>6 DEF VisitsInOrder
  <2>8. OneOrderPerVisit'
    <3> SUFFICES ASSUME NEW a \in DOMAIN placing', NEW b \in DOMAIN placing',
                        a < b, placing'[a].visit = placing'[b].visit
                 PROVE  placing'[a].stage = "failed"
      BY DEF OneOrderPerVisit
    <3>1. a \in DOMAIN placing
      BY <2>1, <2>2
    <3>2. CASE b = n
      BY <2>2, <2>3, <2>5, <3>1, <3>2
    <3>3. CASE b \in DOMAIN placing
      BY <2>2, <3>1, <3>3 DEF OneOrderPerVisit
    <3> QED
      BY <2>6, <3>2, <3>3
  <2> QED
    BY <2>7, <2>8
<1>6. ASSUME NEW o \in DOMAIN placing, DOMAIN placing' = DOMAIN placing,
             \A k \in DOMAIN placing \ {o} : placing'[k] = placing[k],
             placing'[o].visit = placing[o].visit, placing[o].stage # "failed"
      PROVE  OneOrderPerVisit'
  <2>1. \A k \in DOMAIN placing : /\ placing'[k].visit = placing[k].visit
                                  /\ placing[k].stage = "failed" => placing'[k] = placing[k]
    BY <1>6
  <2> QED
    BY <1>6, <2>1 DEF OneOrderPerVisit
<1>7. ASSUME NEW o \in DOMAIN placing, CreateAnswered(o)
      PROVE  VisitsInOrder' /\ OneOrderPerVisit'
  <2>1. /\ DOMAIN placing' = DOMAIN placing /\ visit' = visit
        /\ \A k \in DOMAIN placing \ {o} : placing'[k] = placing[k]
        /\ placing'[o].visit = placing[o].visit /\ placing'[o].stage = "paying"
        /\ placing[o].stage = "creating"
    BY <1>7, Created DEF CreateAnswered
  <2> QED
    BY <1>6, <2>1 DEF VisitsInOrder
<1>8. ASSUME NEW o \in DOMAIN placing, CreateFailed(o)
      PROVE  VisitsInOrder' /\ OneOrderPerVisit'
  <2>1. /\ DOMAIN placing' = DOMAIN placing /\ visit' = visit
        /\ \A k \in DOMAIN placing \ {o} : placing'[k] = placing[k]
        /\ placing'[o].visit = placing[o].visit /\ placing'[o].stage = "failed"
        /\ placing[o].stage = "creating"
    BY <1>8, NotCreated DEF CreateFailed
  <2> QED
    BY <1>6, <2>1 DEF VisitsInOrder
<1>9. ASSUME NEW o \in DOMAIN placing, NEW paid \in BOOLEAN, FinishOrder(o, paid)
      PROVE  VisitsInOrder' /\ OneOrderPerVisit'
  <2>1. /\ DOMAIN placing' = DOMAIN placing
        /\ \A k \in DOMAIN placing \ {o} : placing'[k] = placing[k]
        /\ placing'[o].visit = placing[o].visit /\ placing'[o].stage = "done"
        /\ placing[o].stage = "paying"
    BY <1>9, Finished DEF FinishOrder
  <2>2. /\ visit'.n = visit.n
        /\ visit'.view = "form" => visit.view = "form"
        /\ placing[o].visit = visit.n => visit'.view # "form"
    BY <1>9 DEF FinishOrder, CheckoutTypeOK
  <2>3. VisitsInOrder'
    BY <2>1, <2>2 DEF VisitsInOrder
  <2> QED
    BY <1>6, <2>1, <2>3
<1>10. CASE UNCHANGED checkoutVars
  BY <1>1, <1>10 DEF checkoutVars
<1>11. CASE CheckoutActs
  BY <1>2, <1>3, <1>4, <1>5, <1>11 DEF CheckoutActs
<1>12. CASE PlacingGoesOn
  BY <1>7, <1>8, <1>9, <1>12 DEF PlacingGoesOn
<1> QED
  BY <1>10, <1>11, <1>12 DEF CheckoutNext, allVars

-----------------------------------------------------------------------------
(* The calm checkout.                                                      *)

\* What is wanted stays, and with it the units and the delivery of the screen.
LEMMA SameScreen ==
  ASSUME CalmScreen, CalmScreen', calm, calm', wanted' = wanted
  PROVE  /\ Units(cart') = Units(cart)
         /\ CartDeliveryProfile(cart') = CartDeliveryProfile(cart)
<1>1. Units(cart') = Units(cart) /\ {i.product : i \in cart'} = {i.product : i \in cart}
  BY DEF CalmScreen, WantedLines
<1>2. \A S : (\E i \in S : i.product \in Bulky) <=> (\E p \in {i.product : i \in S} : p \in Bulky)
  OBVIOUS
<1>3. (\E i \in cart' : i.product \in Bulky) <=> (\E i \in cart : i.product \in Bulky)
  BY <1>1, <1>2
<1> QED
  BY <1>1, <1>3 DEF CartDeliveryProfile

\* The cart of a calm checkout: what is wanted is only changed away from the
\* checkout, or when an order is finished.
LEMMA CalmSteps ==
  ASSUME CheckoutTypeOK, [CheckoutNext]_allVars, calm'
  PROVE  /\ calm
         /\ \/ wanted' = wanted
            \/ visit.view = "away" /\ UNCHANGED checkoutVars
            \/ \E o \in DOMAIN placing : \E paid \in BOOLEAN : FinishOrder(o, paid)
<1>1. CASE CheckoutActs
  BY <1>1 DEF CheckoutActs, OpenCheckout, LeaveCheckout, FetchShippingRates, ApplyCoupon,
     RemoveCoupon, CouponAnswered, PlaceOrder, Recall, KeepCart, cartVars
<1>2. CASE PlacingGoesOn
  BY <1>2 DEF PlacingGoesOn, CreateAnswered, CreateFailed, FinishOrder, ClearCart, Recall,
     KeepCart, cartVars
<1>3. CASE CartTraffic
  BY <1>3 DEF CartTraffic, ServeCall, FailCall, AnswerCall, Recall
<1>4. CASE ToggleSession
  BY <1>4 DEF ToggleSession, Recall
<1>5. CASE visit.view = "away" /\ ShopperActs /\ UNCHANGED checkoutVars
  BY <1>5 DEF ShopperActs, AddItem, RemoveItem, UpdateQuantity, FetchFromBackend, Asked, Recall
<1>6. CASE UNCHANGED allVars
  BY <1>6 DEF allVars, cartVars
<1> QED
  BY <1>1, <1>2, <1>3, <1>4, <1>5, <1>6 DEF CheckoutNext

CalmCheckout ==
  /\ CheckoutTypeOK /\ CalmCart /\ VisitsInOrder /\ OneOrderPerVisit
  /\ CalmForm /\ CalmPlacing /\ CalmOrderIsWanted

\* The form keeps showing what the lines on the screen cost.
LEMMA FormKept ==
  ASSUME CalmCheckout, [CheckoutNext]_allVars, CalmScreen'
  PROVE  CalmForm'
<1> SUFFICES ASSUME calm', visit'.view = "form"
             PROVE  /\ visit'.quote \in {NoQuote, CartDeliveryProfile(cart')}
                    /\ visit'.coupon.for \in {0, Units(cart')}
                    /\ visit'.validating \in {0, Units(cart')}
  BY DEF CalmForm
<1>1. calm /\ CheckoutTypeOK /\ CalmScreen
  BY CalmSteps DEF CalmCheckout, CalmCart
<1>2. visit \in AVisit
  BY <1>1 DEF CheckoutTypeOK, AVisit
<1>3. visit.view = "form" =>
        /\ visit.quote \in {NoQuote, CartDeliveryProfile(cart)}
        /\ visit.coupon.for \in {0, Units(cart)} /\ visit.validating \in {0, Units(cart)}
  BY <1>1 DEF CalmCheckout, CalmForm
<1>4. CASE UNCHANGED visit
  <2>1. visit.view = "form"
    BY <1>4
  <2>2. wanted' = wanted
    <3>1. ASSUME NEW o \in DOMAIN placing, NEW paid \in BOOLEAN, FinishOrder(o, paid)
          PROVE  FALSE
      <4>1. placing[o].stage = "paying"
        BY <3>1 DEF FinishOrder
      <4>2. placing[o].visit = visit.n /\ visit.view = "form"
        BY <1>1, <4>1 DEF CalmCheckout, CalmPlacing
      <4>3. visit'.view = "placed"
        BY <1>2, <3>1, <4>2 DEF FinishOrder, AVisit
      <4> QED
        BY <4>3
    <3> QED
      BY <1>1, <2>1, <3>1, CalmSteps
  <2>3. Units(cart') = Units(cart) /\ CartDeliveryProfile(cart') = CartDeliveryProfile(cart)
    BY <1>1, <2>2, SameScreen
  <2> QED
    BY <1>3, <1>4, <2>1, <2>3
<1>5. CASE OpenCheckout
  BY <1>2, <1>5 DEF OpenCheckout, Away, NoCoupon
<1>6. CASE LeaveCheckout
  BY <1>6 DEF LeaveCheckout, Away
<1>7. CASE FetchShippingRates
  <2>1. visit' = [visit EXCEPT !.quote = CartDeliveryProfile(cart)] /\ cart' = cart
        /\ visit.view = "form"
    BY <1>7 DEF FetchShippingRates, KeepCart, cartVars, OnForm
  <2>2. /\ visit'.quote = CartDeliveryProfile(cart) /\ visit'.coupon = visit.coupon
        /\ visit'.validating = visit.validating
    BY <1>2, <2>1 DEF AVisit
  <2> QED
    BY <1>3, <2>1, <2>2
<1>8. CASE ApplyCoupon
  <2>1. visit' = [visit EXCEPT !.validating = Units(cart)] /\ cart' = cart
        /\ visit.view = "form"
    BY <1>8 DEF ApplyCoupon, KeepCart, cartVars, OnForm
  <2>2. /\ visit'.quote = visit.quote /\ visit'.coupon = visit.coupon
        /\ visit'.validating = Units(cart)
    BY <1>2, <2>1 DEF AVisit
  <2> QED
    BY <1>3, <2>1, <2>2
<1>9. CASE RemoveCoupon
  <2>1. visit' = [visit EXCEPT !.coupon = NoCoupon] /\ cart' = cart /\ visit.view = "form"
    BY <1>9 DEF RemoveCoupon, KeepCart, cartVars, OnForm
  <2>2. /\ visit'.quote = visit.quote /\ visit'.coupon.for = 0
        /\ visit'.validating = visit.validating
    BY <1>2, <2>1 DEF AVisit, NoCoupon
  <2> QED
    BY <1>3, <2>1, <2>2
<1>10. ASSUME NEW valid \in BOOLEAN, CouponAnswered(valid)
       PROVE  /\ visit'.quote \in {NoQuote, CartDeliveryProfile(cart')}
              /\ visit'.coupon.for \in {0, Units(cart')}
              /\ visit'.validating \in {0, Units(cart')}
  <2> DEFINE new == IF valid THEN [for |-> visit.validating] ELSE NoCoupon
  <2>1. new.for \in {0, visit.validating}
    BY DEF NoCoupon
  <2>2. visit' = [visit EXCEPT !.validating = 0, !.coupon = new] /\ cart' = cart
    BY <1>10 DEF CouponAnswered, KeepCart, cartVars
  <2> HIDE DEF new
  <2>3. /\ visit'.quote = visit.quote /\ visit'.coupon = new
        /\ visit'.validating = 0 /\ visit'.view = visit.view
    BY <1>2, <2>2 DEF AVisit
  <2> QED
    BY <1>3, <2>1, <2>2, <2>3
<1>11. ASSUME NEW o \in DOMAIN placing, NEW paid \in BOOLEAN, FinishOrder(o, paid)
       PROVE  UNCHANGED visit
  BY <1>2, <1>11 DEF FinishOrder, AVisit
<1>12. CASE CheckoutActs
  <2>1. CASE \E m \in {"cod", "bkash"} : PlaceOrder(m)
    BY <1>4, <2>1 DEF PlaceOrder
  <2> QED
    BY <1>5, <1>6, <1>7, <1>8, <1>9, <1>10, <1>12, <2>1 DEF CheckoutActs
<1>13. CASE PlacingGoesOn
  <2>1. UNCHANGED visit
    BY <1>11, <1>13 DEF PlacingGoesOn, CreateAnswered, CreateFailed
  <2> QED
    BY <1>4, <2>1
<1> QED
  BY <1>4, <1>12, <1>13 DEF CheckoutNext, allVars, checkoutVars

\* What an order that stands promises: while it is placed it is the open
\* form's, with the lines that are wanted; its price fits its lines.
Placing(o) ==
  placing[o].stage \in {"creating", "paying"} =>
    /\ placing[o].visit = visit.n /\ visit.view = "form"
    /\ \A p \in Products : UnitsIn(placing[o].lines, p) = wanted[p]

Priced(o) ==
  placing[o].stage # "failed" =>
    /\ placing[o].amount = Price(placing[o].lines, placing[o].coupon)
    /\ placing[o].paid \in {0, placing[o].amount}

Ordered(o) ==
  placing[o].stage = "done" =>
    \A p \in Products : UnitsIn(placing[o].lines, p) = placing[o].asked[p]

LEMMA PlacingParts ==
  CalmPlacing /\ CalmOrderIsWanted <=>
    (calm => \A o \in DOMAIN placing : Placing(o) /\ Priced(o) /\ Ordered(o))
BY DEF CalmPlacing, CalmOrderIsWanted, Placing, Priced, Ordered

\* The order that is placed has the lines that are wanted, at their price.
LEMMA PlacedAsWanted ==
  ASSUME CalmCheckout, calm, CartQuiet, NEW m \in {"cod", "bkash"}, PlaceOrder(m)
  PROVE  /\ \A p \in Products : UnitsIn(cart, p) = wanted[p]
         /\ GrandTotal(cart, visit) = Price(cart, visit.coupon # NoCoupon)
<1>1. CheckoutTypeOK /\ CartTypeOK /\ CartInStep
  BY DEF CalmCheckout, CalmCart, CheckoutTypeOK
<1>2. \A p \in Products : UnitsIn(cart, p) = wanted[p]
  <2>1. OnePerProduct(cart) /\ Tally(cart, wanted) /\ wanted \in [Products -> Nat]
    BY <1>1, AtRest
  <2> QED
    BY <2>1, TallyIn
<1>3. visit.view = "form" /\ visit.quote # NoQuote
  BY DEF PlaceOrder, OnForm
<1>4. visit.quote = CartDeliveryProfile(cart) /\ visit.coupon.for \in {0, Units(cart)}
  BY <1>3 DEF CalmCheckout, CalmForm
<1>5. Units(cart) \in Nat /\ CartDeliveryProfile(cart) \in {1, 2} /\ visit.coupon \in [for : Nat]
  BY <1>1, Numbers
<1>6. CASE visit.coupon = NoCoupon
  <2>1. DiscountFor(visit.coupon.for) = 0
    BY <1>6 DEF NoCoupon, DiscountFor
  <2> QED
    BY <1>2, <1>4, <1>5, <1>6, <2>1 DEF GrandTotal, Price
<1>7. CASE visit.coupon # NoCoupon
  <2>1. visit.coupon.for = Units(cart)
    <3>1. visit.coupon.for # 0
      BY <1>5, <1>7 DEF NoCoupon
    <3> QED
      BY <1>4, <3>1
  <2>2. \A n \in Nat : DiscountFor(n) \in Nat /\ DiscountFor(n) <= n
    BY DEF DiscountFor
  <2> QED
    BY <1>2, <1>4, <1>5, <1>7, <2>1, <2>2 DEF GrandTotal, Price
<1> QED
  BY <1>6, <1>7

\* Orders that do not move keep what they promise while the same is wanted
\* and the form stays open for those that are being placed.
LEMMA PlacingKept ==
  ASSUME CalmCheckout, [CheckoutNext]_allVars
  PROVE  CalmPlacing' /\ CalmOrderIsWanted'
<1> SUFFICES ASSUME calm', NEW o \in DOMAIN placing'
             PROVE  Placing(o)' /\ Priced(o)' /\ Ordered(o)'
  BY DEF CalmPlacing, CalmOrderIsWanted, Placing, Priced, Ordered
<1>1. calm /\ CheckoutTypeOK /\ CartTypeOK
  BY CalmSteps DEF CalmCheckout, CheckoutTypeOK
<1>2. \A k \in DOMAIN placing : Placing(k) /\ Priced(k) /\ Ordered(k)
  BY <1>1, PlacingParts DEF CalmCheckout
<1>3. visit \in AVisit
  BY <1>1 DEF CheckoutTypeOK, AVisit
<1>4. ASSUME o \in DOMAIN placing, placing'[o] = placing[o],
             placing[o].stage \in {"creating", "paying"} =>
                wanted' = wanted /\ visit'.n = visit.n /\ visit'.view = visit.view
      PROVE  Placing(o)' /\ Priced(o)' /\ Ordered(o)'
  BY <1>2, <1>4 DEF Placing, Priced, Ordered
<1>5. CASE placing' = placing /\ wanted' = wanted /\ visit'.n = visit.n
           /\ visit'.view = visit.view
  BY <1>4, <1>5
<1>6. CASE visit.view = "away" /\ placing' = placing
  <2>1. placing[o].stage \notin {"creating", "paying"}
    BY <1>2, <1>6 DEF Placing
  <2> QED
    BY <1>4, <1>6, <2>1
<1>7. CASE LeaveCheckout
  <2>1. placing' = placing /\ ~Submitting
    BY <1>7 DEF LeaveCheckout, Recall
  <2>2. placing[o].stage \notin {"creating", "paying"}
    BY <1>2, <2>1 DEF Placing, Submitting
  <2> QED
    BY <1>4, <2>1, <2>2
<1>8. CASE FetchShippingRates \/ ApplyCoupon \/ RemoveCoupon \/ \E v \in BOOLEAN : CouponAnswered(v)
  BY <1>3, <1>5, <1>8 DEF AVisit, FetchShippingRates, ApplyCoupon, RemoveCoupon, CouponAnswered,
     KeepCart, cartVars
<1>9. ASSUME NEW m \in {"cod", "bkash"}, PlaceOrder(m)
      PROVE  Placing(o)' /\ Priced(o)' /\ Ordered(o)'
  <2>1. PICK n : n = Len(placing) + 1
    OBVIOUS
  <2>2. /\ DOMAIN placing = 1..Len(placing) /\ DOMAIN placing' = 1..n /\ Len(placing) \in Nat
        /\ \A k \in DOMAIN placing : placing'[k] = placing[k]
        /\ placing'[n] = NewOrder(m)
    BY <1>1, <1>9, <2>1, Placed
  <2>3. visit' = visit /\ wanted' = wanted /\ CartQuiet /\ visit.view = "form"
    BY <1>9 DEF PlaceOrder, Recall, OnForm
  <2>4. CASE o = n
    <3>1. /\ placing'[o].stage = "creating" /\ placing'[o].visit = visit.n
          /\ placing'[o].lines = cart /\ placing'[o].amount = GrandTotal(cart, visit)
          /\ placing'[o].coupon = (visit.coupon # NoCoupon) /\ placing'[o].paid = 0
      BY <2>2, <2>4 DEF NewOrder
    <3>2. /\ \A p \in Products : UnitsIn(cart, p) = wanted[p]
          /\ GrandTotal(cart, visit) = Price(cart, visit.coupon # NoCoupon)
      BY <1>1, <1>9, <2>3, PlacedAsWanted
    <3>3. Placing(o)'
      BY <2>3, <3>1, <3>2 DEF Placing
    <3>4. Priced(o)' /\ Ordered(o)'
      BY <3>1, <3>2 DEF Priced, Ordered
    <3> QED
      BY <3>3, <3>4
  <2>5. CASE o # n
    <3>1. o \in DOMAIN placing
      BY <2>1, <2>2, <2>5
    <3> QED
      BY <1>4, <2>2, <2>3, <3>1
  <2> QED
    BY <2>4, <2>5
<1>10. ASSUME NEW k \in DOMAIN placing, CreateAnswered(k)
       PROVE  Placing(o)' /\ Priced(o)' /\ Ordered(o)'
  <2>1. /\ DOMAIN placing' = DOMAIN placing
        /\ \A j \in DOMAIN placing \ {k} : placing'[j] = placing[j]
        /\ placing'[k].stage = "paying"
        /\ placing'[k].visit = placing[k].visit /\ placing'[k].lines = placing[k].lines
        /\ placing'[k].amount = placing[k].amount /\ placing'[k].paid = placing[k].paid
        /\ placing'[k].coupon = placing[k].coupon
    BY <1>1, <1>10, Created
  <2>2. visit' = visit /\ wanted' = wanted /\ placing[k].stage = "creating"
    BY <1>10 DEF CreateAnswered, KeepCart, cartVars
  <2>3. CASE o = k
    <3>1. Placing(o)'
      BY <1>2, <2>1, <2>2, <2>3 DEF Placing
    <3>2. Priced(o)' /\ Ordered(o)'
      BY <1>2, <2>1, <2>2, <2>3 DEF Priced, Ordered
    <3> QED
      BY <3>1, <3>2
  <2>4. CASE o # k
    BY <1>4, <2>1, <2>2, <2>4
  <2> QED
    BY <2>3, <2>4
<1>11. ASSUME NEW k \in DOMAIN placing, CreateFailed(k)
       PROVE  Placing(o)' /\ Priced(o)' /\ Ordered(o)'
  <2>1. /\ DOMAIN placing' = DOMAIN placing
        /\ \A j \in DOMAIN placing \ {k} : placing'[j] = placing[j]
        /\ placing'[k].stage = "failed"
    BY <1>1, <1>11, NotCreated
  <2>2. visit' = visit /\ wanted' = wanted
    BY <1>11 DEF CreateFailed, KeepCart, cartVars
  <2>3. CASE o = k
    BY <2>1, <2>3 DEF Placing, Priced, Ordered
  <2>4. CASE o # k
    BY <1>4, <2>1, <2>2, <2>4
  <2> QED
    BY <2>3, <2>4
<1>12. ASSUME NEW k \in DOMAIN placing, NEW paid \in BOOLEAN, FinishOrder(k, paid)
       PROVE  Placing(o)' /\ Priced(o)' /\ Ordered(o)'
  <2>1. /\ DOMAIN placing' = DOMAIN placing
        /\ \A j \in DOMAIN placing \ {k} : placing'[j] = placing[j]
        /\ placing'[k].stage = "done" /\ placing'[k].asked = wanted
        /\ placing'[k].visit = placing[k].visit /\ placing'[k].lines = placing[k].lines
        /\ placing'[k].amount = placing[k].amount
        /\ placing'[k].paid \in {0, placing[k].amount}
        /\ placing'[k].coupon = placing[k].coupon /\ placing[k].stage = "paying"
    BY <1>1, <1>12, Finished DEF FinishOrder
  <2>2. /\ placing[k].visit = visit.n
        /\ \A p \in Products : UnitsIn(placing[k].lines, p) = wanted[p]
    BY <1>2, <2>1 DEF Placing
  <2>3. CASE o = k
    <3>1. Placing(o)' /\ Ordered(o)'
      BY <2>1, <2>2, <2>3 DEF Placing, Ordered
    <3>2. Priced(o)'
      BY <1>2, <2>1, <2>3 DEF Priced
    <3> QED
      BY <3>1, <3>2
  <2>4. CASE o # k
    <3>1. placing[o].stage \notin {"creating", "paying"}
      <4> SUFFICES ASSUME placing[o].stage \in {"creating", "paying"} PROVE FALSE
        OBVIOUS
      <4>1. placing[o].visit = visit.n
        BY <1>2, <2>1 DEF Placing
      <4>2. o < k \/ k < o
        BY <1>1, <2>1, <2>4, Standing
      <4> QED
        BY <2>1, <2>2, <4>1, <4>2 DEF CalmCheckout, OneOrderPerVisit
    <3> QED
      BY <1>4, <2>1, <2>4, <3>1
  <2> QED
    BY <2>3, <2>4
<1>13. CASE CheckoutActs
  <2>1. CASE OpenCheckout
    BY <1>6, <2>1 DEF OpenCheckout
  <2> QED
    BY <1>7, <1>8, <1>9, <1>13, <2>1 DEF CheckoutActs
<1>14. CASE PlacingGoesOn
  BY <1>10, <1>11, <1>12, <1>14 DEF PlacingGoesOn
<1>15. CASE UNCHANGED checkoutVars
  <2>1. wanted' = wanted \/ visit.view = "away" \/ PlacingGoesOn
    BY <1>1, CalmSteps DEF PlacingGoesOn
  <2> QED
    BY <1>5, <1>6, <1>14, <1>15, <2>1 DEF checkoutVars
<1> QED
  BY <1>13, <1>14, <1>15 DEF CheckoutNext, allVars

LEMMA CheckoutStarts ==
  ASSUME CheckoutInit
  PROVE  CalmCheckout
<1>1. CartTypeOK /\ CalmCart /\ visit = Away(0) /\ placing = <<>>
  BY CalmStart DEF CheckoutInit
<1>2. CartFinite
  BY FS_EmptySet DEF CheckoutInit, CartInit, CartFinite, CallsRunning
<1>3. CheckoutTypeOK
  BY <1>1, <1>2 DEF CheckoutTypeOK, Away, NoQuote, NoCoupon
<1>4. VisitsInOrder /\ OneOrderPerVisit /\ CalmForm /\ CalmPlacing /\ CalmOrderIsWanted
  BY <1>1 DEF VisitsInOrder, OneOrderPerVisit, CalmForm, CalmPlacing, CalmOrderIsWanted, Away
<1> QED
  BY <1>1, <1>3, <1>4 DEF CalmCheckout

LEMMA CheckoutGoesOn ==
  ASSUME CalmCheckout, [CheckoutNext]_allVars
  PROVE  CalmCheckout'
<1>1. CheckoutTypeOK /\ CartTypeOK /\ CalmCart /\ VisitsInOrder /\ OneOrderPerVisit
  BY DEF CalmCheckout, CheckoutTypeOK
<1>2. CheckoutTypeOK'
  BY <1>1, CheckoutTypesKept
<1>3. CalmCart'
  BY <1>1, CheckoutMovesTheCart, CartPartCalm
<1>4. VisitsInOrder' /\ OneOrderPerVisit'
  BY <1>1, VisitsKept
<1>5. CalmForm'
  BY <1>3, FormKept DEF CalmCart
<1>6. CalmPlacing' /\ CalmOrderIsWanted'
  BY PlacingKept
<1> QED
  BY <1>2, <1>3, <1>4, <1>5, <1>6 DEF CalmCheckout

-----------------------------------------------------------------------------
(* The theorems.                                                           *)

\* What the calm checkout maintains, whatever the shop holds.
LEMMA CheckoutStaysCalm == CheckoutSpec => []CalmCheckout
<1>1. CheckoutInit => CalmCheckout
  BY CheckoutStarts
<1>2. CalmCheckout /\ [CheckoutNext]_<<cartVars, checkoutVars>> => CalmCheckout'
  BY CheckoutGoesOn DEF allVars
<1> QED
  BY <1>1, <1>2, PTL DEF CheckoutSpec

\* The types of the cart and of the checkout.
THEOREM CheckoutTypes == CheckoutSpec => []CheckoutTypeOK
<1>1. CalmCheckout => CheckoutTypeOK
  BY DEF CalmCheckout
<1> QED
  BY <1>1, CheckoutStaysCalm, PTL

\* A shopper who waits for every answer sees the units that were asked for,
\* and the service holds the same: no add, update, removal, fetch, clear or
\* sign-in in between gets them apart.
THEOREM CartStaysShared == CheckoutSpec => []CalmCartIsShared
<1>1. CalmCheckout => CalmCartIsShared
  BY CalmIsShared DEF CalmCheckout, CheckoutTypeOK
<1> QED
  BY <1>1, CheckoutStaysCalm, PTL

\* No visit to the checkout has two orders that stand, calm or not.
THEOREM VisitsOrderOnce == CheckoutSpec => []OneOrderPerVisit
<1>1. CalmCheckout => OneOrderPerVisit
  BY DEF CalmCheckout
<1> QED
  BY <1>1, CheckoutStaysCalm, PTL

\* A shopper who waits orders exactly the units asked for, and what is asked
\* for when the cart is emptied has been ordered.
THEOREM OrdersAreWanted == CheckoutSpec => []CalmOrderIsWanted
<1>1. CalmCheckout => CalmOrderIsWanted
  BY DEF CalmCheckout
<1> QED
  BY <1>1, CheckoutStaysCalm, PTL

\* What is paid is the price of the lines ordered, their delivery and the
\* discount on them, though quote and coupon were computed on earlier screens.
THEOREM PaymentsFit == CheckoutSpec => []CalmPaymentFitsOrder
<1>1. CalmCheckout => CalmPaymentFitsOrder
  <2> SUFFICES ASSUME CalmCheckout, calm, NEW o \in DOMAIN placing,
                      placing[o].stage = "done", placing[o].paid # 0
               PROVE  placing[o].paid = Price(placing[o].lines, placing[o].coupon)
    BY DEF CalmPaymentFitsOrder, Price
  <2>1. Priced(o)
    BY PlacingParts DEF CalmCheckout
  <2> QED
    BY <2>1 DEF Priced
<1> QED
  BY <1>1, CheckoutStaysCalm, PTL

-----------------------------------------------------------------------------
(***************************************************************************)
(* The storefront: a behaviour keeps to one part of the shop, so the steps *)
(* of every other part stutter, and those of the cart alone are steps of a *)
(* checkout that is never opened.                                          *)
(***************************************************************************)

NoVisit == part = "cart" => visit.view = "away" /\ visit.n = 0

\* A step of the shop is, for every part, a step of it or nothing.
LEMMA PartSteps ==
  ASSUME [StorefrontNext]_storefrontVars
  PROVE  /\ [ShopSearchNext]_shopSearchVars
         /\ [AccountNext]_accountVars
         /\ [SessionNext]_sessionVars /\ [ShelfNext]_shelfVars
         /\ NoVisit => NoVisit' /\ [CheckoutNext]_<<cartVars, checkoutVars>>
<1>1. /\ [ShopSearchNext]_shopSearchVars /\ [AccountNext]_accountVars
      /\ [SessionNext]_sessionVars /\ [ShelfNext]_shelfVars
  BY DEF StorefrontNext, storefrontVars, allCartVars, UseCart, UseCheckout, UseSession,
         UseSearch, UseShelf, UseAccount
<1>2. ASSUME NoVisit PROVE NoVisit' /\ [CheckoutNext]_<<cartVars, checkoutVars>>
  <2>1. CASE UseCart
    <3>1. UNCHANGED checkoutVars /\ part' = part /\ CartNext /\ visit' = visit
          /\ visit.view = "away" /\ visit.n = 0
      BY <1>2, <2>1 DEF UseCart, NoVisit, checkoutVars
    <3>2. CheckoutNext
      BY <3>1 DEF CheckoutNext, CartNext
    <3> QED
      BY <1>2, <3>1, <3>2 DEF NoVisit
  <2>2. CASE UseCheckout
    <3>1. CheckoutNext /\ part' = "checkout"
      BY <2>2 DEF UseCheckout
    <3> QED
      BY <3>1 DEF NoVisit
  <2>3. CASE ~UseCart /\ ~UseCheckout
    <3>1. UNCHANGED allCartVars /\ part' = part
      BY <2>3 DEF StorefrontNext, storefrontVars, UseSession, UseSearch, UseShelf, UseAccount
    <3>2. UNCHANGED <<cartVars, checkoutVars>> /\ visit' = visit
      BY <3>1 DEF allCartVars, checkoutVars
    <3> QED
      BY <1>2, <3>1, <3>2 DEF NoVisit
  <2> QED
    BY <2>1, <2>2, <2>3
<1> QED
  BY <1>1, <1>2

\* The shop's cart and checkout are those of CheckoutSpec.
LEMMA ShopChecksOut == StorefrontSpec => CheckoutSpec
<1>1. StorefrontInit => CheckoutInit /\ NoVisit
  BY DEF StorefrontInit, CheckoutInit, NoVisit, Away
<1>2. NoVisit /\ [StorefrontNext]_storefrontVars =>
         NoVisit' /\ [CheckoutNext]_<<cartVars, checkoutVars>>
  BY PartSteps
<1> QED
  BY <1>1, <1>2, PTL DEF StorefrontSpec, CheckoutSpec

\* The components share nothing but the browser: what the whole shop does is,
\* for the cart with the checkout, for the session and for the shelf, what
\* each of them does alone, so that all that is proved of them holds here.
THEOREM ShopIsItsParts == StorefrontSpec => CheckoutSpec /\ SessionSpec /\ ShelfSpec
<1>1. StorefrontInit => SessionInit /\ ShelfInit
  BY DEF StorefrontInit
<1>2. [StorefrontNext]_storefrontVars => [SessionNext]_sessionVars /\ [ShelfNext]_shelfVars
  BY PartSteps
<1> QED
  BY <1>1, <1>2, ShopChecksOut, PTL DEF StorefrontSpec, SessionSpec, ShelfSpec

-----------------------------------------------------------------------------
(***************************************************************************)
(* Search: of the panel's searches only the one for its query is live, and *)
(* a calm search page waits for one answer at most, to its own inputs.     *)
(***************************************************************************)

IsPanel(p) ==
    /\ p = [open |-> p.open, query |-> p.query, shown |-> p.shown, active |-> p.active,
            loading |-> p.loading, timer |-> p.timer]
    /\ p.open \in BOOLEAN /\ p.timer \in {"none", "search", "clear", "reset"}

\* What an open panel shows, with no timer and nothing asked, is of its query.
ShowsItsQuery(p) == ~p.loading /\ (p.shown # NoAnswer => p.shown.q = p.query)

PanelInv ==
    /\ IsPanel(panel)
    /\ \A l \in lookups : l = [q |-> l.q, live |-> l.live] /\ l.live \in BOOLEAN
    /\ panel.open =>
          /\ panel.timer # "reset"
          /\ panel.timer \in {"search", "clear"} => \A l \in lookups : ~l.live
          /\ panel.timer = "none" =>
                /\ \A l \in lookups : l.live => l.q = panel.query
                /\ (\A l \in lookups : ~l.live) => ShowsItsQuery(panel)

IsResults(r) ==
    /\ r = [at |-> r.at, input |-> r.input, asks |-> r.asks, answer |-> r.answer,
            pages |-> r.pages, facets |-> r.facets, loading |-> r.loading, calm |-> r.calm]
    /\ r.at = "search" /\ r.loading \in BOOLEAN /\ r.calm \in BOOLEAN

\* A calm page shows the answer to its inputs, or that answer is on its way.
PageIsAnswered(r, asked) ==
    \/ asked = <<>> /\ ~r.loading /\ r.answer = [found |-> "page", asks |-> r.asks]
    \/ asked = <<r.asks>>

ResultsInv ==
    \/ results = Elsewhere /\ searches = <<>>
    \/ IsResults(results) /\ (results.calm => PageIsAnswered(results, searches))

SearchInv == PanelInv /\ ResultsInv

LEMMA SearchInitInv == ShopSearchInit => SearchInv
<1> SUFFICES ASSUME ShopSearchInit PROVE SearchInv
  OBVIOUS
<1>1. IsPanel(panel) /\ ~panel.open /\ lookups = {}
  BY DEF ShopSearchInit, ShutPanel, IsPanel
<1>2. results = Elsewhere /\ searches = <<>>
  BY DEF ShopSearchInit
<1> QED
  BY <1>1, <1>2 DEF SearchInv, PanelInv, ResultsInv

\* The panel's searches after an abort.
LEMMA AllAborted ==
  ASSUME PanelInv, NEW l \in Aborted
  PROVE  l = [q |-> l.q, live |-> l.live] /\ l.live \in BOOLEAN /\ ~l.live
<1>1. PICK k \in lookups : l = [k EXCEPT !.live = FALSE]
  BY DEF Aborted
<1>2. k = [q |-> k.q, live |-> k.live]
  BY DEF PanelInv
<1> QED
  BY ONLY <1>1, <1>2

\* Opening the panel or typing: everything that was asked is aborted.
LEMMA RetimingKeepsPanel ==
  ASSUME PanelInv, NEW p, IsPanel(p), Retimed(p)
  PROVE  PanelInv'
<1>1. PICK t : t = (IF IsSearching(p.query) THEN "search" ELSE "clear")
  OBVIOUS
<1>2. panel' = [p EXCEPT !.timer = t] /\ lookups' = Aborted /\ t \in {"search", "clear"}
  BY <1>1 DEF Retimed
<1>3. IsPanel(panel') /\ panel'.timer = t
  BY <1>2 DEF IsPanel
<1>4. \A l \in lookups' : l = [q |-> l.q, live |-> l.live] /\ l.live \in BOOLEAN /\ ~l.live
  BY <1>2, AllAborted
<1> QED
  BY <1>2, <1>3, <1>4 DEF PanelInv

\* A closed panel waits to be reset; what it asked may still be answered.
LEMMA ClosingKeepsPanel == ASSUME PanelInv, ClosePanel PROVE PanelInv'
<1>1. panel' = [panel EXCEPT !.open = FALSE, !.timer = "reset"] /\ lookups' = lookups
  BY DEF ClosePanel
<1>2. IsPanel(panel') /\ panel'.open = FALSE
  BY <1>1 DEF PanelInv, IsPanel
<1> QED
  BY <1>1, <1>2 DEF PanelInv

LEMMA PanelStaysTheSame ==
  ASSUME PanelInv, panel' = panel, lookups' = lookups PROVE PanelInv'
BY DEF PanelInv

LEMMA PanelActs ==
  ASSUME PanelInv, OpenPanel \/ ClearTimer \/ ResetTimer \/ SearchTimer \/ Arrow
                   \/ \E q \in Queries : TypeQuery(q)
  PROVE  PanelInv'
<1>0. IsPanel(panel) /\ \A l \in lookups : l = [q |-> l.q, live |-> l.live] /\ l.live \in BOOLEAN
  BY DEF PanelInv
<1>1. CASE OpenPanel
  <2>1. PICK p : p = [panel EXCEPT !.open = TRUE] /\ Retimed(p)
    BY <1>1 DEF OpenPanel
  <2>2. IsPanel(p)
    BY <1>0, <2>1 DEF IsPanel
  <2> QED
    BY <2>1, <2>2, RetimingKeepsPanel
<1>2. ASSUME NEW q \in Queries, TypeQuery(q) PROVE PanelInv'
  <2>1. PICK p : p = [panel EXCEPT !.query = q] /\ Retimed(p)
    BY <1>2 DEF TypeQuery
  <2>2. IsPanel(p)
    BY <1>0, <2>1 DEF IsPanel
  <2> QED
    BY <2>1, <2>2, RetimingKeepsPanel
<1>3. CASE ClearTimer
  <2>1. panel' = [panel EXCEPT !.shown = NoAnswer, !.loading = FALSE, !.active = FALSE,
                               !.timer = "none"]
        /\ lookups' = lookups /\ panel.timer = "clear"
    BY <1>3 DEF ClearTimer, Blank
  <2>2. /\ IsPanel(panel') /\ panel'.open = panel.open /\ panel'.timer = "none"
        /\ panel'.shown = NoAnswer /\ panel'.loading = FALSE
    BY <1>0, <2>1 DEF IsPanel
  <2>3. panel.open => \A l \in lookups : ~l.live
    BY <2>1 DEF PanelInv
  <2>4. ShowsItsQuery(panel')
    BY <2>2 DEF ShowsItsQuery
  <2> QED
    BY <1>0, <2>1, <2>2, <2>3, <2>4 DEF PanelInv
<1>4. CASE ResetTimer
  <2>1. PICK p : p = [panel EXCEPT !.shown = NoAnswer, !.loading = FALSE, !.active = FALSE,
                                   !.timer = "none"]
                 /\ panel' = [p EXCEPT !.query = EmptyQuery]
                 /\ lookups' = lookups /\ panel.timer = "reset"
    BY <1>4 DEF ResetTimer, Blank
  <2>2. IsPanel(p) /\ p.open = panel.open
    BY <1>0, <2>1 DEF IsPanel
  <2>3. IsPanel(panel') /\ panel'.open = p.open
    BY ONLY <2>1, <2>2 DEF IsPanel
  <2>4. ~panel.open
    BY <1>0, <2>1 DEF PanelInv, IsPanel
  <2> QED
    BY <1>0, <2>1, <2>2, <2>3, <2>4 DEF PanelInv
<1>5. CASE SearchTimer
  <2>1. PICK k : /\ k = [q |-> panel.query, live |-> TRUE] /\ lookups' = lookups \cup {k}
                 /\ panel' = [panel EXCEPT !.timer = "none", !.loading = TRUE]
                 /\ panel.timer = "search"
    BY <1>5 DEF SearchTimer
  <2>2. /\ IsPanel(panel') /\ panel'.open = panel.open /\ panel'.timer = "none"
        /\ panel'.query = panel.query
    BY <1>0, <2>1 DEF IsPanel
  <2>3. panel.open => \A l \in lookups : ~l.live
    BY <2>1 DEF PanelInv
  <2>4. /\ k.live /\ k.q = panel'.query /\ k \in lookups'
        /\ k = [q |-> k.q, live |-> k.live] /\ k.live \in BOOLEAN
    BY <2>1, <2>2
  <2> QED
    BY <1>0, <2>1, <2>2, <2>3, <2>4 DEF PanelInv
<1>6. CASE Arrow
  <2>1. panel' = [panel EXCEPT !.active = TRUE] /\ lookups' = lookups
    BY <1>6 DEF Arrow
  <2>2. /\ IsPanel(panel') /\ panel'.open = panel.open /\ panel'.timer = panel.timer
        /\ panel'.query = panel.query /\ panel'.loading = panel.loading
        /\ panel'.shown = panel.shown
    BY <1>0, <2>1 DEF IsPanel
  <2> QED
    BY <2>1, <2>2 DEF PanelInv, ShowsItsQuery
<1> QED
  BY <1>1, <1>2, <1>3, <1>4, <1>5, <1>6

\* An answer is shown only when its search is live, and then it is the one.
LEMMA AnsweringKeepsPanel ==
  ASSUME PanelInv, NEW l \in lookups, NEW ok \in BOOLEAN, LookupAnswered(l, ok)
  PROVE  PanelInv'
<1>0. /\ IsPanel(panel) /\ \A k \in lookups : k = [q |-> k.q, live |-> k.live] /\ k.live \in BOOLEAN
      /\ lookups' = lookups \ {l}
  BY DEF PanelInv, LookupAnswered
<1>1. CASE ~l.live
  <2>1. panel' = panel
    BY <1>1 DEF LookupAnswered
  <2> QED
    BY <1>0, <1>1, <2>1 DEF PanelInv
<1>2. CASE l.live
  <2>1. PICK s, a : /\ panel' = [panel EXCEPT !.loading = FALSE, !.active = a, !.shown = s]
                    /\ s = NoAnswer \/ s = [found |-> "products", q |-> l.q]
    BY <1>2 DEF LookupAnswered
  <2>2. /\ IsPanel(panel') /\ panel'.open = panel.open /\ panel'.timer = panel.timer
        /\ panel'.query = panel.query /\ panel'.loading = FALSE /\ panel'.shown = s
    BY <1>0, <2>1 DEF IsPanel
  <2>3. ASSUME panel.open PROVE panel.timer = "none" /\ l.q = panel.query
    BY <1>0, <1>2, <2>3 DEF PanelInv, IsPanel
  <2>4. s # NoAnswer => s.q = l.q
    BY <2>1
  <2>5. ASSUME panel.open PROVE ShowsItsQuery(panel')
    BY <2>2, <2>3, <2>4, <2>5 DEF ShowsItsQuery
  <2> QED
    BY <1>0, <2>2, <2>3, <2>5 DEF PanelInv
<1> QED
  BY <1>1, <1>2

LEMMA PageOnScreen == ASSUME ResultsInv, OnPage PROVE IsResults(results)
BY DEF ResultsInv, OnPage, Elsewhere

\* A search is asked when an input changes; a calm page waits for it alone.
LEMMA ResearchingKeepsResults ==
  ASSUME ResultsInv, OnPage, NEW p, NEW asks, Researched(p, asks), IsResults(p),
         p.asks = results.asks, p.answer = results.answer, p.loading = results.loading,
         p.calm = results.calm
  PROVE  ResultsInv'
<1>1. results.calm => PageIsAnswered(results, searches)
  BY DEF ResultsInv, OnPage, Elsewhere
<1>2. CASE asks = p.asks
  <2>1. results' = p /\ searches' = searches
    BY <1>2 DEF Researched
  <2> QED
    BY <1>1, <2>1 DEF ResultsInv, PageIsAnswered
<1>3. CASE asks # p.asks
  <2>1. PICK c : c = (p.calm /\ searches = <<>>)
    OBVIOUS
  <2>2. /\ results' = [p EXCEPT !.asks = asks, !.loading = TRUE, !.calm = c]
        /\ searches' = Append(searches, asks)
    BY <1>3, <2>1 DEF Researched
  <2>3. c \in BOOLEAN
    BY <2>1
  <2>4. IsResults(results') /\ results'.asks = asks /\ results'.calm = c
    BY <2>2, <2>3 DEF IsResults
  <2>5. c => searches = <<>>
    BY <2>1
  <2>6. c => searches' = <<asks>>
    BY <2>2, <2>5
  <2> QED
    BY <2>4, <2>6 DEF ResultsInv, PageIsAnswered
<1> QED
  BY <1>2, <1>3

LEMMA TypingKeepsResults ==
  ASSUME ResultsInv, NEW q \in LongQueries \cup {EmptyQuery}, TypeInput(q)
  PROVE  ResultsInv'
<1>1. IsResults(results) /\ (results.calm => PageIsAnswered(results, searches))
  BY DEF ResultsInv, TypeInput, OnSearch, OnPage, Elsewhere
<1>2. results' = [results EXCEPT !.input = q] /\ searches' = searches
  BY DEF TypeInput
<1>3. /\ IsResults(results') /\ results'.asks = results.asks /\ results'.answer = results.answer
      /\ results'.loading = results.loading /\ results'.calm = results.calm
  BY <1>1, <1>2 DEF IsResults
<1> QED
  BY <1>1, <1>2, <1>3 DEF ResultsInv, PageIsAnswered

LEMMA InputsKeepResults ==
  ASSUME ResultsInv,
         \/ HandleSearch \/ ClearInput \/ HandleBrandFilter \/ HandleInStock
         \/ \E b \in BOOLEAN : HandleSort(b) \/ TypeSearchPrice(b)
         \/ HandlePriceFilter \/ ClearFilters
         \/ \E p \in 1..2 : HandlePage(p)
  PROVE  ResultsInv'
<1>1. OnPage
  BY DEF HandleSearch, ClearInput, HandleBrandFilter, HandleInStock, HandleSort,
         TypeSearchPrice, HandlePriceFilter, ClearFilters, HandlePage, OnSearch
<1>2. IsResults(results)
  BY <1>1, PageOnScreen
<1>3. CASE ClearInput
  <2>1. PICK p, asks : p = [results EXCEPT !.input = EmptyQuery] /\ Researched(p, asks)
    BY <1>3 DEF ClearInput
  <2>2. /\ IsResults(p) /\ p.asks = results.asks /\ p.answer = results.answer
        /\ p.loading = results.loading /\ p.calm = results.calm
    BY <1>2, <2>1 DEF IsResults
  <2> QED
    BY <1>1, <2>1, <2>2, ResearchingKeepsResults
<1>4. CASE ~ClearInput
  <2>1. PICK asks : Researched(results, asks)
    BY <1>4 DEF HandleSearch, HandleBrandFilter, HandleInStock, HandleSort,
                TypeSearchPrice, HandlePriceFilter, ClearFilters, HandlePage
  <2> QED
    BY <1>1, <1>2, <2>1, ResearchingKeepsResults
<1> QED
  BY <1>3, <1>4

LEMMA LeavingKeepsResults == ASSUME LeaveSearch PROVE ResultsInv'
BY DEF LeaveSearch, ResultsInv

LEMMA GoingKeepsResults == ASSUME ResultsInv, NEW q, GoToSearchPage(q) PROVE ResultsInv'
<1>1. CASE OnPage
  <2>1. results' = results /\ searches' = searches
    BY <1>1 DEF GoToSearchPage, shopPageVars
  <2> QED
    BY <2>1 DEF ResultsInv
<1>2. CASE ~OnPage
  <2>1. PICK r : r = ResultsPage(q)
    OBVIOUS
  <2>2. results' = r /\ searches' = <<r.asks>>
    BY <1>2, <2>1 DEF GoToSearchPage
  <2>3. IsResults(r)
    BY <2>1 DEF ResultsPage, IsResults
  <2> QED
    BY <2>2, <2>3 DEF ResultsInv, PageIsAnswered
<1> QED
  BY <1>1, <1>2

\* The answer a calm page gets is to the inputs it shows.
LEMMA AnsweringKeepsResults ==
  ASSUME ResultsInv, NEW k, NEW ok \in BOOLEAN, SearchAnswered(k, ok)
  PROVE  ResultsInv'
<1>1. k \in DOMAIN searches /\ searches' = RemoveAt(searches, k)
  BY DEF SearchAnswered
<1>2. searches # <<>>
  BY <1>1
<1>3. IsResults(results) /\ (results.calm => searches = <<results.asks>>)
  BY <1>2 DEF ResultsInv, PageIsAnswered
<1>4. PICK an, c, f, n :
          /\ results' = [results EXCEPT !.loading = FALSE, !.facets = f, !.answer = an,
                                        !.pages = n, !.calm = c]
          /\ c = (results.calm /\ ok)
          /\ ok => an = [found |-> "page", asks |-> searches[k]]
  BY DEF SearchAnswered
<1>5. /\ IsResults(results') /\ results'.asks = results.asks /\ results'.loading = FALSE
      /\ results'.answer = an /\ results'.calm = c
  <2>1. c \in BOOLEAN
    BY <1>4
  <2> QED
    BY ONLY <1>3, <1>4, <2>1 DEF IsResults
<1>6. ASSUME c PROVE PageIsAnswered(results', searches')
  <2>1. searches = <<results.asks>> /\ ok
    BY <1>3, <1>4, <1>6
  <2>2. k = 1 /\ searches[k] = results.asks
    BY <1>1, <2>1
  <2>3. RemoveAt(<<results.asks>>, 1) = <<>>
    BY DEF RemoveAt
  <2>4. searches' = <<>>
    BY <1>1, <2>1, <2>2, <2>3
  <2> QED
    BY <1>4, <1>5, <2>1, <2>2, <2>4 DEF PageIsAnswered
<1> QED
  BY <1>5, <1>6 DEF ResultsInv

LEMMA ResultsStayTheSame ==
  ASSUME ResultsInv, results' = results, searches' = searches PROVE ResultsInv'
BY DEF ResultsInv

\* Going somewhere from the panel closes it.
LEMMA GoingSomewhere ==
  ASSUME SearchInv, \/ Enter \/ SelectRow \/ ViewAll \/ GoToCategory \/ EscapePanel
                    \/ \E q \in LongQueries : SearchAgain(q)
  PROVE  SearchInv'
<1>1. ClosePanel
  BY DEF Enter, SelectRow, ViewAll, GoToCategory, EscapePanel, SearchAgain, GoToProduct, SearchFor
<1>2. PanelInv'
  BY <1>1, ClosingKeepsPanel DEF SearchInv
<1>3. \/ LeaveSearch \/ \E q : GoToSearchPage(q) \/ UNCHANGED <<results, searches>>
  BY DEF Enter, SelectRow, ViewAll, GoToCategory, EscapePanel, SearchAgain, GoToProduct, SearchFor
<1>4. ResultsInv'
  BY <1>3, LeavingKeepsResults, GoingKeepsResults, ResultsStayTheSame DEF SearchInv
<1> QED
  BY <1>2, <1>4 DEF SearchInv

LEMMA SearchStepInv == SearchInv /\ [ShopSearchNext]_shopSearchVars => SearchInv'
<1> SUFFICES ASSUME SearchInv, [ShopSearchNext]_shopSearchVars PROVE SearchInv'
  OBVIOUS
<1>0. PanelInv /\ ResultsInv
  BY DEF SearchInv
<1>1. CASE UNCHANGED shopSearchVars
  BY <1>0, <1>1, PanelStaysTheSame, ResultsStayTheSame DEF shopSearchVars, SearchInv
<1>2. CASE OpenPanel \/ ClearTimer \/ ResetTimer \/ SearchTimer \/ Arrow
           \/ \E q \in Queries : TypeQuery(q)
  <2>1. results' = results /\ searches' = searches
    BY <1>2 DEF OpenPanel, ClearTimer, ResetTimer, SearchTimer, Arrow, TypeQuery
  <2> QED
    BY <1>0, <1>2, <2>1, PanelActs, ResultsStayTheSame DEF SearchInv
<1>3. ASSUME NEW l \in lookups, NEW ok \in BOOLEAN, LookupAnswered(l, ok) PROVE SearchInv'
  <2>1. results' = results /\ searches' = searches
    BY <1>3 DEF LookupAnswered
  <2> QED
    BY <1>0, <1>3, <2>1, AnsweringKeepsPanel, ResultsStayTheSame DEF SearchInv
<1>4. CASE \/ Enter \/ SelectRow \/ ViewAll \/ GoToCategory \/ EscapePanel
           \/ \E q \in LongQueries : SearchAgain(q)
  BY <1>4, GoingSomewhere
<1>5. CASE ClearRecent \/ \E q \in LongQueries : RemoveRecent(q)
  BY <1>0, <1>5, PanelStaysTheSame, ResultsStayTheSame DEF ClearRecent, RemoveRecent, SearchInv
<1>6. CASE \/ \E q \in LongQueries \cup {EmptyQuery} : TypeInput(q)
           \/ HandleSearch \/ ClearInput \/ HandleBrandFilter \/ HandleInStock
           \/ \E b \in BOOLEAN : HandleSort(b) \/ TypeSearchPrice(b)
           \/ HandlePriceFilter \/ ClearFilters
           \/ \E p \in 1..2 : HandlePage(p)
  <2>1. panel' = panel /\ lookups' = lookups
    BY <1>6 DEF TypeInput, HandleSearch, ClearInput, HandleBrandFilter, HandleInStock, HandleSort,
                TypeSearchPrice, HandlePriceFilter, ClearFilters, HandlePage, OnSearch
  <2>2. ResultsInv'
    BY <1>0, <1>6, TypingKeepsResults, InputsKeepResults
  <2> QED
    BY <1>0, <2>1, <2>2, PanelStaysTheSame DEF SearchInv
<1>7. ASSUME NEW k \in 1..MaxSearches, NEW ok \in BOOLEAN, SearchAnswered(k, ok) PROVE SearchInv'
  <2>1. panel' = panel /\ lookups' = lookups
    BY <1>7 DEF SearchAnswered
  <2> QED
    BY <1>0, <1>7, <2>1, PanelStaysTheSame, AnsweringKeepsResults DEF SearchInv
<1> QED
  BY <1>1, <1>2, <1>3, <1>4, <1>5, <1>6, <1>7 DEF ShopSearchNext

\* Panel and search page show what was asked for: no answer to an earlier
\* query or to inputs that have changed since is taken for the current one.
THEOREM SearchesAreAnswered == StorefrontSpec => []SearchShowsAnswers
<1>1. StorefrontInit => SearchInv
  BY SearchInitInv DEF StorefrontInit
<1>2. SearchInv /\ [StorefrontNext]_storefrontVars => SearchInv'
  BY PartSteps, SearchStepInv
<1>3. SearchInv => SearchShowsAnswers
  <2> SUFFICES ASSUME SearchInv PROVE SearchShowsAnswers
    OBVIOUS
  <2>1. PanelShowsItsQuery
    BY DEF SearchInv, PanelInv, ShowsItsQuery, PanelShowsItsQuery, Live, Previewed
  <2>2. CalmResultsAreAsked
    BY DEF SearchInv, ResultsInv, PageIsAnswered, CalmResultsAreAsked, OnPage, Asks, Elsewhere
  <2> QED
    BY <2>1, <2>2 DEF SearchShowsAnswers
<1> QED
  BY <1>1, <1>2, <1>3, PTL DEF StorefrontSpec

-----------------------------------------------------------------------------
(***************************************************************************)
(* The account: a calm profile page has one save of its own on its way at  *)
(* most; addresses have ids of their own, and one at most is the default.  *)
(***************************************************************************)

IsFlight(f) == f = [kind |-> f.kind, user |-> f.user, name |-> f.name, served |-> f.served]
ProfileFlights == {f \in acFlights : f.kind = "profile"}
IsAuth(s) == s = [user |-> s.user, name |-> s.name] /\ s.user \in Shoppers \cup {NoShopper}
IsProfilePage(p) ==
    /\ p = [at |-> p.at, edit |-> p.edit, name |-> p.name, saving |-> p.saving,
            success |-> p.success, error |-> p.error, pw |-> p.pw, calm |-> p.calm]
    /\ p.at = "account" /\ p.calm \in BOOLEAN /\ p.success \in BOOLEAN
IsOrdersPage(p) ==
    /\ p = [at |-> p.at, of |-> p.of, loading |-> p.loading, error |-> p.error]
    /\ p.at = "orders"
IsAddressPage(p) ==
    /\ p = [at |-> p.at, adding |-> p.adding, editing |-> p.editing, unticked |-> p.unticked]
    /\ p.at = "addresses"

PageShape == acPage = AcAway \/ IsProfilePage(acPage) \/ IsOrdersPage(acPage) \/ IsAddressPage(acPage)

\* The store agrees with the service, or the one save of this shopper decides.
CalmSaves ==
    /\ ProfileFlights = {} => (acPage.success => acStore.name = acServer[acStore.user])
    /\ ProfileFlights # {} =>
          \E f \in ProfileFlights :
              /\ ProfileFlights = {f} /\ f.user = acStore.user
              /\ f.served => acServer[f.user] = f.name

ProfileInv ==
    /\ PageShape /\ IsAuth(acStore)
    /\ DOMAIN acServer = Shoppers /\ acServer = [s \in Shoppers |-> acServer[s]]
    /\ \A f \in acFlights : IsFlight(f) /\ f.user \in Shoppers
    /\ acPage.at = "account" => acStore.user # NoShopper
    /\ acPage.at = "account" /\ acPage.calm => CalmSaves

\* The address book.
IsAddress(a) == a = [id |-> a.id, default |-> a.default] /\ a.default \in BOOLEAN
IsAddressList(as, n) ==
    /\ n \in Nat /\ DOMAIN as = 1..n /\ as = [k \in 1..n |-> as[k]]
    /\ \A k \in 1..n : IsAddress(as[k])
    /\ \A j, k \in 1..n : as[j].id = as[k].id => j = k
OneAtMost(as) == \A j, k \in DOMAIN as : as[j].default /\ as[k].default => j = k
AddressInv == \E n \in Nat : IsAddressList(addresses, n) /\ OneAtMost(addresses)

LEMMA AccountInitInv == AccountInit => ProfileInv /\ AddressInv
<1> SUFFICES ASSUME AccountInit PROVE ProfileInv /\ AddressInv
  OBVIOUS
<1>1. /\ acPage = AcAway /\ acStore = SignedOut /\ acFlights = {} /\ addresses = <<>>
      /\ acServer = [s \in Shoppers |-> FirstName]
  BY DEF AccountInit
<1>2. IsAuth(acStore) /\ acPage.at # "account"
  BY <1>1 DEF SignedOut, IsAuth, AcAway
<1>3. IsAddressList(addresses, 0) /\ OneAtMost(addresses)
  BY <1>1 DEF IsAddressList, OneAtMost
<1> QED
  BY <1>1, <1>2, <1>3 DEF ProfileInv, PageShape, AddressInv

\* A step that leaves the page a profile page, the store and the saves alone.
LEMMA SavesUntouched ==
  ASSUME ProfileInv, PageShape', acStore' = acStore, acServer' = acServer,
         \A f \in acFlights' : IsFlight(f) /\ f.user \in Shoppers,
         ProfileFlights' = ProfileFlights,
         acPage'.at = "account" =>
            /\ acPage.at = "account" /\ (acPage'.calm => acPage.calm)
            /\ acPage'.success => acPage.success
  PROVE  ProfileInv'
<1>1. CASE acPage'.at = "account" /\ acPage'.calm
  <2>1. CalmSaves
    BY <1>1 DEF ProfileInv
  <2>2. CalmSaves'
    BY <1>1, <2>1 DEF CalmSaves
  <2> QED
    BY <2>2 DEF ProfileInv
<1>2. CASE ~(acPage'.at = "account" /\ acPage'.calm)
  BY <1>2 DEF ProfileInv
<1> QED
  BY <1>1, <1>2

\* Signing in and out leaves the page.
LEMMA SigningKeepsProfile ==
  ASSUME ProfileInv, QuitAccount \/ \E s \in Shoppers : EnterAccount(s)
  PROVE  ProfileInv'
<1>1. /\ acPage' = AcAway /\ acServer' = acServer /\ acFlights' = acFlights
      /\ IsAuth(acStore')
  BY DEF QuitAccount, EnterAccount, SignedOut, IsAuth
<1>2. acPage'.at # "account"
  BY <1>1 DEF AcAway
<1> QED
  BY <1>1, <1>2 DEF ProfileInv, PageShape

\* The pages: a profile page is opened calm when no save is running.
LEMMA OpeningKeepsProfile == ASSUME ProfileInv, OpenProfile PROVE ProfileInv'
<1>1. PICK c, n : /\ c = ~Saves
                  /\ acPage' = [ProfilePage EXCEPT !.name = n, !.calm = c]
  BY DEF OpenProfile
<1>2. IsProfilePage(acPage') /\ acPage'.calm = c /\ acPage'.success = FALSE
  BY <1>1 DEF ProfilePage, IsProfilePage
<1>3. /\ acStore' = acStore /\ acServer' = acServer /\ acFlights' = acFlights
      /\ acStore.user # NoShopper
  BY DEF OpenProfile, Kept
<1>4. c => ProfileFlights' = {}
  BY <1>1, <1>3 DEF Saves, ProfileFlights
<1>5. c => CalmSaves'
  BY <1>2, <1>4 DEF CalmSaves
<1> QED
  BY <1>2, <1>3, <1>5 DEF ProfileInv, PageShape

LEMMA OtherPagesKeepProfile ==
  ASSUME ProfileInv, OpenOrders \/ OpenAddresses
  PROVE  ProfileInv'
<1>1. /\ acStore' = acStore /\ acServer' = acServer
      /\ IsOrdersPage(acPage') \/ IsAddressPage(acPage')
  BY DEF OpenOrders, OpenAddresses, Kept, IsOrdersPage, IsAddressPage
<1>2. acStore.user \in Shoppers
  BY DEF OpenOrders, OpenAddresses, ProfileInv, IsAuth
<1>3. \A f \in acFlights' : IsFlight(f) /\ f.user \in Shoppers
  BY <1>2 DEF OpenOrders, OpenAddresses, ProfileInv, IsFlight
<1>4. acPage'.at # "account"
  BY <1>1 DEF IsOrdersPage, IsAddressPage
<1> QED
  BY <1>1, <1>3, <1>4 DEF ProfileInv, PageShape

\* Everything typed on the profile page leaves the saves alone.
LEMMA FormKeepsProfile ==
  ASSUME ProfileInv, \/ EditProfile \/ CancelProfile \/ TogglePasswordForm \/ ProfileSuccessFades
                     \/ HandleChangePassword \/ \E n \in ProfileNames : TypeProfile(n)
  PROVE  ProfileInv'
<1>1. acPage.at = "account"
  BY DEF EditProfile, CancelProfile, TogglePasswordForm, ProfileSuccessFades,
         HandleChangePassword, TypeProfile, AcAt
<1>2. IsProfilePage(acPage)
  BY <1>1 DEF ProfileInv, PageShape, AcAway, IsOrdersPage, IsAddressPage
<1>3. \E v, w : \/ acPage' = [acPage EXCEPT !.edit = v, !.name = w]
                \/ acPage' = [acPage EXCEPT !.edit = v, !.error = w]
                \/ acPage' = [acPage EXCEPT !.name = v] \/ acPage' = [acPage EXCEPT !.pw = v]
                \/ acPage' = [acPage EXCEPT !.success = FALSE]
  BY DEF EditProfile, CancelProfile, TogglePasswordForm, ProfileSuccessFades,
         HandleChangePassword, TypeProfile
<1>4. /\ IsProfilePage(acPage') /\ acPage'.calm = acPage.calm
      /\ acPage'.success \in {acPage.success, FALSE}
  BY ONLY <1>2, <1>3 DEF IsProfilePage
<1>5. acStore' = acStore /\ acServer' = acServer
  BY DEF EditProfile, CancelProfile, TogglePasswordForm, ProfileSuccessFades,
         HandleChangePassword, TypeProfile, Kept
<1>6. \/ acFlights' = acFlights
      \/ acFlights' = acFlights \cup {[kind |-> "password", user |-> acStore.user,
                                       name |-> FirstName, served |-> FALSE]}
  BY DEF EditProfile, CancelProfile, TogglePasswordForm, ProfileSuccessFades,
         HandleChangePassword, TypeProfile
<1>7. acStore.user \in Shoppers
  BY <1>1 DEF ProfileInv, IsAuth
<1>8. \A f \in acFlights' : IsFlight(f) /\ f.user \in Shoppers
  BY <1>6, <1>7 DEF ProfileInv, IsFlight
<1>9. ProfileFlights' = ProfileFlights
  BY <1>6 DEF ProfileFlights
<1> QED
  BY <1>1, <1>4, <1>5, <1>8, <1>9, SavesUntouched DEF PageShape

\* A save that starts with no other running is the one.
LEMMA SavingKeepsProfile == ASSUME ProfileInv, HandleSaveProfile PROVE ProfileInv'
<1>1. IsProfilePage(acPage) /\ acStore.user \in Shoppers
  BY DEF HandleSaveProfile, AcAt, ProfileInv, PageShape, AcAway, IsOrdersPage, IsAddressPage, IsAuth
<1>2. PICK c, f : /\ c = ~Saves
                  /\ f = [kind |-> "profile", user |-> acStore.user, name |-> acPage.name,
                          served |-> FALSE]
  OBVIOUS
<1>3. /\ acPage' = [acPage EXCEPT !.saving = TRUE, !.error = FALSE, !.calm = c]
      /\ acFlights' = acFlights \cup {f} /\ acStore' = acStore /\ acServer' = acServer
  BY <1>2 DEF HandleSaveProfile, Kept
<1>4. c \in BOOLEAN
  BY <1>2
<1>5. IsProfilePage(acPage') /\ acPage'.calm = c
  BY ONLY <1>1, <1>3, <1>4 DEF IsProfilePage
<1>6. IsFlight(f) /\ f.user = acStore.user /\ ~f.served /\ f.kind = "profile"
  BY <1>2 DEF IsFlight
<1>7. ASSUME c PROVE CalmSaves'
  <2>1. ProfileFlights' = {f}
    BY <1>2, <1>3, <1>6, <1>7 DEF Saves, ProfileFlights
  <2> QED
    BY <1>3, <1>6, <2>1 DEF CalmSaves
<1>8. acStore.user # NoShopper
  BY DEF HandleSaveProfile, AcAt
<1> QED
  BY <1>1, <1>3, <1>5, <1>6, <1>7, <1>8 DEF ProfileInv, PageShape

\* The service takes a profile from its flight.
LEMMA ServingKeepsProfile ==
  ASSUME ProfileInv, NEW f \in acFlights, ServeAccountCall(f)
  PROVE  ProfileInv'
<1>1. IsFlight(f) /\ f.user \in Shoppers /\ ~f.served
  BY DEF ProfileInv, ServeAccountCall
<1>2. PICK g : g = [f EXCEPT !.served = TRUE]
  OBVIOUS
<1>3. IsFlight(g) /\ g.kind = f.kind /\ g.user = f.user /\ g.name = f.name /\ g.served
  BY ONLY <1>1, <1>2 DEF IsFlight
<1>4. /\ acFlights' = (acFlights \ {f}) \cup {g} /\ acPage' = acPage /\ acStore' = acStore
      /\ acServer' = IF f.kind = "profile" THEN [acServer EXCEPT ![f.user] = f.name] ELSE acServer
  BY <1>2 DEF ServeAccountCall
<1>5. /\ DOMAIN acServer' = Shoppers /\ acServer' = [s \in Shoppers |-> acServer'[s]]
      /\ f.kind = "profile" => acServer'[f.user] = f.name
  BY <1>1, <1>4 DEF ProfileInv
<1>6. \A h \in acFlights' : IsFlight(h) /\ h.user \in Shoppers
  BY <1>1, <1>3, <1>4 DEF ProfileInv
<1>7. ASSUME acPage.at = "account", acPage.calm PROVE CalmSaves'
  <2>1. CalmSaves
    BY <1>7 DEF ProfileInv
  <2>2. CASE f.kind = "profile"
    <3>1. ProfileFlights = {f} /\ f.user = acStore.user
      BY <2>1, <2>2 DEF CalmSaves, ProfileFlights
    <3>2. ProfileFlights' = {g}
      BY <1>3, <1>4, <2>2, <3>1 DEF ProfileFlights
    <3> QED
      BY <1>3, <1>4, <1>5, <2>2, <3>1, <3>2 DEF CalmSaves
  <2>3. CASE f.kind # "profile"
    <3>1. ProfileFlights' = ProfileFlights /\ acServer' = acServer
      BY <1>3, <1>4, <2>3 DEF ProfileFlights
    <3> QED
      BY <1>4, <2>1, <3>1 DEF CalmSaves
  <2> QED
    BY <2>2, <2>3
<1> QED
  BY <1>4, <1>5, <1>6, <1>7 DEF ProfileInv, PageShape

\* An answer, or a refusal, of the one save of a calm page is its own.
LEMMA AnswersKeepProfile ==
  ASSUME ProfileInv, NEW f \in acFlights, AccountAnswered(f) \/ AccountRefused(f)
  PROVE  ProfileInv'
<1>1. IsFlight(f) /\ f.user \in Shoppers
  BY DEF ProfileInv
<1>2. /\ acFlights' = acFlights \ {f} /\ acServer' = acServer
      /\ \A h \in acFlights' : IsFlight(h) /\ h.user \in Shoppers
  BY DEF AccountAnswered, AccountRefused, ProfileInv
<1>3. CASE f.kind = "profile" /\ AccountAnswered(f)
  <2>1. /\ f.served /\ acStore' = [user |-> f.user, name |-> f.name]
        /\ acPage' = IF MyPage(f) THEN [acPage EXCEPT !.success = TRUE, !.edit = FALSE, !.saving = FALSE]
                     ELSE acPage
    BY <1>3 DEF AccountAnswered, ProfileAnswered, PasswordAnswered, OrdersAnswered, SetAuth
  <2>2. IsAuth(acStore') /\ acStore'.user = f.user /\ acStore'.name = f.name
        /\ acStore'.user # NoShopper
    BY <1>1, <2>1, AccountAssumption DEF IsAuth, AccountAssumption
  <2>3. PageShape' /\ acPage'.at = acPage.at
        /\ (acPage'.at = "account" => acPage'.calm = acPage.calm)
    <3>1. CASE MyPage(f)
      <4>1. IsProfilePage(acPage)
        BY <3>1 DEF MyPage, ProfileInv, PageShape, AcAway, IsOrdersPage, IsAddressPage
      <4>2. acPage' = [acPage EXCEPT !.success = TRUE, !.edit = FALSE, !.saving = FALSE]
        BY <2>1, <3>1
      <4>3. IsProfilePage(acPage') /\ acPage'.calm = acPage.calm
        BY ONLY <4>1, <4>2 DEF IsProfilePage
      <4> QED
        BY <4>1, <4>3 DEF PageShape, IsProfilePage
    <3>2. CASE ~MyPage(f)
      BY <2>1, <3>2 DEF ProfileInv, PageShape
    <3> QED
      BY <3>1, <3>2
  <2>4. ASSUME acPage'.at = "account", acPage'.calm PROVE CalmSaves'
    <3>1. CalmSaves
      BY <2>3, <2>4 DEF ProfileInv
    <3>2. ProfileFlights = {f} /\ acServer[f.user] = f.name
      BY <1>3, <2>1, <3>1 DEF CalmSaves, ProfileFlights
    <3>3. ProfileFlights' = {}
      BY <1>2, <3>2 DEF ProfileFlights
    <3> QED
      BY <1>2, <2>2, <3>2, <3>3 DEF CalmSaves
  <2> QED
    BY <1>2, <2>2, <2>3, <2>4 DEF ProfileInv
<1>4. CASE f.kind = "profile" /\ AccountRefused(f)
  <2>1. /\ acStore' = acStore
        /\ acPage' = IF MyPage(f) THEN [acPage EXCEPT !.saving = FALSE, !.error = TRUE, !.calm = FALSE]
                     ELSE acPage
    BY <1>4 DEF AccountRefused
  <2>2. PageShape' /\ acPage'.at = acPage.at
        /\ (acPage'.at = "account" => ~acPage'.calm)
    <3>1. CASE MyPage(f)
      <4>1. IsProfilePage(acPage)
        BY <3>1 DEF MyPage, ProfileInv, PageShape, AcAway, IsOrdersPage, IsAddressPage
      <4>2. acPage' = [acPage EXCEPT !.saving = FALSE, !.error = TRUE, !.calm = FALSE]
        BY <2>1, <3>1
      <4>3. IsProfilePage(acPage') /\ acPage'.calm = FALSE
        BY ONLY <4>1, <4>2 DEF IsProfilePage
      <4> QED
        BY <4>1, <4>3 DEF PageShape, IsProfilePage
    <3>2. CASE ~MyPage(f)
      <4>1. acPage' = acPage
        BY <2>1, <3>2
      <4>2. ASSUME acPage.at = "account", acPage.calm PROVE FALSE
        <5>1. CalmSaves
          BY <4>2 DEF ProfileInv
        <5>2. f.user = acStore.user
          BY <1>4, <5>1 DEF CalmSaves, ProfileFlights
        <5> QED
          BY <3>2, <4>2, <5>2 DEF MyPage
      <4> QED
        BY <4>1, <4>2 DEF ProfileInv, PageShape
    <3> QED
      BY <3>1, <3>2
  <2> QED
    BY <1>2, <2>1, <2>2 DEF ProfileInv
<1>5. CASE f.kind # "profile"
  <2>1. /\ acStore' = acStore
        /\ \/ acPage' = acPage
           \/ MyPage(f) /\ acPage' = [acPage EXCEPT !.pw = "shut"]
           \/ MyPage(f) /\ acPage' = [acPage EXCEPT !.pw = "open", !.error = TRUE]
           \/ acPage.at = "orders" /\ acPage' = [acPage EXCEPT !.of = f.user, !.loading = FALSE]
           \/ acPage.at = "orders" /\ acPage' = [acPage EXCEPT !.loading = FALSE, !.error = TRUE]
    BY <1>5 DEF AccountAnswered, AccountRefused, ProfileAnswered, PasswordAnswered, OrdersAnswered
  <2>2. ProfileFlights' = ProfileFlights
    BY <1>2, <1>5 DEF ProfileFlights
  <2>3. CASE acPage' = acPage
    BY <1>2, <2>1, <2>2, <2>3, SavesUntouched DEF ProfileInv, PageShape
  <2>4. CASE MyPage(f) /\ \/ acPage' = [acPage EXCEPT !.pw = "shut"]
                          \/ acPage' = [acPage EXCEPT !.pw = "open", !.error = TRUE]
    <3>1. IsProfilePage(acPage)
      BY <2>4 DEF MyPage, ProfileInv, PageShape, AcAway, IsOrdersPage, IsAddressPage
    <3>2. /\ IsProfilePage(acPage') /\ acPage'.calm = acPage.calm
          /\ acPage'.success = acPage.success
      BY ONLY <2>4, <3>1 DEF IsProfilePage
    <3>3. acPage.at = "account"
      BY <3>1 DEF IsProfilePage
    <3> QED
      BY <1>2, <2>1, <2>2, <3>2, <3>3, SavesUntouched DEF PageShape
  <2>5. CASE acPage.at = "orders"
             /\ \/ acPage' = [acPage EXCEPT !.of = f.user, !.loading = FALSE]
                \/ acPage' = [acPage EXCEPT !.loading = FALSE, !.error = TRUE]
    <3>1. IsOrdersPage(acPage)
      BY <2>5 DEF ProfileInv, PageShape, AcAway, IsProfilePage, IsAddressPage
    <3>2. IsOrdersPage(acPage')
      BY ONLY <2>5, <3>1 DEF IsOrdersPage
    <3>3. acPage'.at # "account"
      BY <3>2 DEF IsOrdersPage
    <3> QED
      BY <1>2, <2>1, <3>2, <3>3 DEF ProfileInv, PageShape
  <2> QED
    BY <2>1, <2>3, <2>4, <2>5
<1> QED
  BY <1>3, <1>4, <1>5

\* The address pages never touch the profile.
LEMMA AddressesKeepProfile ==
  ASSUME ProfileInv, \/ ShowAddressForm \/ CancelAddress
                     \/ \E b \in BOOLEAN : AddAddress(b) \/ UpdateAddress(b)
                     \/ \E id \in 1..MaxAddresses : EditAddress(id) \/ RemoveAddress(id) \/ SetDefaultAddress(id)
  PROVE  ProfileInv'
<1>1. /\ acPage.at = "addresses" /\ acFlights' = acFlights /\ acStore' = acStore
      /\ acServer' = acServer
  BY DEF ShowAddressForm, CancelAddress, AddAddress, UpdateAddress, EditAddress, RemoveAddress,
         SetDefaultAddress, OnAddresses, AcAt, Kept
<1>2. IsAddressPage(acPage)
  BY <1>1 DEF ProfileInv, PageShape, AcAway, IsProfilePage, IsOrdersPage
<1>3. \E v : \/ acPage' = acPage \/ acPage' = [acPage EXCEPT !.adding = v]
             \/ acPage' = [acPage EXCEPT !.editing = v]
  BY DEF ShowAddressForm, CancelAddress, AddAddress, UpdateAddress, EditAddress, RemoveAddress,
         SetDefaultAddress
<1>4. IsAddressPage(acPage') /\ acPage'.at # "account"
  BY ONLY <1>2, <1>3 DEF IsAddressPage
<1> QED
  BY <1>1, <1>4 DEF ProfileInv, PageShape

-----------------------------------------------------------------------------
(* The address book.                                                       *)

\* Marking an address by hand, or none.
LEMMA MarkedAs ==
  ASSUME NEW a, IsAddress(a), NEW b \in BOOLEAN, NEW q, q = [a EXCEPT !.default = b]
  PROVE  IsAddress(q) /\ q.id = a.id /\ q.default = b
BY DEF IsAddress

LEMMA NoneMarked ==
  ASSUME NEW as, NEW n, IsAddressList(as, n)
  PROVE  IsAddressList(NoneDefault(as), n) /\ \A k \in 1..n : ~NoneDefault(as)[k].default
<1>1. PICK new : new = NoneDefault(as)
  OBVIOUS
<1>2. /\ n \in Nat /\ DOMAIN new = 1..n /\ new = [k \in 1..n |-> new[k]]
      /\ \A k \in 1..n : new[k] = [as[k] EXCEPT !.default = FALSE]
  BY <1>1 DEF NoneDefault, IsAddressList
<1>3. \A k \in 1..n : IsAddress(new[k]) /\ new[k].id = as[k].id /\ ~new[k].default
  BY <1>2, MarkedAs DEF IsAddressList
<1> QED
  BY <1>1, <1>2, <1>3 DEF IsAddressList

LEMMA OneMarked ==
  ASSUME NEW as, NEW n, IsAddressList(as, n), NEW id
  PROVE  IsAddressList(Defaulted(as, id), n) /\ OneAtMost(Defaulted(as, id))
<1>1. PICK new : new = Defaulted(as, id)
  OBVIOUS
<1>2. /\ n \in Nat /\ DOMAIN new = 1..n /\ new = [k \in 1..n |-> new[k]]
      /\ \A k \in 1..n : new[k] = [as[k] EXCEPT !.default = as[k].id = id]
  BY <1>1 DEF Defaulted, IsAddressList
<1>3. ASSUME NEW k \in 1..n
      PROVE  /\ IsAddress(new[k]) /\ new[k].id = as[k].id
             /\ new[k].default => as[k].id = id
  <2>1. PICK b : b = (as[k].id = id)
    OBVIOUS
  <2>2. b \in BOOLEAN /\ IsAddress(as[k]) /\ new[k] = [as[k] EXCEPT !.default = b]
    BY <1>2, <2>1 DEF IsAddressList
  <2> QED
    BY <2>1, <2>2, MarkedAs
<1>4. IsAddressList(new, n)
  BY <1>2, <1>3 DEF IsAddressList
<1>5. ASSUME NEW j \in 1..n, NEW k \in 1..n, new[j].default, new[k].default PROVE j = k
  <2>1. as[j].id = id /\ as[k].id = id
    BY <1>3, <1>5
  <2> QED
    BY <2>1 DEF IsAddressList
<1>6. OneAtMost(new)
  BY <1>2, <1>5 DEF OneAtMost
<1> QED
  BY <1>1, <1>4, <1>6

\* A list that is known by its domain is a sequence.
LEMMA ListIsSeq ==
  ASSUME NEW T, NEW n \in Nat, NEW s \in [1..n -> T]
  PROVE  s \in Seq(T) /\ Len(s) = n
OBVIOUS

LEMMA SeqIsList ==
  ASSUME NEW T, NEW s \in Seq(T)
  PROVE  DOMAIN s = 1..Len(s) /\ s \in [1..Len(s) -> T]
OBVIOUS

LEMMA AppendedAtEnd ==
  ASSUME NEW T, NEW s \in Seq(T), NEW e \in T
  PROVE  /\ Append(s, e) \in Seq(T) /\ Len(Append(s, e)) = Len(s) + 1
         /\ Append(s, e)[Len(s) + 1] = e
         /\ \A k \in 1..Len(s) : Append(s, e)[k] = s[k]
OBVIOUS

\* A new address at the end of the list.
LEMMA AddressAdded ==
  ASSUME NEW as, NEW n \in Nat, IsAddressList(as, n), NEW a, IsAddress(a), \A k \in 1..n : as[k].id # a.id,
         OneAtMost(as), a.default => \A k \in 1..n : ~as[k].default
  PROVE  IsAddressList(Append(as, a), n + 1) /\ OneAtMost(Append(as, a))
<1>1. n \in Nat /\ DOMAIN as = 1..n /\ as = [k \in 1..n |-> as[k]]
  BY DEF IsAddressList
<1>2. PICK new : new = Append(as, a)
  OBVIOUS
<1>3. n + 1 \in Nat
  BY <1>1
<1>4. /\ DOMAIN new = 1..(n + 1) /\ new = [k \in 1..(n + 1) |-> new[k]]
      /\ \A k \in 1..n : new[k] = as[k]
      /\ new[n + 1] = a
  <2> DEFINE T == {as[k] : k \in 1..n} \cup {a}
  <2>1. as \in [1..n -> T] /\ a \in T
    BY <1>1
  <2> HIDE DEF T
  <2>2. n \in Nat
    BY <1>1
  <2>3. as \in Seq(T) /\ Len(as) = n
    BY <2>1, ListIsSeq
  <2>4. /\ new \in Seq(T) /\ Len(new) = Len(as) + 1 /\ new[Len(as) + 1] = a
        /\ \A k \in 1..Len(as) : new[k] = as[k]
    <3>1. a \in T
      BY <2>1
    <3>2. as \in Seq(T)
      BY <2>3
    <3>3. Append(as, a) \in Seq(T)
      BY ONLY <3>1, <3>2, AppendedAtEnd
    <3>4. Len(Append(as, a)) = Len(as) + 1
      BY ONLY <3>1, <3>2, AppendedAtEnd
    <3>5. Append(as, a)[Len(as) + 1] = a
      BY ONLY <3>1, <3>2, AppendedAtEnd
    <3>6. \A k \in 1..Len(as) : Append(as, a)[k] = as[k]
      BY ONLY <3>1, <3>2, AppendedAtEnd
    <3> QED
      BY ONLY <1>2, <3>3, <3>4, <3>5, <3>6
  <2>5. /\ Len(new) = n + 1 /\ new[n + 1] = a
        /\ \A k \in 1..n : new[k] = as[k]
    BY <2>3, <2>4
  <2>6. DOMAIN new = 1..(n + 1) /\ new \in [1..(n + 1) -> T]
    BY ONLY <2>2, <2>4, <2>5, SeqIsList
  <2> QED
    BY <2>4, <2>5, <2>6
<1>5. \A k \in 1..(n + 1) : k \in 1..n \/ k = n + 1
  BY <1>1
<1>6. \A k \in 1..(n + 1) : IsAddress(new[k])
  BY <1>4, <1>5 DEF IsAddressList
<1>7. \A j, k \in 1..(n + 1) : new[j].id = new[k].id => j = k
  BY <1>4, <1>5 DEF IsAddressList
<1>8. OneAtMost(new)
  BY <1>1, <1>4, <1>5 DEF OneAtMost
<1> QED
  <2>1. IsAddressList(new, n + 1)
    BY <1>3, <1>4, <1>6, <1>7 DEF IsAddressList
  <2> QED
    BY <1>2, <1>8, <2>1

\* As long as there are fewer addresses than allowed there is a free id.
LEMMA FreeAddressId ==
  ASSUME NEW n, IsAddressList(addresses, n), n < MaxAddresses
  PROVE  \E m \in 1..MaxAddresses + 1 : ~HasAddress(m)
<1> DEFINE ids == {addresses[k].id : k \in 1..n}
<1>1. MaxAddresses \in Nat /\ n \in Nat /\ DOMAIN addresses = 1..n
  BY AccountAssumption DEF IsAddressList, AccountAssumption
<1>2. IsFiniteSet(1..n) /\ Cardinality(1..n) = n
  BY <1>1, FS_Interval
<1>3. IsFiniteSet(ids) /\ Cardinality(ids) <= n /\ Cardinality(ids) \in Nat
  <2> DEFINE f == [k \in 1..n |-> addresses[k].id]
  <2>1. f \in Surjection(1..n, ids)
    BY DEF Surjection
  <2> HIDE DEF f, ids
  <2>2. IsFiniteSet(ids) /\ Cardinality(ids) <= Cardinality(1..n)
    BY <1>2, <2>1, FS_Surjection
  <2> QED
    BY <1>2, <2>2, FS_CardinalityType
<1>4. Cardinality(1..MaxAddresses + 1) = MaxAddresses + 1 /\ IsFiniteSet(1..MaxAddresses + 1)
  BY <1>1, FS_Interval
<1>5. ~(1..MaxAddresses + 1 \subseteq ids)
  <2>1. SUFFICES ASSUME 1..MaxAddresses + 1 \in SUBSET ids PROVE FALSE
    OBVIOUS
  <2> HIDE DEF ids
  <2>2. Cardinality(1..MaxAddresses + 1) <= Cardinality(ids)
    BY <1>3, <2>1, FS_Subset
  <2> QED
    BY <1>1, <1>3, <1>4, <2>2
<1> QED
  BY <1>1, <1>5 DEF HasAddress

\* One address gets its mark taken.
LEMMA OneUnmarked ==
  ASSUME NEW as, NEW n, IsAddressList(as, n), OneAtMost(as), NEW id, NEW new,
         new = [k \in DOMAIN as |-> IF as[k].id = id THEN [as[k] EXCEPT !.default = FALSE] ELSE as[k]]
  PROVE  IsAddressList(new, n) /\ OneAtMost(new)
<1>1. /\ n \in Nat /\ DOMAIN as = 1..n /\ DOMAIN new = 1..n /\ new = [k \in 1..n |-> new[k]]
      /\ \A k \in 1..n : new[k] = IF as[k].id = id THEN [as[k] EXCEPT !.default = FALSE] ELSE as[k]
  BY DEF IsAddressList
<1>2. ASSUME NEW k \in 1..n
      PROVE  /\ IsAddress(new[k]) /\ new[k].id = as[k].id
             /\ new[k].default => as[k].default
  <2>1. IsAddress(as[k])
    BY DEF IsAddressList
  <2>2. CASE as[k].id = id
    BY <1>1, <2>1, <2>2, MarkedAs
  <2>3. CASE as[k].id # id
    BY <1>1, <2>1, <2>3
  <2> QED
    BY <2>2, <2>3
<1>3. IsAddressList(new, n)
  BY <1>1, <1>2 DEF IsAddressList
<1>4. ASSUME NEW j \in 1..n, NEW k \in 1..n, new[j].default, new[k].default PROVE j = k
  <2>1. as[j].default /\ as[k].default
    BY <1>2, <1>4
  <2> QED
    BY <1>1, <2>1 DEF OneAtMost
<1>5. OneAtMost(new)
  BY ONLY <1>1, <1>4 DEF OneAtMost
<1> QED
  BY <1>3, <1>5

\* One address leaves the list; when it was the default nobody else is.
LEMMA OneTaken ==
  ASSUME NEW n, IsAddressList(addresses, n), OneAtMost(addresses), NEW id, HasAddress(id)
  PROVE  /\ n - 1 \in Nat
         /\ IsAddressList(WithoutAddress(id), n - 1) /\ OneAtMost(WithoutAddress(id))
         /\ (\E k \in DOMAIN addresses : addresses[k].id = id /\ addresses[k].default)
               => \A k \in 1..(n - 1) : ~WithoutAddress(id)[k].default
<1>1. /\ n \in Nat /\ DOMAIN addresses = 1..n /\ addresses = [k \in 1..n |-> addresses[k]]
      /\ Len(addresses) = n
  BY DEF IsAddressList
<1>2. PICK at : at = CHOOSE k \in DOMAIN addresses : addresses[k].id = id
  OBVIOUS
<1>3. at \in 1..n /\ addresses[at].id = id
  BY <1>1, <1>2 DEF HasAddress
<1>4. n - 1 \in Nat
  BY <1>1, <1>3
<1>5. PICK new : new = WithoutAddress(id)
  OBVIOUS
<1>6. new = [k \in 1..(n - 1) |-> addresses[IF k < at THEN k ELSE k + 1]]
  BY <1>1, <1>2, <1>5 DEF WithoutAddress
<1>7. PICK from : from = [k \in 1..(n - 1) |-> IF k < at THEN k ELSE k + 1]
  OBVIOUS
<1>8. /\ \A k \in 1..(n - 1) : from[k] \in 1..n /\ from[k] # at
      /\ \A j, k \in 1..(n - 1) : from[j] = from[k] => j = k
  BY <1>1, <1>3, <1>7
<1>9. /\ DOMAIN new = 1..(n - 1) /\ new = [k \in 1..(n - 1) |-> new[k]]
      /\ \A k \in 1..(n - 1) : new[k] = addresses[from[k]]
  BY <1>6, <1>7
<1>10. IsAddressList(new, n - 1)
  <2>1. \A k \in 1..(n - 1) : IsAddress(new[k])
    BY <1>8, <1>9 DEF IsAddressList
  <2>2. ASSUME NEW j \in 1..(n - 1), NEW k \in 1..(n - 1), new[j].id = new[k].id PROVE j = k
    <3>1. addresses[from[j]].id = addresses[from[k]].id /\ from[j] \in 1..n /\ from[k] \in 1..n
      BY <1>8, <1>9, <2>2
    <3>2. from[j] = from[k]
      BY <3>1 DEF IsAddressList
    <3> QED
      BY <1>8, <3>2
  <2> QED
    BY <1>4, <1>9, <2>1, <2>2 DEF IsAddressList
<1>11. OneAtMost(new)
  <2>1. ASSUME NEW j \in 1..(n - 1), NEW k \in 1..(n - 1), new[j].default, new[k].default PROVE j = k
    <3>1. from[j] = from[k]
      BY <1>1, <1>8, <1>9, <2>1 DEF OneAtMost
    <3> QED
      BY <1>8, <3>1
  <2> QED
    BY <1>9, <2>1 DEF OneAtMost
<1>12. ASSUME NEW k \in DOMAIN addresses, addresses[k].id = id, addresses[k].default,
              NEW j \in 1..(n - 1), new[j].default
       PROVE  FALSE
  <2>1. k = at
    BY <1>1, <1>3, <1>12 DEF IsAddressList
  <2>2. from[j] = k
    BY <1>1, <1>8, <1>9, <1>12 DEF OneAtMost
  <2> QED
    BY <1>8, <2>1, <2>2
<1> QED
  BY <1>4, <1>5, <1>10, <1>11, <1>12

\* An unmarked list gets its first address marked.
LEMMA FirstMarked ==
  ASSUME NEW as, NEW n, IsAddressList(as, n), \A k \in 1..n : ~as[k].default, n # 0,
         NEW new, new = [as EXCEPT ![1].default = TRUE]
  PROVE  IsAddressList(new, n) /\ OneAtMost(new)
<1>1. n \in Nat /\ DOMAIN as = 1..n /\ as = [k \in 1..n |-> as[k]] /\ 1 \in 1..n /\ IsAddress(as[1])
  <2>1. n \in Nat /\ DOMAIN as = 1..n /\ as = [k \in 1..n |-> as[k]]
    BY DEF IsAddressList
  <2>2. 1 \in 1..n
    BY <2>1
  <2> QED
    BY <2>1, <2>2 DEF IsAddressList
<1>2. PICK a : a = [as[1] EXCEPT !.default = TRUE]
  OBVIOUS
<1>3. IsAddress(a) /\ a.id = as[1].id
  BY <1>1, <1>2 DEF IsAddress
<1>4. new = [as EXCEPT ![1] = a]
  BY <1>2
<1>5. /\ DOMAIN new = 1..n /\ new = [k \in 1..n |-> new[k]] /\ new[1] = a
      /\ \A k \in 1..n : k # 1 => new[k] = as[k]
  BY ONLY <1>1, <1>4
<1>6. \A k \in 1..n : IsAddress(new[k]) /\ new[k].id = as[k].id
  BY <1>3, <1>5 DEF IsAddressList
<1>7. \A k \in 1..n : new[k].default => k = 1
  BY <1>5
<1>8. IsAddressList(new, n)
  BY <1>1, <1>5, <1>6 DEF IsAddressList
<1>9. OneAtMost(new)
  BY ONLY <1>5, <1>7 DEF OneAtMost
<1> QED
  BY <1>8, <1>9

LEMMA AddingKeepsAddresses ==
  ASSUME AddressInv, NEW b \in BOOLEAN, AddAddress(b)
  PROVE  AddressInv'
<1>1. PICK n \in Nat : IsAddressList(addresses, n) /\ OneAtMost(addresses)
  BY DEF AddressInv
<1>2. DOMAIN addresses = 1..n /\ Len(addresses) = n
  BY <1>1 DEF IsAddressList
<1>3. PICK id : id = CHOOSE m \in 1..MaxAddresses + 1 : ~HasAddress(m)
  OBVIOUS
<1>4. n < MaxAddresses
        /\ addresses' = IF b \/ addresses = <<>>
                        THEN Append(NoneDefault(addresses), [id |-> id, default |-> TRUE])
                        ELSE Append(addresses, [id |-> id, default |-> FALSE])
  BY <1>2, <1>3 DEF AddAddress
<1>5. ~HasAddress(id)
  BY <1>1, <1>3, <1>4, FreeAddressId
<1>6. \A k \in 1..n : addresses[k].id # id
  BY <1>2, <1>5 DEF HasAddress
<1>7. CASE b \/ addresses = <<>>
  <2>1. PICK as, a : as = NoneDefault(addresses) /\ a = [id |-> id, default |-> TRUE]
    OBVIOUS
  <2>2. IsAddressList(as, n) /\ \A k \in 1..n : ~as[k].default /\ as[k].id = addresses[k].id
    <3>1. IsAddressList(as, n) /\ \A k \in 1..n : ~as[k].default
      BY <1>1, <2>1, NoneMarked
    <3>2. ASSUME NEW k \in 1..n PROVE as[k].id = addresses[k].id
      <4>1. as[k] = [addresses[k] EXCEPT !.default = FALSE] /\ IsAddress(addresses[k])
        BY <1>1, <1>2, <2>1 DEF NoneDefault, IsAddressList
      <4> QED
        BY <4>1, MarkedAs
    <3> QED
      BY <3>1, <3>2
  <2>3. IsAddress(a) /\ a.id = id
    BY <2>1 DEF IsAddress
  <2>4. OneAtMost(as)
    BY <2>2 DEF OneAtMost, IsAddressList
  <2>5. addresses' = Append(as, a)
    BY <1>4, <1>7, <2>1
  <2>6. IsAddressList(addresses', n + 1) /\ OneAtMost(addresses')
    BY <1>6, <2>2, <2>3, <2>4, <2>5, AddressAdded
  <2> QED
    BY <2>6 DEF AddressInv
<1>8. CASE ~(b \/ addresses = <<>>)
  <2>1. PICK a : a = [id |-> id, default |-> FALSE]
    OBVIOUS
  <2>2. IsAddress(a) /\ a.id = id /\ ~a.default
    BY <2>1 DEF IsAddress
  <2>3. addresses' = Append(addresses, a)
    BY <1>4, <1>8, <2>1
  <2>4. IsAddressList(addresses', n + 1) /\ OneAtMost(addresses')
    BY <1>1, <1>6, <2>2, <2>3, AddressAdded
  <2> QED
    BY <2>4 DEF AddressInv
<1> QED
  BY <1>7, <1>8

LEMMA RemovingKeepsAddresses ==
  ASSUME AddressInv, NEW id, RemoveAddress(id)
  PROVE  AddressInv'
<1>1. PICK n \in Nat : IsAddressList(addresses, n) /\ OneAtMost(addresses)
  BY DEF AddressInv
<1>2. PICK rest, lost :
         /\ rest = WithoutAddress(id)
         /\ lost = \E k \in DOMAIN addresses : addresses[k].id = id /\ addresses[k].default
  OBVIOUS
<1>3. HasAddress(id)
        /\ addresses' = IF lost /\ rest # <<>> THEN [rest EXCEPT ![1].default = TRUE] ELSE rest
  BY <1>2 DEF RemoveAddress
<1>4. n - 1 \in Nat /\ IsAddressList(rest, n - 1) /\ OneAtMost(rest)
      /\ (lost => \A k \in 1..(n - 1) : ~rest[k].default)
  BY <1>1, <1>2, <1>3, OneTaken
<1>5. CASE lost /\ rest # <<>>
  <2>1. n - 1 # 0
    BY <1>4, <1>5 DEF IsAddressList
  <2>2. IsAddressList(addresses', n - 1) /\ OneAtMost(addresses')
    BY <1>3, <1>4, <1>5, <2>1, FirstMarked
  <2> QED
    BY <1>4, <2>2 DEF AddressInv
<1>6. CASE ~(lost /\ rest # <<>>)
  BY <1>3, <1>4, <1>6 DEF AddressInv
<1> QED
  BY <1>5, <1>6

LEMMA MarkingKeepsAddresses ==
  ASSUME AddressInv, \/ \E b \in BOOLEAN : UpdateAddress(b)
                     \/ \E id \in 1..MaxAddresses : SetDefaultAddress(id)
  PROVE  AddressInv'
<1>1. PICK n \in Nat : IsAddressList(addresses, n) /\ OneAtMost(addresses)
  BY DEF AddressInv
<1>2. PICK id : \/ addresses' = Defaulted(addresses, id)
                \/ addresses' = [k \in DOMAIN addresses |->
                                   IF addresses[k].id = id THEN [addresses[k] EXCEPT !.default = FALSE]
                                   ELSE addresses[k]]
  BY DEF UpdateAddress, SetDefaultAddress
<1>3. IsAddressList(addresses', n) /\ OneAtMost(addresses')
  BY <1>1, <1>2, OneMarked, OneUnmarked
<1> QED
  BY <1>3 DEF AddressInv

AccountInv == ProfileInv /\ AddressInv

LEMMA AccountStepInv == AccountInv /\ [AccountNext]_accountVars => AccountInv'
<1> SUFFICES ASSUME AccountInv, [AccountNext]_accountVars PROVE AccountInv'
  OBVIOUS
<1>0. ProfileInv /\ AddressInv
  BY DEF AccountInv
<1>1. CASE UNCHANGED accountVars
  BY <1>0, <1>1 DEF accountVars, AccountInv, ProfileInv, AddressInv, PageShape, CalmSaves, ProfileFlights
<1>2. CASE QuitAccount \/ \E s \in Shoppers : EnterAccount(s)
  <2>1. addresses' = addresses
    BY <1>2 DEF QuitAccount, EnterAccount
  <2> QED
    BY <1>0, <1>2, <2>1, SigningKeepsProfile DEF AccountInv, AddressInv
<1>3. CASE OpenProfile
  <2>1. addresses' = addresses
    BY <1>3 DEF OpenProfile
  <2> QED
    BY <1>0, <1>3, <2>1, OpeningKeepsProfile DEF AccountInv, AddressInv
<1>4. CASE OpenOrders \/ OpenAddresses
  <2>1. addresses' = addresses
    BY <1>4 DEF OpenOrders, OpenAddresses
  <2> QED
    BY <1>0, <1>4, <2>1, OtherPagesKeepProfile DEF AccountInv, AddressInv
<1>5. CASE \/ EditProfile \/ CancelProfile \/ TogglePasswordForm \/ ProfileSuccessFades
           \/ HandleChangePassword \/ \E n \in ProfileNames : TypeProfile(n)
  <2>1. addresses' = addresses
    BY <1>5 DEF EditProfile, CancelProfile, TogglePasswordForm, ProfileSuccessFades,
                HandleChangePassword, TypeProfile
  <2> QED
    BY <1>0, <1>5, <2>1, FormKeepsProfile DEF AccountInv, AddressInv
<1>6. CASE HandleSaveProfile
  <2>1. addresses' = addresses
    BY <1>6 DEF HandleSaveProfile
  <2> QED
    BY <1>0, <1>6, <2>1, SavingKeepsProfile DEF AccountInv, AddressInv
<1>7. ASSUME NEW f \in acFlights, ServeAccountCall(f) \/ AccountAnswered(f) \/ AccountRefused(f)
      PROVE  AccountInv'
  <2>1. addresses' = addresses
    BY <1>7 DEF ServeAccountCall, AccountAnswered, AccountRefused
  <2>2. ProfileInv'
    BY <1>0, <1>7, ServingKeepsProfile, AnswersKeepProfile
  <2> QED
    BY <1>0, <2>1, <2>2 DEF AccountInv, AddressInv
<1>8. CASE ShowAddressForm \/ CancelAddress \/ \E id \in 1..MaxAddresses : EditAddress(id)
  <2>1. addresses' = addresses
    BY <1>8 DEF ShowAddressForm, CancelAddress, EditAddress
  <2>2. ProfileInv'
    BY <1>0, <1>8, AddressesKeepProfile
  <2> QED
    BY <1>0, <2>1, <2>2 DEF AccountInv, AddressInv
<1>9. CASE \/ \E b \in BOOLEAN : AddAddress(b) \/ UpdateAddress(b)
           \/ \E id \in 1..MaxAddresses : RemoveAddress(id) \/ SetDefaultAddress(id)
  <2>1. ProfileInv'
    BY <1>0, <1>9, AddressesKeepProfile
  <2>2. AddressInv'
    BY <1>0, <1>9, AddingKeepsAddresses, RemovingKeepsAddresses, MarkingKeepsAddresses
  <2> QED
    BY <2>1, <2>2 DEF AccountInv
<1> QED
  BY <1>1, <1>2, <1>3, <1>4, <1>5, <1>6, <1>7, <1>8, <1>9 DEF AccountNext

\* "Profile updated" means that the store and the user service agree, when
\* the last save met no other one; and no sequence of adding, editing,
\* removing and choosing addresses leaves two of them the default.
THEOREM AccountsAreTold == StorefrontSpec => []AccountShowsAnswers
<1>1. StorefrontInit => AccountInv
  BY AccountInitInv DEF StorefrontInit, AccountInv
<1>2. AccountInv /\ [StorefrontNext]_storefrontVars => AccountInv'
  BY PartSteps, AccountStepInv
<1>3. AccountInv => AccountShowsAnswers
  <2> SUFFICES ASSUME AccountInv PROVE AccountShowsAnswers
    OBVIOUS
  <2>1. CalmProfileIsServed
    BY DEF AccountInv, ProfileInv, CalmSaves, ProfileFlights, CalmProfileIsServed, AcAt, Saves
  <2>2. OneDefaultAddressAtMost
    <3>1. \A j, k \in DefaultAddresses : j = k
      BY DEF AccountInv, AddressInv, OneAtMost, DefaultAddresses
    <3>2. CASE DefaultAddresses = {}
      BY <3>2, FS_EmptySet DEF OneDefaultAddressAtMost
    <3>3. CASE DefaultAddresses # {}
      <4>1. PICK k : DefaultAddresses = {k}
        BY <3>1, <3>3
      <4>2. Cardinality({k}) = 1
        BY FS_Singleton
      <4> QED
        BY <4>1, <4>2 DEF OneDefaultAddressAtMost
    <3> QED
      BY <3>2, <3>3
  <2> QED
    BY <2>1, <2>2 DEF AccountShowsAnswers
<1> QED
  BY <1>1, <1>2, <1>3, PTL DEF StorefrontSpec

=============================================================================
