-------------------------- MODULE DojoUploadProofs --------------------------
(***************************************************************************)
(* Proofs about DojoUpload for any number of jobs, products and failures.  *)
(***************************************************************************)
EXTENDS DojoUpload, SequenceTheorems, TLAPS

Product == [name : Names, type : Nat, by : Jobs \cup Others]
Engagement == [product : Nat, by : Jobs]
Import == [engagement : Nat, by : Jobs]

Places == {"idle", "sla", "createSla", "type", "createType", "product",
           "createProduct", "engagement", "import", "done", "failed"}

Shape ==
    /\ slas \in Nat /\ types \in Nat
    /\ products \in Seq(Product)
    /\ engagements \in Seq(Engagement)
    /\ imports \in Seq(Import)
    /\ pc \in [Jobs -> Places]
    /\ type \in [Jobs -> Nat] /\ product \in [Jobs -> Nat] /\ engagement \in [Jobs -> Nat]
    /\ lookedAt \in [Jobs -> Nat]
    /\ faults \in Nat

Looked == \A j \in Jobs : lookedAt[j] <= Len(products)

\* What a job knows when it is about to create a product, an engagement, an import.
NoneThen ==
    \A j \in Jobs : pc[j] = "createProduct" =>
        \A k \in Found(ProductOf[j]) : k > lookedAt[j]
Chosen ==
    \A j \in Jobs : pc[j] = "engagement" =>
        product[j] \in DOMAIN products /\ RightProduct(j, product[j])
Own ==
    \A j \in Jobs : pc[j] = "import" =>
        engagement[j] \in DOMAIN engagements /\ engagements[engagement[j]].by = j

\* Whoever created something is past the step that does.
Made ==
    \A k \in DOMAIN products : products[k].by \in Jobs =>
        pc[products[k].by] \in {"engagement", "import", "done", "failed"}
MadeOnce ==
    \A k, m \in DOMAIN products :
        (products[k].by = products[m].by /\ products[m].by \in Jobs) => k = m
Engaged ==
    \A e \in DOMAIN engagements :
        /\ engagements[e].product \in DOMAIN products
        /\ RightProduct(engagements[e].by, engagements[e].product)
        /\ pc[engagements[e].by] \in {"import", "done", "failed"}
Imported ==
    \A i \in DOMAIN imports :
        /\ imports[i].engagement \in DOMAIN engagements
        /\ engagements[imports[i].engagement].by = imports[i].by
        /\ pc[imports[i].by] \in {"done", "failed"}
Once == \A i, k \in DOMAIN imports : imports[i].by = imports[k].by => i = k
Succeeded == \A j \in Jobs : pc[j] = "done" => \E i \in DOMAIN imports : imports[i].by = j

IInv ==
    /\ Shape /\ Looked
    /\ NoneThen /\ Chosen /\ Own
    /\ Made /\ MadeOnce /\ Engaged /\ Imported /\ Once /\ Succeeded
    /\ DuplicatesFromOverlap

-----------------------------------------------------------------------------
LEMMA InitEstablishes == Init => IInv
<1> SUFFICES ASSUME Init PROVE IInv
  OBVIOUS
<1>1. /\ slas \in Nat /\ types \in Nat
      /\ products \in Seq([name : Names, type : Nat, by : Others])
  BY HoldingsAssumption DEF Init
<1> DEFINE Held == [name : Names, type : Nat, by : Others]
<1>0. \A k \in 1 .. Len(products) : products[k] \in Held
  BY <1>1, ElementOfSeq
<1>2. products \in Seq(Product)
  <2>1. Held \subseteq Product
    BY DEF Product
  <2>. QED
    BY <1>1, <2>1, SeqMonotonic
<1>3. Shape
  BY <1>1, <1>2, JobsAssumption DEF Init, Shape, Places
<1>4. \A k \in DOMAIN products : products[k].by \notin Jobs
  <2>1. DOMAIN products = 1 .. Len(products)
    BY <1>1
  <2>2. \A x \in Held : x.by \in Others
    OBVIOUS
  <2>. QED
    BY <1>0, <2>1, <2>2, JobsAssumption
<1>5. Looked
  <2>1. Len(products) \in Nat
    BY <1>2, LenProperties
  <2>2. \A j \in Jobs : lookedAt[j] = 0
    BY DEF Init
  <2>3. 0 <= Len(products)
    BY <2>1
  <2>. QED
    BY <2>2, <2>3, Zenon DEF Looked
<1>6. Made /\ MadeOnce /\ DuplicatesFromOverlap
  BY <1>4 DEF Made, MadeOnce, DuplicatesFromOverlap
<1>7. NoneThen /\ Chosen /\ Own /\ Engaged /\ Imported /\ Once /\ Succeeded
  BY DEF Init, NoneThen, Chosen, Own, Engaged, Imported, Once, Succeeded
<1>. QED
  BY <1>3, <1>5, <1>6, <1>7 DEF IInv

\* The elements of the three sequences.
LEMMA Elements ==
    ASSUME Shape
    PROVE  /\ Len(products) \in Nat /\ DOMAIN products = 1 .. Len(products)
           /\ Len(engagements) \in Nat /\ DOMAIN engagements = 1 .. Len(engagements)
           /\ Len(imports) \in Nat /\ DOMAIN imports = 1 .. Len(imports)
           /\ \A k \in DOMAIN products : products[k] \in Product
           /\ \A e \in DOMAIN engagements : engagements[e].by \in Jobs
           /\ \A i \in DOMAIN imports : imports[i].by \in Jobs
<1>1. /\ \A k \in DOMAIN products : products[k] \in Product
      /\ \A e \in DOMAIN engagements : engagements[e] \in Engagement
      /\ \A i \in DOMAIN imports : imports[i] \in Import
  BY DEF Shape
<1>. QED
  BY <1>1 DEF Shape, Engagement, Import

LEMMA AnsweredTyped ==
    ASSUME Shape, NEW j \in Jobs, NEW next \in Places, Answered(j, next)
    PROVE  pc' \in [Jobs -> Places] /\ faults' \in Nat
<1>1. CASE Goto(j, next) /\ UNCHANGED faults
  BY <1>1 DEF Shape, Goto
<1>2. CASE faults' = faults + 1 /\ Goto(j, "failed")
  BY <1>2 DEF Shape, Goto, Places
<1>. QED
  BY <1>1, <1>2 DEF Answered

LEMMA ShapePreserved == Shape /\ [Next]_vars => Shape'
<1> SUFFICES ASSUME Shape, [Next]_vars PROVE Shape'
  OBVIOUS
<1> USE DEF Shape, service, given
<1>1. CASE UNCHANGED vars
  BY <1>1 DEF vars
<1>2. ASSUME NEW j \in Jobs, Start(j) PROVE Shape'
  BY <1>2 DEF Start, Goto, Places
<1>3. ASSUME NEW j \in Jobs, IsAnySLAConfiguration(j) PROVE Shape'
  BY <1>3 DEF IsAnySLAConfiguration, Goto, Places
<1>4. ASSUME NEW j \in Jobs, CreateSLAConfiguration(j) PROVE Shape'
  <2>1. pc' \in [Jobs -> Places] /\ faults' \in Nat
    BY <1>4, AnsweredTyped DEF CreateSLAConfiguration, Places
  <2>. QED
    BY <1>4, <2>1 DEF CreateSLAConfiguration
<1>5. ASSUME NEW j \in Jobs, GetProductType(j) PROVE Shape'
  BY <1>5 DEF GetProductType, Goto, Places
<1>6. ASSUME NEW j \in Jobs, CreateProductType(j) PROVE Shape'
  <2>1. pc' \in [Jobs -> Places] /\ faults' \in Nat
    BY <1>6, AnsweredTyped DEF CreateProductType, Places
  <2>2. types' \in Nat
    BY <1>6 DEF CreateProductType
  <2>3. type' \in [Jobs -> Nat]
    BY <1>6, <2>2 DEF CreateProductType
  <2>. QED
    BY <1>6, <2>1, <2>2, <2>3 DEF CreateProductType
<1>7. ASSUME NEW j \in Jobs, GetProduct(j) PROVE Shape'
  <2>1. pc' \in [Jobs -> Places] /\ product' \in [Jobs -> Nat]
    <3>1. \A k \in Found(ProductOf[j]) : k \in Nat
      BY DEF Found
    <3>2. \E next \in Places : Goto(j, next)
      BY <1>7 DEF GetProduct, Places
    <3>3. product' = product \/ \E k \in Found(ProductOf[j]) : product' = [product EXCEPT ![j] = k]
      BY <1>7 DEF GetProduct
    <3>. QED
      BY <3>1, <3>2, <3>3 DEF Goto
  <2>2. lookedAt' \in [Jobs -> Nat]
    BY <1>7 DEF GetProduct
  <2>. QED
    BY <1>7, <2>1, <2>2 DEF GetProduct
<1>8. ASSUME NEW j \in Jobs, CreateProduct(j) PROVE Shape'
  <2>1. pc' \in [Jobs -> Places] /\ faults' \in Nat
    BY <1>8, AnsweredTyped DEF CreateProduct, Places
  <2>2. [name |-> ProductOf[j], type |-> type[j], by |-> j] \in Product
    BY JobsAssumption DEF Product
  <2>3. products' \in Seq(Product) /\ product' \in [Jobs -> Nat]
    BY <1>8, <2>2 DEF CreateProduct
  <2>. QED
    BY <1>8, <2>1, <2>3 DEF CreateProduct
<1>9. ASSUME NEW j \in Jobs, CreateEngagement(j) PROVE Shape'
  <2>1. pc' \in [Jobs -> Places] /\ faults' \in Nat
    BY <1>9, AnsweredTyped DEF CreateEngagement, Places
  <2>2. [product |-> product[j], by |-> j] \in Engagement
    BY DEF Engagement
  <2>3. engagements' \in Seq(Engagement) /\ engagement' \in [Jobs -> Nat]
    BY <1>9, <2>2 DEF CreateEngagement
  <2>. QED
    BY <1>9, <2>1, <2>3 DEF CreateEngagement
<1>10. ASSUME NEW j \in Jobs, ImportScanResult(j) PROVE Shape'
  <2>1. pc' \in [Jobs -> Places] /\ faults' \in Nat
    BY <1>10, AnsweredTyped DEF ImportScanResult, Places
  <2>2. [engagement |-> engagement[j], by |-> j] \in Import
    BY DEF Import
  <2>3. imports' \in Seq(Import)
    BY <1>10, <2>2 DEF ImportScanResult
  <2>. QED
    BY <1>10, <2>1, <2>3 DEF ImportScanResult
<1>11. ASSUME NEW j \in Jobs, RequestFails(j) PROVE Shape'
  <2>1. pc' \in [Jobs -> Places] /\ faults' \in Nat
    BY <1>11 DEF RequestFails, Goto, Places
  <2>. QED
    BY <1>11, <2>1 DEF RequestFails
<1>. QED
  BY <1>1, <1>2, <1>3, <1>4, <1>5, <1>6, <1>7, <1>8, <1>9, <1>10, <1>11 DEF Next

-----------------------------------------------------------------------------
\* What a step leaves alone: it only moves one job, from the place it was at.
Moves(j, from, to) ==
    /\ pc[j] = from
    /\ \A i \in Jobs : pc'[i] = IF i = j THEN pc'[j] ELSE pc[i]
    /\ pc'[j] \in {to, "failed"}

LEMMA AnsweredMoves ==
    ASSUME Shape, NEW j \in Jobs, NEW next, Answered(j, next)
    PROVE  Moves(j, pc[j], next)
BY DEF Answered, Goto, Moves, Shape

\* Steps that create nothing and look up no product.
LEMMA QuietSteps ==
    ASSUME IInv, Shape', NEW j \in Jobs,
           UNCHANGED <<products, engagements, imports, product, engagement, lookedAt>>,
           pc[j] \notin {"done", "failed"},
           pc'[j] \in {"sla", "createSla", "type", "createType", "product", "failed"},
           \A i \in Jobs \ {j} : pc'[i] = pc[i],
           pc'[j] # "failed" => pc[j] \in {"idle", "sla", "createSla", "type", "createType"}
    PROVE  IInv'
<1> USE DEF IInv
<1>1. \A j1 \in Jobs : \A k : RightProduct(j1, k)' <=> RightProduct(j1, k)
  BY DEF RightProduct, Found
<1>2. Looked' /\ MadeOnce' /\ Once' /\ DuplicatesFromOverlap'
  BY DEF Looked, MadeOnce, Once, DuplicatesFromOverlap
<1>3. NoneThen'
  BY DEF NoneThen, Found
<1>4. Chosen'
  BY <1>1 DEF Chosen
<1>5. Own'
  BY DEF Own
<1>6. Made'
  BY DEF Made
<1>7. Engaged'
  BY <1>1, Elements DEF Engaged
<1>8. Imported'
  BY Elements DEF Imported
<1>9. Succeeded'
  BY DEF Succeeded
<1>. QED
  BY <1>2, <1>3, <1>4, <1>5, <1>6, <1>7, <1>8, <1>9

\* A product is chosen by its name, or found to be missing.
LEMMA LookupStep ==
    ASSUME IInv, Shape', NEW j \in Jobs, GetProduct(j)
    PROVE  IInv'
<1> USE DEF IInv
<1>1. /\ pc[j] = "product"
      /\ \A i \in Jobs \ {j} : pc'[i] = pc[i] /\ lookedAt'[i] = lookedAt[i] /\ product'[i] = product[i]
      /\ pc'[j] \in {"createProduct", "engagement", "failed"}
      /\ lookedAt'[j] = Len(products)
      /\ UNCHANGED <<products, engagements, imports, engagement>>
  BY DEF GetProduct, Goto, service, given, Shape
<1>2. \A i \in Jobs \ {j} : \A k : RightProduct(i, k)' <=> RightProduct(i, k)
  BY <1>1 DEF RightProduct, Found
<1>3. Looked'
  BY <1>1, Elements DEF Looked
<1>4. \A k \in DOMAIN products : products[k].by # j
  BY <1>1 DEF Made
<1>5. NoneThen'
  <2>1. pc'[j] = "createProduct" => Found(ProductOf[j]) = {}
    BY <1>1 DEF GetProduct, Goto, Shape
  <2>. QED
    BY <1>1, <2>1 DEF NoneThen, Found
<1>6. Chosen'
  <2>1. ASSUME pc'[j] = "engagement"
        PROVE  product'[j] \in DOMAIN products /\ RightProduct(j, product[j])'
    <3>1. PICK k \in Found(ProductOf[j]) :
             Found(ProductOf[j]) = {k} /\ product' = [product EXCEPT ![j] = k]
      BY <2>1, <1>1 DEF GetProduct, Goto, Shape
    <3>2. product'[j] = k
      BY <3>1 DEF Shape
    <3>3. k \in DOMAIN products /\ products[k].by # j /\ products[k].name \in Matches[ProductOf[j]]
      BY <1>4 DEF Found
    <3>4. \A m \in Found(ProductOf[j])' : m = k
      BY <1>1, <3>1 DEF Found
    <3>. QED
      BY <1>1, <3>2, <3>3, <3>4 DEF RightProduct
  <2>. QED
    BY <1>1, <1>2, <2>1 DEF Chosen
<1>7. Own' /\ Made' /\ MadeOnce' /\ Once' /\ Succeeded'
  BY <1>1 DEF Own, Made, MadeOnce, Once, Succeeded
<1>8. \A e \in DOMAIN engagements : engagements[e].by \in Jobs \ {j}
  BY <1>1, Elements DEF Engaged
<1>9. Engaged' /\ Imported'
  BY <1>1, <1>2, <1>8, Elements DEF Engaged, Imported
<1>10. DuplicatesFromOverlap'
  BY <1>1, <1>4 DEF DuplicatesFromOverlap
<1>. QED
  BY <1>3, <1>5, <1>6, <1>7, <1>9, <1>10

LEMMA CreateProductStep ==
    ASSUME IInv, Shape', NEW j \in Jobs, CreateProduct(j)
    PROVE  IInv'
<1> USE DEF IInv
<1> DEFINE new == [name |-> ProductOf[j], type |-> type[j], by |-> j]
<1>0. PICK n \in Nat : n = Len(products)
  BY Elements
<1>1. /\ pc[j] = "createProduct"
      /\ \A i \in Jobs \ {j} : pc'[i] = pc[i] /\ product'[i] = product[i]
      /\ pc'[j] \in {"engagement", "failed"}
      /\ product'[j] = n + 1
      /\ UNCHANGED <<engagements, imports, engagement, lookedAt>>
  BY <1>0, AnsweredMoves DEF CreateProduct, Moves, service, given, Shape
<1>2. /\ n \in Nat /\ DOMAIN products = 1 .. n
      /\ Len(products') = n + 1 /\ DOMAIN products' = 1 .. n + 1
      /\ \A k \in 1 .. n : products'[k] = products[k]
      /\ products'[n + 1] = new
  BY <1>0, Elements DEF CreateProduct, Shape
<1>3. new.name = ProductOf[j] /\ new.by = j
  OBVIOUS
<1> HIDE DEF new
<1>4. \A k \in DOMAIN products : products[k].by # j
  BY <1>1 DEF Made
<1>5. \A i \in Jobs : lookedAt[i] <= n /\ lookedAt[i] \in Nat
  BY <1>0 DEF Looked, Shape
<1>6. \A i \in Jobs, k \in 1 .. n : RightProduct(i, k) => RightProduct(i, k)'
  BY <1>1, <1>2, <1>5 DEF RightProduct, Found
<1>7. RightProduct(j, n + 1)'
  <2>1. \A m \in Found(ProductOf[j])' : m # n + 1 => m \in Found(ProductOf[j])
    BY <1>2 DEF Found
  <2>. QED
    BY <1>1, <1>2, <1>3, <2>1 DEF RightProduct, NoneThen
<1>8. Looked'
  BY <1>1, <1>2, <1>5 DEF Looked
<1>9. NoneThen'
  BY <1>1, <1>2, <1>5 DEF NoneThen, Found
<1>10. Chosen'
  BY <1>1, <1>2, <1>6, <1>7 DEF Chosen
<1>11. Own' /\ Once' /\ Succeeded' /\ Imported'
  BY <1>1, Elements DEF Own, Once, Succeeded, Imported
<1>12. Made' /\ MadeOnce'
  BY <1>1, <1>2, <1>3, <1>4 DEF Made, MadeOnce
<1>13. Engaged'
  BY <1>1, <1>2, <1>6, Elements DEF Engaged
<1>14. DuplicatesFromOverlap'
  BY <1>1, <1>2, <1>3, <1>4, JobsAssumption, MatchesAssumption
     DEF DuplicatesFromOverlap, NoneThen, Found
<1>. QED
  BY <1>8, <1>9, <1>10, <1>11, <1>12, <1>13, <1>14

LEMMA CreateEngagementStep ==
    ASSUME IInv, Shape', NEW j \in Jobs, CreateEngagement(j)
    PROVE  IInv'
<1> USE DEF IInv
<1> DEFINE new == [product |-> product[j], by |-> j]
           n == Len(engagements)
<1>1. /\ pc[j] = "engagement"
      /\ \A i \in Jobs \ {j} : pc'[i] = pc[i] /\ engagement'[i] = engagement[i]
      /\ pc'[j] \in {"import", "failed"}
      /\ engagement'[j] = n + 1
      /\ UNCHANGED <<products, imports, product, lookedAt>>
  BY AnsweredMoves DEF CreateEngagement, Moves, service, given, Shape
<1>2. /\ n \in Nat /\ DOMAIN engagements = 1 .. n
      /\ DOMAIN engagements' = 1 .. n + 1
      /\ \A k \in 1 .. n : engagements'[k] = engagements[k]
      /\ engagements'[n + 1] = new
  BY Elements DEF CreateEngagement, Shape
<1>3. new.product = product[j] /\ new.by = j
  OBVIOUS
<1> HIDE DEF n, new
<1>4. \A i \in Jobs : \A k : RightProduct(i, k)' <=> RightProduct(i, k)
  BY <1>1 DEF RightProduct, Found
<1>5. Looked' /\ NoneThen' /\ Made' /\ MadeOnce' /\ Once' /\ Succeeded' /\ DuplicatesFromOverlap'
  BY <1>1 DEF Looked, NoneThen, Made, MadeOnce, Once, Succeeded, DuplicatesFromOverlap, Found
<1>6. Chosen'
  BY <1>1, <1>4 DEF Chosen
<1>7. Own'
  BY <1>1, <1>2, <1>3 DEF Own
<1>8. Engaged'
  BY <1>1, <1>2, <1>3, <1>4, Elements DEF Engaged, Chosen
<1>9. Imported'
  BY <1>1, <1>2, Elements DEF Imported
<1>. QED
  BY <1>5, <1>6, <1>7, <1>8, <1>9

LEMMA ImportStep ==
    ASSUME IInv, Shape', NEW j \in Jobs, ImportScanResult(j)
    PROVE  IInv'
<1> USE DEF IInv
<1> DEFINE new == [engagement |-> engagement[j], by |-> j]
           n == Len(imports)
<1>1. /\ pc[j] = "import"
      /\ \A i \in Jobs \ {j} : pc'[i] = pc[i]
      /\ pc'[j] \in {"done", "failed"}
      /\ UNCHANGED <<products, engagements, product, engagement, lookedAt>>
  BY AnsweredMoves DEF ImportScanResult, Moves, service, given, Shape
<1>2. /\ n \in Nat /\ DOMAIN imports = 1 .. n
      /\ DOMAIN imports' = 1 .. n + 1
      /\ \A k \in 1 .. n : imports'[k] = imports[k]
      /\ imports'[n + 1] = new
  BY Elements DEF ImportScanResult, Shape
<1>3. new.engagement = engagement[j] /\ new.by = j
  OBVIOUS
<1> HIDE DEF n, new
<1>4. \A i \in Jobs : \A k : RightProduct(i, k)' <=> RightProduct(i, k)
  BY <1>1 DEF RightProduct, Found
<1>5. \A i \in DOMAIN imports : imports[i].by # j
  BY <1>1 DEF Imported
<1>6. Looked' /\ NoneThen' /\ Own' /\ Made' /\ MadeOnce' /\ DuplicatesFromOverlap'
  BY <1>1 DEF Looked, NoneThen, Own, Made, MadeOnce, DuplicatesFromOverlap, Found
<1>7. Chosen' /\ Engaged'
  BY <1>1, <1>4, Elements DEF Chosen, Engaged
<1>8. Imported'
  BY <1>1, <1>2, <1>3, Elements DEF Imported, Own
<1>9. Once' /\ Succeeded'
  BY <1>1, <1>2, <1>3, <1>5 DEF Once, Succeeded
<1>. QED
  BY <1>6, <1>7, <1>8, <1>9

-----------------------------------------------------------------------------
LEMMA Inductive == IInv /\ [Next]_vars => IInv'
<1> SUFFICES ASSUME IInv, [Next]_vars PROVE IInv'
  OBVIOUS
<1>0. Shape /\ Shape'
  BY ShapePreserved DEF IInv
<1>1. CASE UNCHANGED vars
  BY <1>0, <1>1 DEF vars, IInv, Looked, NoneThen, Chosen, Own, Made, MadeOnce, Engaged, Imported,
        Once, Succeeded, DuplicatesFromOverlap, RightProduct, Found
<1>2. ASSUME NEW j \in Jobs, Start(j) PROVE IInv'
  BY <1>0, <1>2, QuietSteps DEF Start, Goto, service, given, Shape
<1>3. ASSUME NEW j \in Jobs, IsAnySLAConfiguration(j) PROVE IInv'
  BY <1>0, <1>3, QuietSteps DEF IsAnySLAConfiguration, Goto, service, given, Shape
<1>4. ASSUME NEW j \in Jobs, CreateSLAConfiguration(j) PROVE IInv'
  BY <1>0, <1>4, QuietSteps, AnsweredMoves DEF CreateSLAConfiguration, Moves, given
<1>5. ASSUME NEW j \in Jobs, GetProductType(j) PROVE IInv'
  BY <1>0, <1>5, QuietSteps DEF GetProductType, Goto, service, Shape
<1>6. ASSUME NEW j \in Jobs, CreateProductType(j) PROVE IInv'
  BY <1>0, <1>6, QuietSteps, AnsweredMoves DEF CreateProductType, Moves
<1>7. ASSUME NEW j \in Jobs, RequestFails(j) PROVE IInv'
  BY <1>0, <1>7, QuietSteps DEF RequestFails, Goto, Running, Creating, Asking, service, given, Shape
<1>. QED
  BY <1>0, <1>1, <1>2, <1>3, <1>4, <1>5, <1>6, <1>7, LookupStep, CreateProductStep,
     CreateEngagementStep, ImportStep DEF Next

LEMMA Invariance == Spec => []IInv
BY InitEstablishes, Inductive, PTL DEF Spec

\* Whoever runs at the same time and whatever fails, a report is imported into
\* an engagement of its own job, at most once, and once for every success: for the
\* one product the name matched, or one of the name that the job created.
THEOREM ImportsRight == Spec => []ImportedWhereAsked
<1>1. IInv => ImportedWhereAsked
  BY Elements DEF IInv, Imported, Engaged, Once, Succeeded, ImportedWhereAsked
<1>. QED
  BY <1>1, Invariance, PTL

\* Two products of one name are always the work of two jobs of which the second
\* to create had looked before the first had created.
THEOREM DuplicatesOverlap == Spec => []DuplicatesFromOverlap
<1>1. IInv => DuplicatesFromOverlap
  BY DEF IInv
<1>. QED
  BY <1>1, Invariance, PTL

=============================================================================
