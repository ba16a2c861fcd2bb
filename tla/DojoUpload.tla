----------------------------- MODULE DojoUpload -----------------------------
(***************************************************************************)
(* scanio upload (cmd/upload, internal/dojo): jobs that import their       *)
(* reports into one DefectDojo at the same time.  A job looks up what it   *)
(* needs, creates what is not there, and imports into an engagement of its *)
(* own; every step is one request, nothing is locked between two, and      *)
(* every request may fail or its answer be lost.  The service is external. *)
(* It answers a look-up by name with every product whose name the filter   *)
(* matches, which is more than the name (a name that has it as a part, in  *)
(* any case), and the client takes an answer of one without comparing      *)
(* names.  It creates what it is asked for, of a name it already holds     *)
(* too: the client is prepared for that.                                   *)
(***************************************************************************)
EXTENDS Integers, Sequences

CONSTANTS Jobs,        \* the runs of the command
          Names,       \* of products
          Matches,     \* which names a look-up of each is answered with
          ProductOf,   \* the --product of each
          Others,      \* who else has created products
          Holdings,    \* what the service may hold at first
          MaxFaults    \* how many requests go wrong

ASSUME JobsAssumption ==
    /\ ProductOf \in [Jobs -> Names]
    /\ Others \cap Jobs = {}
    /\ MaxFaults \in Nat

\* A filter by a name matches the name itself.
ASSUME MatchesAssumption ==
    /\ Matches \in [Names -> SUBSET Names]
    /\ \A name \in Names : name \in Matches[name]

ASSUME HoldingsAssumption ==
    \A held \in Holdings :
       /\ held.slas \in Nat /\ held.types \in Nat
       /\ held.products \in Seq([name : Names, type : Nat, by : Others])

VARIABLES
    slas, types,             \* how many configurations, and product types our name matches
    products, engagements, imports,  \* what was created, in that order
    pc,                      \* where each job is
    type, product, engagement,       \* the ids a job has been given
    lookedAt,                \* history: how many products there were when it looked
    faults

service == <<slas, types, products, engagements, imports>>
given == <<type, product, engagement>>
vars == <<slas, types, products, engagements, imports, pc, type, product,
          engagement, lookedAt, faults>>

Creating == {"createSla", "createType", "createProduct", "engagement", "import"}
Asking == {"sla", "type", "product"}
Running == Creating \cup Asking

\* What the service answers to a look-up of a name.
Found(name) == { k \in DOMAIN products : products[k].name \in Matches[name] }

-----------------------------------------------------------------------------
Goto(j, next) == pc' = [pc EXCEPT ![j] = next]

Start(j) ==
    /\ pc[j] = "idle"
    /\ Goto(j, "sla")
    /\ UNCHANGED <<service, given, lookedAt, faults>>

\* Any configuration will do, of whatever name.
IsAnySLAConfiguration(j) ==
    /\ pc[j] = "sla"
    /\ Goto(j, IF slas > 0 THEN "type" ELSE "createSla")
    /\ UNCHANGED <<service, given, lookedAt, faults>>

\* A lookup by name: several are an error, none is a reason to create one.
GetProductType(j) ==
    /\ pc[j] = "type"
    /\ IF types = 1 THEN type' = [type EXCEPT ![j] = 1] ELSE UNCHANGED type
    /\ Goto(j, CASE types = 0 -> "createType" [] types = 1 -> "product" [] OTHER -> "failed")
    /\ UNCHANGED <<service, product, engagement, lookedAt, faults>>

\* Plausible bug: the first result is taken without a look at their number.
GetProductFirst(j) ==
    /\ pc[j] = "product"
    /\ lookedAt' = [lookedAt EXCEPT ![j] = Len(products)]
    /\ LET found == Found(ProductOf[j])
           first == CHOOSE k \in found : \A m \in found : k <= m
       IN /\ product' = IF found # {} THEN [product EXCEPT ![j] = first] ELSE product
          /\ Goto(j, IF found # {} THEN "engagement" ELSE "createProduct")
    /\ UNCHANGED <<service, type, engagement, faults>>

\* Plausible bug: one result too is none.
GetProductBeyondOne(j) ==
    /\ pc[j] = "product"
    /\ lookedAt' = [lookedAt EXCEPT ![j] = Len(products)]
    /\ Goto(j, IF \E k, m \in Found(ProductOf[j]) : k # m THEN "failed" ELSE "createProduct")
    /\ UNCHANGED <<service, given, faults>>

\* The names of what is found are not compared with the one that was asked for.
GetProduct(j) ==
    LET found == Found(ProductOf[j])
    IN /\ pc[j] = "product"
       /\ lookedAt' = [lookedAt EXCEPT ![j] = Len(products)]
       /\ \/ found = {} /\ Goto(j, "createProduct") /\ UNCHANGED product
          \/ \E k \in found :
                /\ found = {k}
                /\ product' = [product EXCEPT ![j] = k]
                /\ Goto(j, "engagement")
          \/ /\ \E k, m \in found : k # m
             /\ Goto(j, "failed") /\ UNCHANGED product
       /\ UNCHANGED <<service, type, engagement, faults>>

-----------------------------------------------------------------------------
\* The answer arrives and the job goes on, or it does not and the job gives up.
Answered(j, next) ==
    \/ Goto(j, next) /\ UNCHANGED faults
    \/ /\ faults < MaxFaults
       /\ faults' = faults + 1
       /\ Goto(j, "failed")

CreateSLAConfiguration(j) ==
    /\ pc[j] = "createSla"
    /\ slas' = slas + 1
    /\ Answered(j, "type")
    /\ UNCHANGED <<types, products, engagements, imports, given, lookedAt>>

CreateProductType(j) ==
    /\ pc[j] = "createType"
    /\ types' = types + 1
    /\ type' = [type EXCEPT ![j] = types']
    /\ Answered(j, "product")
    /\ UNCHANGED <<slas, products, engagements, imports, product, engagement, lookedAt>>

CreateProduct(j) ==
    /\ pc[j] = "createProduct"
    /\ products' = Append(products, [name |-> ProductOf[j], type |-> type[j], by |-> j])
    /\ product' = [product EXCEPT ![j] = Len(products')]
    /\ Answered(j, "engagement")
    /\ UNCHANGED <<slas, types, engagements, imports, type, engagement, lookedAt>>

CreateEngagement(j) ==
    /\ pc[j] = "engagement"
    /\ engagements' = Append(engagements, [product |-> product[j], by |-> j])
    /\ engagement' = [engagement EXCEPT ![j] = Len(engagements')]
    /\ Answered(j, "import")
    /\ UNCHANGED <<slas, types, products, imports, type, product, lookedAt>>

ImportScanResult(j) ==
    /\ pc[j] = "import"
    /\ imports' = Append(imports, [engagement |-> engagement[j], by |-> j])
    /\ Answered(j, "done")
    /\ UNCHANGED <<slas, types, products, engagements, given, lookedAt>>

\* A request without effect, the report unreadable, the job killed.
RequestFails(j) ==
    /\ pc[j] \in Running
    /\ faults < MaxFaults
    /\ faults' = faults + 1
    /\ Goto(j, "failed")
    /\ UNCHANGED <<service, given, lookedAt>>

-----------------------------------------------------------------------------
Init ==
    /\ \E held \in Holdings :
          /\ slas = held.slas /\ types = held.types
          /\ products = held.products
    /\ engagements = << >> /\ imports = << >>
    /\ pc = [j \in Jobs |-> "idle"]
    /\ type = [j \in Jobs |-> 0]
    /\ product = [j \in Jobs |-> 0]
    /\ engagement = [j \in Jobs |-> 0]
    /\ lookedAt = [j \in Jobs |-> 0]
    /\ faults = 0

Next ==
    \E j \in Jobs :
       \/ Start(j) \/ IsAnySLAConfiguration(j) \/ CreateSLAConfiguration(j)
       \/ GetProductType(j) \/ CreateProductType(j)
       \/ GetProduct(j) \/ CreateProduct(j)
       \/ CreateEngagement(j) \/ ImportScanResult(j) \/ RequestFails(j)

Spec == Init /\ [][Next]_vars

-----------------------------------------------------------------------------
(***************************************************************************)
(* Correctness.                                                            *)
(***************************************************************************)

\* The product of a job: one it created, of the name it was given, when none that
\* the name matches was there; or the only one that the name matched.  So none of
\* the very name is passed over, and one of another name is taken only where the
\* service held none of the name and no other that it matches.
RightProduct(j, k) ==
    /\ IF products[k].by = j THEN products[k].name = ProductOf[j]
                             ELSE products[k].name \in Matches[ProductOf[j]]
    /\ \A m \in Found(ProductOf[j]) : m # k => m > lookedAt[j]

\* Whatever other jobs create meanwhile and whichever request fails, a report
\* lands in an engagement its own job created, at most once, and exactly once when
\* upload reports success; the engagement is for the one product that the service
\* knew for the name when the job looked, or, when it knew none, for one of that
\* name which the job created.
ImportedWhereAsked ==
    /\ \A i \in DOMAIN imports :
          LET e == engagements[imports[i].engagement]
          IN /\ e.by = imports[i].by
             /\ RightProduct(e.by, e.product)
    /\ \A i, k \in DOMAIN imports : imports[i].by = imports[k].by => i = k
    /\ \A j \in Jobs : pc[j] = "done" => \E i \in DOMAIN imports : imports[i].by = j

\* The lookups and creations of one job make no two products of a name, nor do
\* those of jobs that run one after the other, failed or not: of two products of
\* a name the creator of the later looked before the earlier was there.
DuplicatesFromOverlap ==
    \A k, m \in DOMAIN products :
       (k < m /\ products[k].name = products[m].name /\ products[m].by \in Jobs) =>
          /\ products[k].by # products[m].by
          /\ lookedAt[products[m].by] < k

=============================================================================
