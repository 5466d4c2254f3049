-------------------------------- MODULE Seed --------------------------------
(***************************************************************************)
(* The seed of the database, run again at every deployment, beside the     *)
(* staff who administer the brands: prisma/seed and modules/catalog.       *)
(*                                                                         *)
(* The seed is a sequence of statements with no transaction around them:   *)
(* a row that has a natural key is upserted, one that has none is looked   *)
(* for and then created.  Each finds its parents by the ids the statements *)
(* before it returned.  A run that fails or dies is run again.             *)
(***************************************************************************)
EXTENDS Naturals, Sequences, FiniteSets, SequencesExt, RepairStatusSeed, RolePermissionSeed

CONSTANTS
    SeedDemo,     \* NODE_ENV !== "production" || SEED_DEMO_CATALOG === "true"
    EditedBrand,  \* bound: the slugs the staff works on
    MaxRuns,      \* bound: runs of the seed
    MaxEdits      \* bound: rows of brands created, given another slug or deleted by the staff

ASSUME SeedAssumption == SeedDemo \in BOOLEAN /\ MaxRuns \in Nat /\ MaxEdits \in Nat

-----------------------------------------------------------------------------
(* What is seeded, in order: entries <<table, name>>, <<table, parent, name>> *)
(* and, for the tables that only relate two rows, <<table, row, row>>.        *)

(* SetToSeq tries every sequence: too slow for these sets. *)
Listed(S) == FoldSet(LAMBDA x, list : Append(list, x), <<>>, S)

Each(table, names) == [i \in DOMAIN names |-> <<table, names[i]>>]
Under(table, parent, names) == [i \in DOMAIN names |-> <<table, parent, names[i]>>]

(* seedPermissionsAndRoles *)
AccessEntries ==
    Each("permission", Listed(SeedPermission)) \o
    FlattenSeq([i \in DOMAIN Listed(SeedRole) |->
        LET role == Listed(SeedRole)[i]
        IN  <<<<"role", role>>>> \o Under("grant", role, Listed(RolePermissions[role]))])

(* seedRepairStatuses *)
StatusEntries ==
    Each("status", Listed(SeedStatus)) \o
    [i \in DOMAIN Listed(SeedTransition) |->
        <<"transition", Listed(SeedTransition)[i][1], Listed(SeedTransition)[i][2]>>]

(* seedEssentialSettings *)
SettingEntries ==
    Each("setting", <<"tax.default_rate_basis_points", "repair.default_lead_time_days_min",
                      "repair.default_lead_time_days_max", "warranty.default_duration_days">>)

(* seedLocalSuperAdmin *)
AdminEntries == <<<<"user", "superadmin">>, <<"userRole", "superadmin", "SUPER_ADMIN">>>>

(* seedCatalogDemo: brands, families, models, variants and revisions *)
DeviceEntries ==
    Each("brand", <<"sony", "microsoft", "nintendo">>) \o
    <<<<"family", "sony", "playstation">>, <<"family", "microsoft", "xbox">>,
      <<"family", "nintendo", "switch">>>> \o
    Under("model", "playstation", <<"dualsense", "dualsense-edge">>) \o
    Under("model", "xbox", <<"xbox-series-controller">>) \o
    Under("model", "switch", <<"switch-pro-controller", "joy-con">>) \o
    Under("variant", "dualsense", <<"Blanc", "Midnight Black">>) \o
    Under("variant", "dualsense-edge", <<"Standard">>) \o
    Under("variant", "xbox-series-controller", <<"Standard", "Elite Series 2">>) \o
    Under("variant", "switch-pro-controller", <<"Standard">>) \o
    Under("variant", "joy-con", <<"Standard">>) \o
    Under("revision", "Blanc", <<"CFI-ZCT1", "CFI-ZCT1W">>)

(* seedCatalogDemo: services, options and rules *)
ServiceEntries ==
    <<<<"category", "reparation">>>> \o
    Under("service", "reparation",
          <<"correction-stick-drift", "remplacement-batterie", "nettoyage-complet",
            "boutons-arriere-edge", "personnalisation-coque", "reparation-express">>) \o
    Under("option", "personnalisation-coque",
          <<"coque-noir-mat", "coque-transparente", "gravure-personnalisee">>) \o
    <<<<"compatibility", "boutons-arriere-edge", "dualsense-edge">>,
      <<"requirement", "boutons-arriere-edge", "nettoyage-complet">>,
      <<"exclusion", "reparation-express", "personnalisation-coque">>,
      <<"recommendation", "correction-stick-drift", "nettoyage-complet">>,
      <<"pricing", "correction-stick-drift", "dualsense-edge">>,
      <<"leadTime", "correction-stick-drift">>,
      <<"leadTime", "correction-stick-drift", "dualsense-edge">>,
      <<"leadTime", "nettoyage-complet">>, <<"leadTime", "boutons-arriere-edge">>,
      <<"leadTime", "personnalisation-coque">>, <<"leadTime", "remplacement-batterie">>,
      <<"leadTime", "reparation-express">>>>

(* main *)
Program ==
    AccessEntries \o StatusEntries \o SettingEntries \o
    IF SeedDemo THEN AdminEntries \o DeviceEntries \o ServiceEntries ELSE <<>>

Entry == {Program[i] : i \in DOMAIN Program}

(* The tables the second component of an entry, and its third one, name a row of. *)
Owner ==
    [grant |-> "role", transition |-> "status", userRole |-> "user", family |-> "brand",
     model |-> "family", variant |-> "model", revision |-> "variant", service |-> "category",
     option |-> "service", compatibility |-> "service", requirement |-> "service",
     exclusion |-> "service", recommendation |-> "service", pricing |-> "service",
     leadTime |-> "service"]
Other ==
    [grant |-> "permission", transition |-> "status", userRole |-> "role",
     compatibility |-> "model", requirement |-> "service", exclusion |-> "service",
     recommendation |-> "service", pricing |-> "model", leadTime |-> "model"]

Refers(e, table, name) == e[1] = table /\ Last(e) = name

ParentsOf ==
    [e \in Entry |->
        {p \in Entry :
            \/ e[1] \in DOMAIN Owner /\ Refers(p, Owner[e[1]], e[2])
            \/ Len(e) = 3 /\ e[1] \in DOMAIN Other /\ Refers(p, Other[e[1]], e[3])}]

(* What the lists above come to: a sequence, in which each brand has a family. *)
ASSUME ProgramAssumption ==
    /\ Program \in Seq(Entry)
    /\ \A b \in Entry : b[1] = "brand" => \E e \in Entry : b \in ParentsOf[e]

Position == [e \in Entry |-> CHOOSE i \in DOMAIN Program : Program[i] = e]

(* Looked for and created by two statements; of these only models have a     *)
(* unique index.                                                             *)
FoundOrCreated == {"model", "variant", "compatibility", "pricing", "leadTime"}
Unindexed == FoundOrCreated \ {"model"}

Brand == {e \in Entry : e[1] = "brand" /\ e[2] \in EditedBrand}

-----------------------------------------------------------------------------
VARIABLES
    rows,      \* rows[e]: the rows seeded as e: their id, whether they still have the
               \* slug of e, the ids of their parents
    next,      \* the next statement of the running seed; 0 when none runs
    ids,       \* what its statements have returned
    absent,    \* its findFirst has found nothing
    seeded,    \* a run of the seed has ended well
    runs,      \* runs started
    deleting,  \* brands a member of the staff deletes, whose families were counted
    edits,     \* what the staff has done to the brands
    resluged   \* history: a brand has been given another slug

seedVars == <<rows, next, ids, absent, seeded, runs, deleting, edits, resluged>>

SeedInit ==
    /\ rows = [e \in Entry |-> {}]
    /\ next = 0
    /\ ids = <<>>
    /\ absent = FALSE
    /\ seeded = FALSE
    /\ runs = 0
    /\ deleting = {}
    /\ edits = 0
    /\ resluged = FALSE

(* uuid(): an id that no row, no statement of the seed and no request knows. *)
FreshId(e) ==
    LET known == {r.id : r \in rows[e]}
                 \cup (IF Position[e] \in DOMAIN ids THEN {ids[Position[e]]} ELSE {})
                 \cup {d[2] : d \in {c \in deleting : c[1] = e}}
    IN  CHOOSE i \in 1 .. Cardinality(known) + 1 : i \notin known

NewRow(e, parents) == [id |-> FreshId(e), sameSlug |-> TRUE, under |-> parents]

-----------------------------------------------------------------------------
(* The seed *)

Current == Program[next]

(* The ids the current statement gives for its parents. *)
Given == [p \in ParentsOf[Current] |-> ids[Position[p]]]

Matching == {r \in rows[Current] : r.sameSlug /\ r.under = Given}

Return(id) ==
    /\ ids' = Append(ids, id)
    /\ next' = next + 1
    /\ absent' = FALSE

(* The foreign keys of the row want its parents. *)
Insert ==
    /\ \A p \in ParentsOf[Current] : \E r \in rows[p] : r.id = Given[p]
    /\ rows' = [rows EXCEPT ![Current] = @ \cup {NewRow(Current, Given)}]
    /\ Return(FreshId(Current))

Running == next \in DOMAIN Program

StartSeed ==
    /\ next = 0
    /\ runs < MaxRuns
    /\ runs' = runs + 1
    /\ next' = 1
    /\ UNCHANGED <<rows, ids, absent, seeded, deleting, edits, resluged>>

(* upsert: the row of that key is returned, its "update" columns aside as it *)
(* is, or inserted.                                                          *)
Upsert ==
    /\ Running
    /\ Current[1] \notin FoundOrCreated
    /\ \/ \E r \in Matching : Return(r.id) /\ UNCHANGED rows
       \/ Matching = {} /\ Insert
    /\ UNCHANGED <<seeded, runs, deleting, edits, resluged>>

(* Mutant: only a model that exists is found. *)
FindModel ==
    /\ Running
    /\ Current[1] \in FoundOrCreated
    /\ ~absent
    /\ \/ \E r \in Matching : Current[1] = "model" /\ Return(r.id)
       \/ (Current[1] = "model" => Matching = {}) /\ absent' = TRUE /\ UNCHANGED <<next, ids>>
    /\ UNCHANGED <<rows, seeded, runs, deleting, edits, resluged>>

(* findFirst *)
Find ==
    /\ Running
    /\ Current[1] \in FoundOrCreated
    /\ ~absent
    /\ \/ \E r \in Matching : Return(r.id)
       \/ Matching = {} /\ absent' = TRUE /\ UNCHANGED <<next, ids>>
    /\ UNCHANGED <<rows, seeded, runs, deleting, edits, resluged>>

(* create *)
Create ==
    /\ Running
    /\ absent
    /\ Current[1] \in Unindexed \/ Matching = {}
    /\ Insert
    /\ UNCHANGED <<seeded, runs, deleting, edits, resluged>>

Finish ==
    /\ next = Len(Program) + 1
    /\ next' = 0
    /\ ids' = <<>>
    /\ seeded' = TRUE
    /\ UNCHANGED <<rows, absent, runs, deleting, edits, resluged>>

(* A statement throws (its parent has been deleted, the database is away) or *)
(* the container stops: the deployment ends with an error, what was written  *)
(* stays.                                                                    *)
SeedFails ==
    /\ Running
    /\ next' = 0
    /\ ids' = <<>>
    /\ absent' = FALSE
    /\ UNCHANGED <<rows, seeded, runs, deleting, edits, resluged>>

-----------------------------------------------------------------------------
(* The staff: CatalogAdminController behind its guards *)

Granted(permission) == <<"grant", "SUPER_ADMIN", permission>>

(* The only account with a role the code creates is the seeded one. *)
MayAdminister(permission) ==
    /\ SeedDemo
    /\ rows[<<"userRole", "superadmin", "SUPER_ADMIN">>] # {}
    /\ rows[Granted(permission)] # {}
    /\ edits < MaxEdits
    /\ edits' = edits + 1

SlugTaken(b) == \E r \in rows[b] : r.sameSlug

CreateBrand(b) ==
    /\ MayAdminister("catalog.create")
    /\ ~SlugTaken(b)
    /\ rows' = [rows EXCEPT ![b] = @ \cup {NewRow(b, <<>>)}]
    /\ UNCHANGED <<next, ids, absent, seeded, runs, deleting, resluged>>

(* The brand gets a slug no row has, or its former one again. *)
UpdateBrand(b, r) ==
    /\ MayAdminister("catalog.update")
    /\ r.sameSlug \/ ~SlugTaken(b)
    /\ rows' = [rows EXCEPT ![b] = (@ \ {r}) \cup {[r EXCEPT !.sameSlug = ~@]}]
    /\ resluged' = TRUE
    /\ UNCHANGED <<next, ids, absent, seeded, runs, deleting>>

Families(b, id) ==
    {e \in Entry : b \in ParentsOf[e] /\ \E r \in rows[e] : r.under[b] = id}

(* deleteBrand: countFamilies *)
CountFamilies(b, r) ==
    /\ MayAdminister("catalog.delete")
    /\ Families(b, r.id) = {}
    /\ deleting' = deleting \cup {<<b, r.id>>}
    /\ UNCHANGED <<rows, next, ids, absent, seeded, runs, resluged>>

(* Mutant: no foreign key holds the brand. *)
DeleteCountedBrand(b, id) ==
    /\ deleting' = deleting \ {<<b, id>>}
    /\ rows' = [rows EXCEPT ![b] = {r \in @ : r.id # id}]
    /\ UNCHANGED <<next, ids, absent, seeded, runs, edits, resluged>>

(* deleteBrand: the delete, which the foreign key of a family that has been  *)
(* inserted meanwhile refuses.                                               *)
DeleteBrand(b, id) ==
    /\ deleting' = deleting \ {<<b, id>>}
    /\ rows' = IF Families(b, id) = {} THEN [rows EXCEPT ![b] = {r \in @ : r.id # id}] ELSE rows
    /\ UNCHANGED <<next, ids, absent, seeded, runs, edits, resluged>>

-----------------------------------------------------------------------------
SeedNext ==
    \/ StartSeed
    \/ Upsert
    \/ Find
    \/ Create
    \/ Finish
    \/ SeedFails
    \/ \E b \in Brand :
          \/ CreateBrand(b)
          \/ \E r \in rows[b] : UpdateBrand(b, r) \/ CountFamilies(b, r)
    \/ \E d \in deleting : DeleteBrand(d[1], d[2])

SeedSpec == SeedInit /\ [][SeedNext]_seedVars

-----------------------------------------------------------------------------
(* Properties *)

(* However often the seed is run, wherever its runs fail, and whatever the   *)
(* staff does to the brands but give them another slug, an entry has one row *)
(* at most (header of prisma/seed/catalog-demo.ts).                          *)
NoDoubles == ~resluged => \A e \in Entry : Cardinality(rows[e]) <= 1

(* Once a run has ended well every entry has a row under rows of its parents *)
(* and nothing the staff may do takes it away again.                         *)
DoneIsWhole ==
    seeded =>
        \A e \in Entry : \E r \in rows[e] :
            \A p \in ParentsOf[e] : \E s \in rows[p] : s.id = r.under[p]

(* The transitions the staff can use at the moment. *)
Matrix == {t \in SeedTransition : rows[<<"transition", t[1], t[2]>>] # {}}

(* The statuses that at most n changes lead to without quality tests. *)
Untested[n \in 0 .. Cardinality(SeedStatus)] ==
    IF n = 0 THEN {"ORDER_CREATED", "WARRANTY_RETURN"}
    ELSE LET before == Untested[n - 1] \ {"QUALITY_CHECK"}
         IN  before \cup {t[2] : t \in {u \in Matrix : u[1] \in before}}

(* With the matrix as far as it is seeded, however many changes of status    *)
(* are made, a device is shipped only after the quality tests, and after a   *)
(* warranty return after new ones (prisma/seed/repair-statuses.ts).          *)
TestedBeforeReturn == "SHIPPED" \notin Untested[Cardinality(SeedStatus)]
=============================================================================
