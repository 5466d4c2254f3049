----------------------------- MODULE Configurator -----------------------------
(***************************************************************************)
(* The rule engine of the configurator, ConfiguratorService.validate: which *)
(* issues, price and delay it may answer for a selection.  It stores        *)
(* nothing.  db is what its reads return: rows of the catalogue, rules, the *)
(* tax setting and the day, each by a statement of its own, in no           *)
(* transaction, so that an edit may fall between any two of them.  A        *)
(* selection has a model, a variant, a revision or None, and sequences of   *)
(* services and options.                                                    *)
(*                                                                         *)
(* The reads of rules have no ORDER BY and the engine takes the first row   *)
(* that fits, so that what it may answer is a set.                          *)
(***************************************************************************)
EXTENDS Integers, Sequences, FiniteSets, SequencesExt, FiniteSetsExt

CONSTANT None    \* NULL: no revision, no restriction, no bound

DefaultTaxRate == 2000
DefaultLeadTime == [min |-> 5, max |-> 10]

-----------------------------------------------------------------------------
(* The reads in the order of the code, the i-th of version at[i] of C.  The  *)
(* options are read twice: those chosen, and those required.                *)
Reads == 15
Read(C, at) ==
    [models          |-> C[at[1]].models,        variants     |-> C[at[2]].variants,
     revisions       |-> C[at[3]].revisions,     services     |-> C[at[4]].services,
     options         |-> C[at[5]].options,       required     |-> C[at[6]].options,
     compatibility   |-> C[at[7]].compatibility, exclusions   |-> C[at[8]].exclusions,
     requirements    |-> C[at[9]].requirements,
     recommendations |-> C[at[10]].recommendations,
     prices          |-> C[at[11]].prices,       overrides    |-> C[at[12]].overrides,
     day             |-> C[at[13]].day,          taxRate      |-> C[at[14]].taxRate,
     leadTimes       |-> C[at[15]].leadTimes]

(* What validate may read from version "from" to version "to": version v     *)
(* comes after done[v] of the reads.                                        *)
Views(C, from, to) ==
    {Read(C, [i \in 1..Reads |-> from + Cardinality({v \in (from + 1)..to : done[v] < i})]) :
        done \in [(from + 1)..to -> 0..Reads]}

-----------------------------------------------------------------------------
(* What the catalogue answers about the device.                             *)
ModelActive(db, m) == m \in DOMAIN db.models /\ db.models[m] = "ACTIVE"

VariantActive(db, m, v) ==
    /\ v \in DOMAIN db.variants
    /\ db.variants[v].model = m
    /\ db.variants[v].status = "ACTIVE"

RevisionValid(db, v, r) == r \in DOMAIN db.revisions /\ db.revisions[r] = v

(* Rows of services or of options that can be sold.                         *)
Sold(rows, id) == id \in DOMAIN rows /\ rows[id].status = "ACTIVE"

RequiredOptions(db, S) ==
    {o \in DOMAIN db.required : /\ db.required[o].service \in S
                                /\ db.required[o].required
                                /\ db.required[o].status = "ACTIVE"}

-----------------------------------------------------------------------------
(* The issues, all of them blocking, as pairs of a type and a subject.      *)
Incompatible(ids) == {"INCOMPATIBLE"} \X ids

DeviceIssues(db, in) == Incompatible(
    {m \in {in.model} : ~ModelActive(db, m)}
    \cup {v \in {in.variant} : ~VariantActive(db, in.model, v)}
    \cup {r \in {in.revision} \ {None} : ~RevisionValid(db, in.variant, r)})

ServiceIssues(db, in) == Incompatible(
    {s \in ToSet(in.services) : ~Sold(db.services, s)}
    \cup {d \in {"duplicate"} : ~IsInjective(in.services)})

OptionIssues(db, in) ==
    LET chosen == ToSet(in.options)
        services == ToSet(in.services)
    IN  Incompatible({o \in chosen : \/ ~Sold(db.options, o)
                                     \/ db.options[o].service \notin services})
        \cup {"MISSING_REQUIRED_OPTION"} \X (RequiredOptions(db, services) \ chosen)

(* A rule restricts what it names: compatibility rules are a white list.     *)
InScope(rule, in) == /\ rule.model \in {None, in.model}
                     /\ rule.variant \in {None, in.variant}
                     /\ rule.revision \in {None, in.revision}

CompatibilityIssues(db, in) == Incompatible(
    {s \in ToSet(in.services) : LET rules == {r \in db.compatibility : r.service = s}
                                IN  rules # {} /\ \A r \in rules : ~InScope(r, in)})

CombinationIssues(db, in) ==
    LET S == ToSet(in.services)
    IN  Incompatible({e.a : e \in {x \in db.exclusions : {x.a, x.b} \subseteq S}})
        \cup {"REQUIRES"} \X {r.service : r \in {x \in db.requirements :
                                x.service \in S /\ x.needs \notin S}}

Recommendations(db, in) ==
    LET S == ToSet(in.services)
    IN  {r \in db.recommendations : r.service \in S /\ r.other \notin S}

Issues(db, in) == UNION {DeviceIssues(db, in), ServiceIssues(db, in), OptionIssues(db, in),
                         CompatibilityIssues(db, in), CombinationIssues(db, in)}

-----------------------------------------------------------------------------
(* Prices, in cents.                                                        *)
InForce(db, rule) == /\ rule.from = None \/ rule.from <= db.day
                     /\ rule.until = None \/ rule.until >= db.day

(* The rows that the three calls of find may return, a level at a time.     *)
MostSpecific(rules, in) ==
    LET ofVariant == {r \in rules : r.variant = in.variant}
        ofModel == {r \in rules : r.model = in.model}
        general == {r \in rules : {r.variant, r.model, r.family} = {None}}
    IN  IF ofVariant # {} THEN ofVariant ELSE IF ofModel # {} THEN ofModel ELSE general

Overrides(db, s, company) ==
    {o \in db.overrides : company # None /\ o.company = company /\ o.service = s /\ InForce(db, o)}

PriceRules(db, s, company) ==
    {r \in db.prices : /\ r.service = s /\ InForce(db, r)
                       /\ r.client = IF company = None THEN "STANDARD" ELSE "PROFESSIONAL"}

UnitPrices(db, s, in, company) ==
    LET negotiated == Overrides(db, s, company)
        rules == IF negotiated # {} THEN negotiated
                 ELSE MostSpecific(PriceRules(db, s, company), in)
    IN  IF rules = {} THEN {db.services[s].base} ELSE {r.amount : r \in rules}

Subtotals(db, in, company) ==
    LET S == ToSet(in.services)
        priced == {p \in [S -> UNION {UnitPrices(db, s, in, company) : s \in S}] :
                    \A s \in S : p[s] \in UnitPrices(db, s, in, company)}
        extras == MapThenSumSet(LAMBDA o : db.options[o].extra, ToSet(in.options))
    IN  {extras + MapThenSumSet(LAMBDA s : p[s], S) : p \in priced}

(* SettingsService.getNumber with a fallback.                               *)
TaxRate(db) == IF db.taxRate = None THEN DefaultTaxRate ELSE db.taxRate

(* Math.round of subtotal * rate / 10000: halves go up.                     *)
Tax(db, subtotal) == (2 * subtotal * TaxRate(db) + 10000) \div 20000

LeadTime(db, in) ==
    LET rules == {r \in db.leadTimes : /\ r.service \in ToSet(in.services)
                                       /\ r.model \in {None, in.model}}
    IN  [min |-> Max({DefaultLeadTime.min} \cup {r.min : r \in rules}),
         max |-> Max({DefaultLeadTime.max} \cup {r.max : r \in rules})]

(* All that validate may answer.                                            *)
Answers(db, in, company) ==
    LET issues == Issues(db, in)
        priced == IF issues = {} THEN {<<x, Tax(db, x)>> : x \in Subtotals(db, in, company)}
                                 ELSE {<<0, 0>>}
    IN  {[valid |-> issues = {}, issues |-> issues, subtotal |-> p[1], tax |-> p[2],
          total |-> p[1] + p[2], recommendations |-> Recommendations(db, in),
          leadTime |-> LeadTime(db, in)] : p \in priced}
=============================================================================
