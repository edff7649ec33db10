------------------------------- MODULE Scenario -------------------------------
(***************************************************************************)
(* The scenario parser (src/src/scenario.cpp).  A document is read line by *)
(* line; each directive is checked against what was read before it, its    *)
(* attributes against their keys and widths, and what it declares is       *)
(* collected in a local Scenario that leaves the parser only when the      *)
(* whole document is accepted.                                             *)
(*                                                                         *)
(* A line is [directive, args, attrs, label]: the positional tokens, the   *)
(* key=value tokens and whether it ends in a label.  A value is written as *)
(* the sequence of the numbers between its colons, empty if it is no       *)
(* number at all.  Directive "blank" is a line without tokens, "label" one *)
(* with nothing but a label.                                               *)
(***************************************************************************)
EXTENDS GroupForest, Sequences

CONSTANTS Lines,       \* the lines documents are made of
          MaxLines,    \* bound on the lines of a document
          U64Max,      \* largest value of a 64-bit field
          U32Max       \* largest value of a 32-bit field

\* Digests are not modelled, so no line declares one.
ASSUME ScenarioAssumption ==
  /\ U32Max \in Nat /\ U64Max \in Nat /\ 1 <= U32Max /\ U32Max <= U64Max
  /\ \A l \in Lines : \A i \in DOMAIN l.attrs : l.attrs[i].key # "declared_digest"

VARIABLES read,          \* the lines read so far
          phase,         \* "reading", "parsed" or where it failed
          scenario,      \* the local Scenario
          saw_version, saw_body, in_policy, in_evidence,
          current        \* current_evidence: its index, 0 for nullptr

flags == <<saw_version, saw_body, in_policy, in_evidence, current>>
vars == <<read, phase, scenario, flags>>

\* The attributes of each directive and the parser of their values.
Kinds ==
  [policy |-> [window_units |-> "u64", fair_band |-> "u64", correction_threshold |-> "u64",
               cooldown |-> "u32", max_correction |-> "u64", max_correction_bps |-> "u32",
               max_modifier_bps |-> "u32", max_age_windows |-> "u32", max_age_ns |-> "u64",
               max_carry |-> "u64", enforce_floors |-> "flag", source |-> "text",
               revision |-> "u64", digest |-> "u64"],
   group |-> [parent |-> "u64", weight |-> "u32", floor |-> "u64", rank |-> "u32",
              protected |-> "flag"],
   subject |-> [group |-> "u64", tenant |-> "u64", weight |-> "u32", floor |-> "u64",
                starvation |-> "u32", guarantee_starvation |-> "u32", rank |-> "u32",
                protected |-> "flag", reduce_cap |-> "u64", augment_cap |-> "u64",
                modifier_bps |-> "i32", priority_rank |-> "u32", priority |-> "pair",
                qos |-> "pair"],
   evidence |-> [window |-> "u64", window_gen |-> "u64", epoch |-> "u64", captured_ns |-> "i64",
                 sequence |-> "u64", producer |-> "text", instance |-> "u64", version |-> "u64",
                 declared_digest |-> "u64"],
   obs |-> [served |-> "u64", unserved |-> "u32", below |-> "u32", priority |-> "pair",
            qos |-> "pair"],
   request |-> [policy |-> "pair", evidence |-> "pair", window |-> "pair", epoch |-> "u64",
                now_ns |-> "i64", request_id |-> "u64", attempt |-> "u32",
                missing_unknown |-> "flag"]]

\* Signed fields reach from -(half) - 1 to half of the unsigned range.
Signed(max, n) == -(max \div 2) - 1 <= n /\ n <= max \div 2

\* parse_u64, parse_i64, parse_u32, parse_i32, parse_id_pair and the flags.
Parses(kind, v) ==
  CASE kind = "u64"  -> Len(v) = 1 /\ v[1] \in 0..U64Max
    [] kind = "u32"  -> Len(v) = 1 /\ v[1] \in 0..U32Max
    [] kind = "flag" -> Len(v) = 1 /\ v[1] \in 0..1
    [] kind = "i64"  -> Len(v) = 1 /\ Signed(U64Max, v[1])
    [] kind = "i32"  -> Len(v) = 1 /\ Signed(U32Max, v[1])
    [] kind = "pair" -> Len(v) = 2 /\ v[1] \in 0..U64Max /\ v[2] \in 0..U64Max
    [] kind = "text" -> TRUE

KeysOf(attrs) == {attrs[i].key : i \in DOMAIN attrs}

\* Every key is known and its value fits; only policy lets a key come twice.
AttributesFit(l) ==
  /\ \A i \in DOMAIN l.attrs :
       /\ l.attrs[i].key \in DOMAIN Kinds[l.directive]
       /\ Parses(Kinds[l.directive][l.attrs[i].key], l.attrs[i].value)
  /\ l.directive = "policy" \/ Cardinality(KeysOf(l.attrs)) = Len(l.attrs)

\* An identity and a generation, then attributes.
Identified(l) ==
  Len(l.args) = 2 /\ Parses("u64", l.args[1]) /\ Parses("u64", l.args[2]) /\ AttributesFit(l)

Single(l) == Len(l.args) = 1 /\ l.attrs = <<>> /\ Parses("u64", l.args[1])

\* Nothing assigned yet: every field has its default.
NoFields == [k \in {} |-> 0]

\* The key=value tokens are assigned from left to right.
LastValue(attrs, k) ==
  attrs[CHOOSE i \in DOMAIN attrs :
          attrs[i].key = k /\ \A j \in DOMAIN attrs : attrs[j].key = k => j <= i].value

Assigned(fields, attrs) ==
  [k \in DOMAIN fields \cup KeysOf(attrs) |->
     IF k \in KeysOf(attrs) THEN LastValue(attrs, k) ELSE fields[k]]

\* An observation, a group or subject with its label, and a snapshot that has no
\* observation yet.
Entity(l) ==
  [id |-> l.args[1][1], generation |-> l.args[2][1], fields |-> Assigned(NoFields, l.attrs)]
Labelled(l) ==
  [id |-> l.args[1][1], generation |-> l.args[2][1], fields |-> Assigned(NoFields, l.attrs),
   label |-> l.label]
Snapshot(l) ==
  [id |-> l.args[1][1], generation |-> l.args[2][1], fields |-> Assigned(NoFields, l.attrs),
   observations |-> <<>>]

EmptyScenario ==
  [has_policy |-> FALSE,
   policy |-> [id |-> 0, generation |-> 0, epoch |-> 0, fields |-> NoFields, groups |-> <<>>,
               subjects |-> <<>>],
   epoch |-> 0, evidence |-> <<>>, has_request |-> FALSE, request |-> NoFields]

Init ==
  /\ read = <<>> /\ phase = "reading" /\ scenario = EmptyScenario
  /\ saw_version = FALSE /\ saw_body = FALSE
  /\ in_policy = FALSE /\ in_evidence = FALSE /\ current = 0

-------------------------------------------------------------------------------
(* One action per directive.                                               *)

\* The conditions under which a directive is not an error.
Acceptable(l) ==
  IF l.directive = "version" THEN ~saw_version /\ Single(l) /\ l.args[1] = <<1>>
  ELSE /\ saw_version
       /\ \/ l.directive = "epoch" /\ Single(l)
          \/ l.directive = "policy" /\ Identified(l)
          \/ l.directive \in {"group", "subject"} /\ in_policy /\ Identified(l)
          \/ l.directive = "evidence" /\ Identified(l)
          \/ l.directive = "obs" /\ in_evidence /\ current # 0 /\ Identified(l)
          \/ l.directive = "request" /\ l.args = <<>> /\ AttributesFit(l)

\* next_line hands out the next line that has a token or a label.
Takes(l, directive) ==
  /\ phase = "reading" /\ Len(read) < MaxLines
  /\ l.directive = directive
  /\ Acceptable(l)
  /\ read' = Append(read, l)
  /\ UNCHANGED phase

Blank(l) ==
  /\ phase = "reading" /\ Len(read) < MaxLines
  /\ l.directive = "blank"
  /\ read' = Append(read, l)
  /\ UNCHANGED <<phase, scenario, flags>>

\* set_error: the first error ends the parse.
Reject(l) ==
  /\ phase = "reading" /\ Len(read) < MaxLines
  /\ l.directive # "blank" /\ ~Acceptable(l)
  /\ read' = Append(read, l)
  /\ phase' = "bad line"
  /\ UNCHANGED <<scenario, flags>>

Version(l) ==
  /\ Takes(l, "version")
  /\ saw_version' = TRUE
  /\ UNCHANGED <<scenario, saw_body, in_policy, in_evidence, current>>

Epoch(l) ==
  /\ Takes(l, "epoch")
  /\ scenario' = [scenario EXCEPT !.epoch = l.args[1][1]]
  /\ saw_body' = TRUE
  /\ UNCHANGED <<saw_version, in_policy, in_evidence, current>>

\* A later policy directive renames the policy and keeps what was declared.
PolicyLine(l) ==
  /\ Takes(l, "policy")
  /\ scenario' = [scenario EXCEPT !.has_policy = TRUE,
                    !.policy = [@ EXCEPT !.id = l.args[1][1], !.generation = l.args[2][1],
                                         !.fields = Assigned(scenario.policy.fields, l.attrs)]]
  /\ saw_body' = TRUE
  /\ in_policy' = TRUE /\ in_evidence' = FALSE /\ current' = 0
  /\ UNCHANGED saw_version

GroupLine(l) ==
  /\ Takes(l, "group")
  /\ scenario' = [scenario EXCEPT !.policy.groups = Append(@, Labelled(l))]
  /\ saw_body' = TRUE
  /\ UNCHANGED <<saw_version, in_policy, in_evidence, current>>

SubjectLine(l) ==
  /\ Takes(l, "subject")
  /\ scenario' = [scenario EXCEPT !.policy.subjects = Append(@, Labelled(l))]
  /\ saw_body' = TRUE
  /\ UNCHANGED <<saw_version, in_policy, in_evidence, current>>

\* Mutant of EvidenceLine: the pointer to the first snapshot is kept.
EvidenceLineKeepsPointer(l) ==
  /\ Takes(l, "evidence")
  /\ scenario' = [scenario EXCEPT !.evidence = Append(@, Snapshot(l))]
  /\ saw_body' = TRUE
  /\ in_policy' = FALSE /\ in_evidence' = TRUE
  /\ current' = IF current = 0 THEN Len(scenario'.evidence) ELSE current
  /\ UNCHANGED saw_version

EvidenceLine(l) ==
  /\ Takes(l, "evidence")
  /\ scenario' = [scenario EXCEPT !.evidence = Append(@, Snapshot(l))]
  /\ saw_body' = TRUE
  /\ in_policy' = FALSE /\ in_evidence' = TRUE /\ current' = Len(scenario'.evidence)
  /\ UNCHANGED saw_version

Obs(l) ==
  /\ Takes(l, "obs")
  /\ scenario' = [scenario EXCEPT !.evidence[current].observations = Append(@, Entity(l))]
  /\ saw_body' = TRUE
  /\ UNCHANGED <<saw_version, in_policy, in_evidence, current>>

\* Mutant of Request: the section it follows stays open.
RequestKeepsSection(l) ==
  /\ Takes(l, "request")
  /\ scenario' = [scenario EXCEPT !.has_request = TRUE, !.request = Assigned(NoFields, l.attrs)]
  /\ saw_body' = TRUE
  /\ UNCHANGED <<saw_version, in_policy, in_evidence, current>>

\* A later request replaces the earlier one.
Request(l) ==
  /\ Takes(l, "request")
  /\ scenario' = [scenario EXCEPT !.has_request = TRUE, !.request = Assigned(NoFields, l.attrs)]
  /\ saw_body' = TRUE
  /\ in_policy' = FALSE /\ in_evidence' = FALSE /\ current' = 0
  /\ UNCHANGED saw_version

-------------------------------------------------------------------------------
(* The end of the document.                                                *)

FieldOf(entity, key, default) ==
  IF key \in DOMAIN entity.fields THEN entity.fields[key][1] ELSE default

Ids(entities) == {entities[i].id : i \in DOMAIN entities}
EntityWith(entities, id) == entities[CHOOSE i \in DOMAIN entities : entities[i].id = id]

\* The ids are non-zero and distinct, and so are the generations non-zero.
WellNamed(entities) ==
  /\ \A i \in DOMAIN entities : entities[i].id > 0 /\ entities[i].generation > 0
  /\ Cardinality(Ids(entities)) = Len(entities)

Node(entity, up) ==
  [parent |-> FieldOf(entity, up, NoParent), group |-> FieldOf(entity, up, NoParent),
   weight |-> FieldOf(entity, "weight", 1), floor |-> FieldOf(entity, "floor", 0),
   rank |-> FieldOf(entity, "rank", 0), protected |-> FieldOf(entity, "protected", 0) = 1]

\* The forest a parsed policy declares.  Subject ids are put above group ids as
\* composite_key does.
ForestOf(p) ==
  [groups |-> [g \in Ids(p.groups) |-> Node(EntityWith(p.groups, g), "parent")],
   subjects |-> [s \in {U64Max + i : i \in Ids(p.subjects)} |->
                   Node(EntityWith(p.subjects, s - U64Max), "group")]]

\* A priority or QoS reference names both an identity and a generation, or neither.
Coherent(entity) ==
  \A key \in {"priority", "qos"} \cap DOMAIN entity.fields :
    entity.fields[key][1] = 0 <=> entity.fields[key][2] = 0

\* A subject's priority modifier is within the policy's bound, which is 0 by default.
ModifierAllowed(p, subject) ==
  LET bps   == FieldOf(subject, "modifier_bps", 0)
      bound == FieldOf(p, "max_modifier_bps", 0)
  IN -bound <= bps /\ bps <= bound

\* validate_policy; the plausibility limits on single numbers are left out.
PolicyValid(p) ==
  /\ p.id > 0 /\ p.generation > 0 /\ p.epoch > 0
  /\ FieldOf(p, "fair_band", 0) <= FieldOf(p, "correction_threshold", 1)
  /\ FieldOf(p, "max_age_windows", 1) > 0
  /\ WellNamed(p.groups) /\ WellNamed(p.subjects)
  /\ \A i \in DOMAIN p.subjects : Coherent(p.subjects[i]) /\ ModifierAllowed(p, p.subjects[i])
  /\ ValidPolicy(ForestOf(p))

\* validate_evidence, with the same limits left out.
EvidenceValid(e) ==
  /\ e.id > 0 /\ e.generation > 0
  /\ FieldOf(e, "window", 0) > 0 /\ FieldOf(e, "window_gen", 0) > 0 /\ FieldOf(e, "epoch", 0) > 0
  /\ FieldOf(e, "captured_ns", 0) >= 0
  /\ WellNamed(e.observations)
  /\ \A i \in DOMAIN e.observations :
       /\ Coherent(e.observations[i])
       /\ FieldOf(e.observations[i], "served", 0) = 0 \/ FieldOf(e.observations[i], "unserved", 0) = 0

\* An epoch that was not written is taken from the policy, which has none.
WithEpoch(s) ==
  LET epoch == IF s.epoch = 0 THEN s.policy.epoch ELSE s.epoch
  IN IF s.has_policy THEN [s EXCEPT !.epoch = epoch, !.policy.epoch = epoch] ELSE s

Valid(s) ==
  /\ s.has_policy => PolicyValid(s.policy)
  /\ \A i \in DOMAIN s.evidence : EvidenceValid(s.evidence[i])

End ==
  /\ phase = "reading"
  /\ scenario' = WithEpoch(scenario)
  /\ phase' = IF ~saw_version \/ ~saw_body THEN "incomplete"
              ELSE IF Valid(scenario') THEN "parsed" ELSE "invalid"
  /\ UNCHANGED <<read, flags>>

Next ==
  \/ \E l \in Lines :
       \/ Blank(l) \/ Reject(l) \/ Version(l) \/ Epoch(l) \/ PolicyLine(l) \/ GroupLine(l)
       \/ SubjectLine(l) \/ EvidenceLine(l) \/ Obs(l) \/ Request(l)
  \/ End

Spec == Init /\ [][Next]_vars

-------------------------------------------------------------------------------
(* What a document means, stated over the document as a whole.             *)

Sections == {"policy", "evidence", "request"}

\* No line above line i of d says anything.
Leads(d, i) == \A j \in 1..(i - 1) : d[j].directive = "blank"

\* Line i of d belongs to the nearest directive above it that opens a section.
SectionOf(d, i) ==
  LET openers == {j \in 1..(i - 1) : d[j].directive \in Sections}
  IN IF openers = {} THEN "none" ELSE d[Max(openers)].directive

\* Line i of d may stand where it stands, with the tokens it has.
InPlace(d, i) ==
  LET l == d[i]
  IN \/ l.directive = "blank"
     \/ l.directive = "version" /\ Leads(d, i) /\ Single(l) /\ l.args[1] = <<1>>
     \/ l.directive = "epoch" /\ ~Leads(d, i) /\ Single(l)
     \/ l.directive \in {"policy", "evidence"} /\ ~Leads(d, i) /\ Identified(l)
     \/ l.directive \in {"group", "subject"} /\ SectionOf(d, i) = "policy" /\ Identified(l)
     \/ l.directive = "obs" /\ SectionOf(d, i) = "evidence" /\ Identified(l)
     \/ l.directive = "request" /\ ~Leads(d, i) /\ l.args = <<>> /\ AttributesFit(l)

Grammatical(d) == \A i \in DOMAIN d : InPlace(d, i)

\* The lines of d with a directive, and a set of lines from top to bottom.
LinesOf(d, directive) == {i \in DOMAIN d : d[i].directive = directive}
TopDown(lines) ==
  [k \in 1..Cardinality(lines) |-> CHOOSE i \in lines : Cardinality({j \in lines : j <= i}) = k]

\* The observations between evidence line i and the next evidence line.
ObservedAfter(d, i) ==
  {j \in LinesOf(d, "obs") : j > i /\ \A e \in LinesOf(d, "evidence") : e <= i \/ e > j}

LabelledAt(d, lines) == [k \in 1..Cardinality(lines) |-> Labelled(d[TopDown(lines)[k]])]
EntitiesAt(d, lines) == [k \in 1..Cardinality(lines) |-> Entity(d[TopDown(lines)[k]])]

SnapshotAt(d, i) ==
  [Snapshot(d[i]) EXCEPT !.observations = EntitiesAt(d, ObservedAfter(d, i))]

\* Every key that a policy line sets has the value of the last one that does.
FieldsAt(d, lines) ==
  [key \in UNION {KeysOf(d[i].attrs) : i \in lines} |->
     LastValue(d[Max({i \in lines : key \in KeysOf(d[i].attrs)})].attrs, key)]

MeaningOf(d) ==
  LET policies == LinesOf(d, "policy")
      epochs   == LinesOf(d, "epoch")
      requests == LinesOf(d, "request")
      starts   == LinesOf(d, "evidence")
      epoch    == IF epochs = {} THEN 0 ELSE d[Max(epochs)].args[1][1]
  IN [has_policy |-> policies # {},
      policy |->
        [id |-> IF policies = {} THEN 0 ELSE d[Max(policies)].args[1][1],
         generation |-> IF policies = {} THEN 0 ELSE d[Max(policies)].args[2][1],
         epoch |-> IF policies = {} THEN 0 ELSE epoch,
         fields |-> FieldsAt(d, policies),
         groups |-> LabelledAt(d, LinesOf(d, "group")),
         subjects |-> LabelledAt(d, LinesOf(d, "subject"))],
      epoch |-> epoch,
      evidence |-> [k \in 1..Cardinality(starts) |-> SnapshotAt(d, TopDown(starts)[k])],
      has_request |-> requests # {},
      request |-> IF requests = {} THEN NoFields ELSE Assigned(NoFields, d[Max(requests)].attrs)]

-------------------------------------------------------------------------------
(* Properties.                                                             *)

\* scenario.hpp:6: "Unknown directives, unknown keys, duplicate keys,
\* out-of-range values, and trailing garbage are all errors" - as far as the
\* code has it.  The parse stops at the first line with which the text is no
\* longer grammatical, whatever the sections before it opened and closed.
AcceptsTheGrammar ==
  /\ phase # "bad line" => Grammatical(read)
  /\ phase = "bad line" => Grammatical(SubSeq(read, 1, Len(read) - 1)) /\ ~Grammatical(read)

\* What leaves the parser is what the document says as a whole: each
\* observation belongs to the evidence directive nearest above it, the epoch is
\* the last one written wherever that is, the policy collects what every policy
\* directive and group and subject line declares, and only the last request counts.
MeansWhatItSays == phase = "parsed" => scenario = MeaningOf(read)
===============================================================================
