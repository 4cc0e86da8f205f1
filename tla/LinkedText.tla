------------------------------ MODULE LinkedText ------------------------------
(***************************************************************************)
(* Linked fields (ADR-0011): a text field of one capability shows a field  *)
(* of another.  The registry keeps the relation, the link table the record *)
(* each record picked, and the field keeps its own copy of the text, which *)
(* every write has to keep true: edits, deletions, Link, Unlink, and the   *)
(* activations that put relations to sleep and wake them.  (runtime/data/  *)
(* links, lifecycle/link, builder/link, builder/commit, registry)          *)
(*                                                                         *)
(* Each action is one transaction under the write lease, and decides on    *)
(* what that transaction reads, never on what admission read.  Forms and   *)
(* presses are arbitrary, that is, arbitrarily old.  A deletion of a       *)
(* capability needs the lease too, so a save may write every capability    *)
(* its refresh reaches.                                                    *)
(***************************************************************************)
EXTENDS Naturals, FiniteSets, SequencesExt

CONSTANTS Caps, Fields, CapOf,  \* capabilities, their text fields
          Records, HomeOf,      \* record ids, and the capability each belongs to
          Required,             \* the fields that must hold a value
          Texts, Blank          \* what a field holds: spellings of one name are one text

None == "none"

ASSUME LinkedTextAssumption ==
    /\ CapOf \in [Fields -> Caps] /\ HomeOf \in [Records -> Caps]
    /\ Required \subseteq Fields /\ Blank \in Texts
    /\ None \notin Fields \cup Records /\ IsFiniteSet(Fields)

VARIABLES there,    \* the capabilities on the desk
          linkable, \* the fields that are active and single-line
          rel,      \* the relation of a field: the field it points at
          records,  \* the records that exist
          text,     \* what a record holds in a field
          pick,     \* the link table: the record a record picked for a field
          lapsed,   \* history: relations whose waking failed and was let pass
          typed     \* history: texts typed while the relation of their field slept

linkVars == <<there, linkable, rel, records, text, pick, lapsed, typed>>

Cells     == {c \in Records \X Fields : HomeOf[c[1]] = CapOf[c[2]]}
FieldsOf(cap)   == {f \in Fields : CapOf[f] = cap}
Holds(f)  == rel[f] # None /\ {f, rel[f]} \subseteq linkable
Asleep(f) == rel[f] # None /\ ~Holds(f)
Holding   == {f \in Fields : Holds(f)}

LinkInit ==
    /\ there = {} /\ linkable = {} /\ records = {}
    /\ rel = [f \in Fields |-> None]
    /\ text = [c \in Cells |-> Blank] /\ pick = [c \in Cells |-> None]
    /\ lapsed = {} /\ typed = {}

-----------------------------------------------------------------------------
(* what the writes are made of, over the two tables db = [text, pick] *)

Tables == [text |-> text, pick |-> pick]

Store(db) ==
    /\ text' = db.text /\ pick' = db.pick

\* The record a cell's relation leads to, as the cell of the target field.
Target(db, c) == <<db.pick[c], rel[c[2]]>>

\* The relations as the step leaves them: the histories are kept where they still mean something.
Remember(failed, new) ==
    /\ lapsed' = {f \in (lapsed \ failed[1]) \cup failed[2] : Holds(f)'}
    /\ typed'  = {c \in typed \cup new : Asleep(c[2])' /\ c[1] \in records'}

\* Mutation: the text is carried to the fields linked to the edited record, and no further.
DownstreamOneLevel(db, cells, holding) ==
    {c \in Cells : c[2] \in holding /\ Target(db, c) \in cells}

\* rewriteLinkedField, carryText: the cells that show one of `cells`, down every chain.
Downstream(db, cells, holding) ==
    LET down == {S \in SUBSET Cells :
                   cells \subseteq S /\ \A c \in Cells :
                                        c[2] \in holding /\ Target(db, c) \in S => c \in S}
    IN  {c \in Cells \ cells : \A S \in down : c \in S}

\* unlinkClearedTarget: the rows that lead to one of `cells` go, of a relation asleep too.
LetGo(db, cells) ==
    [db EXCEPT !.pick = [c \in Cells |-> IF Target(db, c) \in cells THEN None ELSE @[c]]]

\* refreshLinkedText, one target field the edit changed.
Follow(db, cell, shown) ==
    IF shown = Blank THEN LetGo(db, {cell})
    ELSE LET reached == Downstream(db, {cell}, Holding)
         IN  [db EXCEPT !.text = [c \in Cells |-> IF c \in reached THEN shown ELSE @[c]]]

\* reviveLinkedText: the cells of a woken field, and those that show them, come back to their
\* targets' texts; a row that leads to no name goes.
Revive(db, f, holding) ==
    LET mine(s)  == {c \in Cells : c[2] = f /\ db.pick[c] = s}
        shows(s) == mine(s) \cup Downstream(db, mine(s), holding)
        named    == {s \in Records : <<s, rel[f]>> \in Cells /\ db.text[<<s, rel[f]>>] # Blank}
    IN  [text |-> [c \in Cells |->
                     IF \E s \in named : c \in shows(s)
                       THEN db.text[<<CHOOSE s \in named : c \in shows(s), rel[f]>>]
                       ELSE db.text[c]],
         pick |-> [c \in Cells |->
                     IF c[2] = f /\ db.pick[c] \notin named THEN None ELSE db.pick[c]]]

\* linkByName: a name that exactly one record of the target holds is linked to it.
Match(db, f, g, skipped) ==
    LET same(c) == {s \in records : HomeOf[s] = CapOf[g] /\ db.text[<<s, g>>] = db.text[c]}
        found(c) == /\ c[2] = f /\ c \notin skipped /\ db.text[c] # Blank
                    /\ Cardinality(same(c)) = 1
    IN  [db EXCEPT !.pick = [c \in Cells |-> IF found(c) THEN CHOOSE s \in same(c) : TRUE
                                                         ELSE @[c]]]

\* matchUnlinkedNames: a link that leads to a record stands, whatever its text names now.
MatchUnlinked(db, f) == Match(db, f, rel[f], {c \in Cells : c[2] = f /\ db.pick[c] \in records})

-----------------------------------------------------------------------------
(* saves of records *)

\* What a form says of a field.  A field of a relation that holds may be drawn as a linked field or,
\* by a form older than the relation, as a plain one; a pick for any other field is only its text.
Entry(f) ==
    [how : {"unsubmitted"}] \cup [how : {"plain"}, text : Texts]
      \cup (IF Holds(f) THEN [how : {"linked"}, text : Texts] \cup [how : {"pick"}, record : Records]
                        ELSE {})

Forms(cap) == {form \in [FieldsOf(cap) -> UNION {Entry(f) : f \in FieldsOf(cap)}] :
                 \A f \in FieldsOf(cap) : form[f] \in Entry(f)}

Pickable(f, s) == HomeOf[s] = CapOf[rel[f]] /\ s \in records /\ text[<<s, rel[f]>>] # Blank

\* The text a save stores.  The id wins: a picked field stores its target's.
Stored(form, f, before) ==
    CASE form[f].how = "unsubmitted" -> before
      [] form[f].how = "pick"        -> text[<<form[f].record, rel[f]>>]
      [] OTHER                       -> form[f].text

\* resolveSubmittedPicks, the required fields.
Accepted(form, f, before) ==
    /\ form[f].how = "pick" => Pickable(f, form[f].record)
    /\ f \in Required => Stored(form, f, before) # Blank

\* createCapabilityMutationPort: the record, and a row for each pick.
Create(r) ==
    /\ HomeOf[r] \in there /\ r \notin records /\ records' = records \cup {r}
    /\ \E form \in Forms(HomeOf[r]) :
         /\ \A f \in FieldsOf(HomeOf[r]) : Accepted(form, f, Blank)
         /\ text' = [c \in Cells |-> IF c[1] = r THEN Stored(form, c[2], Blank) ELSE text[c]]
         /\ pick' = [c \in Cells |-> IF c[1] = r /\ form[c[2]].how = "pick"
                                       THEN form[c[2]].record ELSE pick[c]]
         /\ UNCHANGED <<there, linkable, rel>>
         /\ Remember(<<{}, {}>>, {<<r, f>> : f \in FieldsOf(HomeOf[r])})

\* refuseDrawnUnlinked: an old form's text for a field linked since would be written over the link.
DrawnUnlinked(r, form, f) ==
    /\ Holds(f) /\ form[f].how = "plain" /\ pick[<<r, f>>] \in records
    /\ form[f].text # text[<<r, f>>]

\* Mutation: the rows of a relation asleep are left alone.
RelinkedAwake(r, form, f) ==
    CASE form[f].how = "unsubmitted" -> pick[<<r, f>>]
      [] form[f].how = "pick"        -> form[f].record
      [] OTHER -> IF Asleep(f) \/ (form[f].text = text[<<r, f>>] /\ pick[<<r, f>>] \in records)
                    THEN pick[<<r, f>>] ELSE None

\* relinkUpdatedRecord: a field without a pick keeps its row while its text stands.
Relinked(r, form, f) ==
    CASE form[f].how = "unsubmitted" -> pick[<<r, f>>]
      [] form[f].how = "pick"        -> form[f].record
      [] OTHER -> IF form[f].text = text[<<r, f>>] /\ (Asleep(f) \/ pick[<<r, f>>] \in records)
                    THEN pick[<<r, f>>] ELSE None

\* What the edit leaves in the record, and the fields of it whose text others may show.
After(r, form, f) == Stored(form, f, text[<<r, f>>])
Changed(r, form)  == {f \in FieldsOf(HomeOf[r]) : After(r, form, f) # text[<<r, f>>]}
Targets(r, form)  == {f \in Changed(r, form) : \E g \in Fields : rel[g] = f}

Saved(r, form) ==
    [text |-> [c \in Cells |-> IF c[1] = r THEN After(r, form, c[2]) ELSE text[c]],
     pick |-> [c \in Cells |-> IF c[1] = r THEN Relinked(r, form, c[2]) ELSE pick[c]]]

\* refreshLinkedText: one changed target field after the other, each with the text the edit left.
Refreshed(r, form, order) ==
    LET db[n \in 0 .. Len(order)] ==
            IF n = 0 THEN Saved(r, form)
            ELSE Follow(db[n - 1], <<r, order[n]>>, After(r, form, order[n]))
    IN  db[Len(order)]

\* createCapabilityUpdateMutationPort: the record, its rows, then the refresh.
Save(r, form) ==
    /\ r \in records
    /\ \A f \in FieldsOf(HomeOf[r]) :
         Accepted(form, f, text[<<r, f>>]) /\ ~DrawnUnlinked(r, form, f)
    /\ \E order \in SetToSeqs(Targets(r, form)) : Store(Refreshed(r, form, order))
    /\ UNCHANGED <<there, linkable, rel, records>>
    /\ Remember(<<{}, {}>>, {<<r, f>> : f \in Changed(r, form)})

Update(r) == \E form \in Forms(HomeOf[r]) : Save(r, form)

\* releaseDeletedRecord: an optional field linked to the record is cleared, as a target whose text
\* is cleared; a required one, and one whose relation sleeps, keeps its text.
Delete(r) ==
    /\ r \in records /\ records' = records \ {r}
    /\ LET cleared == {c \in Cells : Holds(c[2]) /\ c[2] \notin Required /\ pick[c] = r}
           freed   == LetGo(Tables, cleared)
       IN  /\ text' = [c \in Cells |-> IF c \in cleared \/ c[1] = r THEN Blank ELSE text[c]]
           /\ pick' = [c \in Cells |-> IF r \in {c[1], pick[c]} THEN None ELSE freed.pick[c]]
    /\ UNCHANGED <<there, linkable, rel>>
    /\ Remember(<<{}, {}>>, {})

-----------------------------------------------------------------------------
(* relations *)

\* Following relations from g arrives at f.  Those asleep count.
Reaches(g, f) ==
    \A S \in SUBSET Fields : g \in S /\ (\A h \in S : rel[h] \in S \cup {None}) => f \in S

\* linkRefusal admits the pair.
Linkable(f, g) ==
    /\ rel[f] = None /\ {CapOf[f], CapOf[g]} \subseteq there /\ CapOf[f] # CapOf[g]
    /\ ~Reaches(g, f)

\* linkUnderLease and a linking-only request: the relation, then the matching scan.
Link(f, g) ==
    /\ {f, g} \subseteq linkable /\ Linkable(f, g)
    /\ rel' = [rel EXCEPT ![f] = g]
    /\ Store(Match([Tables EXCEPT !.pick = [c \in Cells |-> IF c[2] = f THEN None ELSE @[c]]],
                   f, g, {}))
    /\ UNCHANGED <<there, linkable, records>>
    /\ Remember(<<{}, {}>>, {})

\* unlinkUnderLease: a relation asleep is left alone.
Unlink(f) ==
    /\ Holds(f)
    /\ rel' = [rel EXCEPT ![f] = None]
    /\ pick' = [c \in Cells |-> IF c[2] = f THEN None ELSE pick[c]]
    /\ UNCHANGED <<there, linkable, records, text>>
    /\ Remember(<<{}, {}>>, {})

\* matchLinkedFieldsAtStartup, one field: a restart may come at any time, and a field may fail.
MatchAtStartup(f) ==
    /\ Holds(f) /\ Store(MatchUnlinked(Tables, f))
    /\ UNCHANGED <<there, linkable, rel, records, lapsed, typed>>

-----------------------------------------------------------------------------
(* builds *)

\* writeLinkStepRelations: the step links a field no record has a value in, or nothing.
LinkStep(cap) ==
    \/ UNCHANGED rel
    \/ \E f \in FieldsOf(cap), g \in Fields :
         /\ {f, g} \subseteq linkable' /\ CapOf[g] \in there
         /\ rel[f] = None /\ CapOf[g] # cap /\ ~Reaches(g, f)
         /\ \A c \in Cells : c[2] = f => text[c] = Blank
         /\ rel' = [rel EXCEPT ![f] = g]

\* The first build of a capability, under a lifetime no relation names.
Build(cap) ==
    /\ cap \notin there /\ there' = there \cup {cap} /\ linkable' = linkable \cup FieldsOf(cap)
    /\ LinkStep(cap)
    /\ UNCHANGED <<records, text, pick, lapsed, typed>>

\* applyRelationWork: every woken field is revived, then the names typed meanwhile are matched.
Revived(order, holding) ==
    LET db[n \in 0 .. Len(order)] ==
            IF n = 0 THEN Tables ELSE Revive(db[n - 1], order[n], holding)
    IN  db[Len(order)]

Woken(order, holding) ==
    LET db[n \in 0 .. Len(order)] ==
            IF n = 0 THEN Revived(order, holding) ELSE MatchUnlinked(db[n - 1], order[n])
    IN  db[Len(order)]

\* wakeRelations: work that fails is undone, and the activation goes on without it.
Wake(woken, holding) ==
    \/ /\ \E order \in SetToSeqs(woken) : Store(Woken(order, holding))
       /\ Remember(<<woken, {}>>, {})
    \/ /\ woken # {} /\ UNCHANGED <<text, pick>>
       /\ Remember(<<{}, woken>>, {})

\* An evolution hides fields, brings them back, makes them long texts or single lines.
Evolve(cap) ==
    /\ cap \in there /\ UNCHANGED <<there, records>>
    /\ \E shape \in SUBSET FieldsOf(cap) :
         LET now     == (linkable \ FieldsOf(cap)) \cup shape
             holding == {f \in Fields : rel[f] # None /\ {f, rel[f]} \subseteq now}
         IN  /\ linkable' = now
             /\ LinkStep(cap)
             /\ Wake(holding \ Holding, holding)

\* Mutation: the relations that point at the capability are left for its next lifetime.
DeleteCapabilityRowsOnly(cap) ==
    /\ cap \in there /\ there' = there \ {cap} /\ linkable' = linkable \ FieldsOf(cap)
    /\ records' = {r \in records : HomeOf[r] # cap}
    /\ rel'  = [f \in Fields |-> IF CapOf[f] = cap THEN None ELSE rel[f]]
    /\ text' = [c \in Cells |-> IF HomeOf[c[1]] = cap THEN Blank ELSE text[c]]
    /\ pick' = [c \in Cells |-> IF rel'[c[2]] = None \/ pick[c] \notin records' THEN None
                                                                              ELSE pick[c]]
    /\ Remember(<<{}, {}>>, {})

\* The tombstone transaction: relations and rows go with the lifetime they are an end of.
DeleteCapability(cap) ==
    /\ cap \in there /\ there' = there \ {cap} /\ linkable' = linkable \ FieldsOf(cap)
    /\ records' = {r \in records : HomeOf[r] # cap}
    /\ rel'  = [f \in Fields |-> IF CapOf[f] = cap \/ rel[f] \in FieldsOf(cap) THEN None ELSE rel[f]]
    /\ text' = [c \in Cells |-> IF HomeOf[c[1]] = cap THEN Blank ELSE text[c]]
    /\ pick' = [c \in Cells |->
                  IF HomeOf[c[1]] = cap \/ pick[c] \in {r \in Records : HomeOf[r] = cap}
                    THEN None ELSE pick[c]]
    /\ Remember(<<{}, {}>>, {})

LinkNext ==
    \/ \E r \in Records : Create(r) \/ Update(r) \/ Delete(r)
    \/ \E f \in Fields : Unlink(f) \/ MatchAtStartup(f) \/ (\E g \in Fields : Link(f, g))
    \/ \E cap \in Caps : Build(cap) \/ Evolve(cap) \/ DeleteCapability(cap)

LinkSpec == LinkInit /\ [][LinkNext]_linkVars

-----------------------------------------------------------------------------
(* what the links promise *)

(* A record that picked another shows its name, as it is now, however long the chain between them and
   whatever woke, slept, was edited, cleared or deleted on it: a copy never goes stale under a
   relation that holds. (linked-text.ts, picks.ts, deleted-target.ts) *)
LinkedShowsTarget ==
    \A c \in Cells :
        Holds(c[2]) /\ c[2] \notin lapsed /\ pick[c] # None
          => text[c] # Blank /\ text[c] = text[Target(Tables, c)]

(* A row joins two records that exist, under a relation that stands between two capabilities of the
   desk, and relations never close a loop, those asleep included: nothing is left of a deleted
   record or lifetime for a later one to inherit. (release, unlink, relation diff, rules.ts) *)
RowsUnderRelations ==
    /\ \A c \in Cells : pick[c] # None =>
         /\ {c[1], pick[c]} \subseteq records
         /\ rel[c[2]] # None /\ CapOf[rel[c[2]]] = HomeOf[pick[c]]
    /\ \A f \in Fields : rel[f] # None =>
         /\ {CapOf[f], CapOf[rel[f]]} \subseteq there /\ CapOf[f] # CapOf[rel[f]]
         /\ ~Reaches(rel[f], f)

(* A relation that wakes overwrites nothing that was typed while it slept. (relinkUpdatedRecord,
   wokenRelationWork) *)
RevivalKeepsTyped ==
    [][\A c \in typed : rel'[c[2]] = rel[c[2]] /\ Holds(c[2])' => text'[c] = text[c]]_linkVars
=============================================================================
