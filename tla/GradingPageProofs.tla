-------------------------- MODULE GradingPageProofs --------------------------
(***************************************************************************)
(* What a save from the grading page cannot take, for any rubric, cells,   *)
(* entries, loads and posts.                                               *)
(***************************************************************************)
EXTENDS GradingPage, TLAPS

\* What a map holds of o at the keys in K: all of it, or at least no other value.
Holds(f, o, K) == \A k \in K : k \in DOMAIN o => k \in DOMAIN f /\ f[k] = o[k]
Agrees(f, o, K) == \A k \in K : k \in DOMAIN o /\ k \in DOMAIN f => f[k] = o[k]

\* What holds all of a map disagrees with none of it.
LEMMA HoldsAgrees ==
    ASSUME NEW f, NEW o, NEW K, Holds(f, o, K)
    PROVE  Agrees(f, o, K)
BY DEF Holds, Agrees

\* Both relations carry over to fewer keys.
LEMMA FewerKeys ==
    ASSUME NEW f, NEW o, NEW K, NEW J \in SUBSET K
    PROVE  /\ Holds(f, o, K) => Holds(f, o, J)
           /\ Agrees(f, o, K) => Agrees(f, o, J)
BY DEF Holds, Agrees

\* A partial map by its domain and its values.
LEMMA PartialMap ==
    ASSUME NEW S, NEW T, NEW f
    PROVE  f \in PartialMaps(S, T) <=> /\ DOMAIN f \subseteq S
                                       /\ f = [k \in DOMAIN f |-> f[k]]
                                       /\ \A k \in DOMAIN f : f[k] \in T
<1>1. ASSUME f \in PartialMaps(S, T)
      PROVE  /\ DOMAIN f \subseteq S
             /\ f = [k \in DOMAIN f |-> f[k]]
             /\ \A k \in DOMAIN f : f[k] \in T
  <2>1. PICK D \in SUBSET S : f \in [D -> T]
    BY <1>1 DEF PartialMaps
  <2> QED
    BY <2>1
<1>2. ASSUME DOMAIN f \subseteq S, f = [k \in DOMAIN f |-> f[k]], \A k \in DOMAIN f : f[k] \in T
      PROVE  f \in PartialMaps(S, T)
  <2>1. f \in [DOMAIN f -> T]
    BY <1>2
  <2> QED
    BY <1>2, <2>1 DEF PartialMaps
<1> QED
  BY <1>1, <1>2

\* The spread of one map over another has keys and values of both.
LEMMA SpreadMap ==
    ASSUME NEW S, NEW T, NEW f \in PartialMaps(S, T), NEW g \in PartialMaps(S, T)
    PROVE  Spread(f, g) \in PartialMaps(S, T)
<1> DEFINE D == DOMAIN f \cup DOMAIN g
<1>1. D \subseteq S /\ \A k \in D : (IF k \in DOMAIN g THEN g[k] ELSE f[k]) \in T
  BY PartialMap
<1>2. Spread(f, g) \in [D -> T]
  BY <1>1 DEF Spread
<1> QED
  BY <1>1, <1>2 DEF PartialMaps

\* Spreading what agrees over what holds keeps it.
LEMMA SpreadHolds ==
    ASSUME NEW f, NEW g, NEW o, NEW K, Agrees(g, o, K)
    PROVE  /\ Holds(f, o, K) => Holds(Spread(f, g), o, K)
           /\ Agrees(f, o, K) => Agrees(Spread(f, g), o, K)
BY DEF Holds, Agrees, Spread

----------------------------------------------------------------------------
\* Gradings.

\* The fields of a grading have their types.
LEMMA GradingFields ==
    ASSUME NEW r \in Gradings
    PROVE  /\ r.dimensions \in Nat /\ r.notes \in Nat
           /\ r.feedback \in PartialMaps(StoredCategories, SUBSET Ticks)
           /\ r.dispositions \in PartialMaps(FixedCells, {"accepted", "ignored"})
           /\ r = [dimensions |-> r.dimensions, notes |-> r.notes, feedback |-> r.feedback,
                   dispositions |-> r.dispositions]
BY DEF Gradings

\* Replacing the feedback keeps a grading's other fields.
LEMMA WithFeedback ==
    ASSUME NEW r \in Gradings, NEW f \in PartialMaps(StoredCategories, SUBSET Ticks)
    PROVE  /\ [r EXCEPT !.feedback = f] \in Gradings
           /\ [r EXCEPT !.feedback = f].feedback = f
           /\ [r EXCEPT !.feedback = f].dispositions = r.dispositions
BY DEF Gradings

\* Replacing the notes does too.
LEMMA WithNotes ==
    ASSUME NEW r \in Gradings, NEW n \in Nat
    PROVE  /\ [r EXCEPT !.notes = n] \in Gradings
           /\ [r EXCEPT !.notes = n].feedback = r.feedback
           /\ [r EXCEPT !.notes = n].dispositions = r.dispositions
BY DEF Gradings

\* A load is where it was, or has gone on with the same answer.
LEMMA LoadTypes ==
    ASSUME loads \in LoadStates,
           NEW l \in 1 .. MaxLoads, NEW k \in 1 .. MaxLoads
    PROVE  /\ [loads EXCEPT ![l].pc = "sent"] \in LoadStates
           /\ [loads EXCEPT ![l].pc = "config", ![k].pc = "sent"] \in LoadStates
           /\ [loads EXCEPT ![l].pc = "config"] \in LoadStates
BY DEF LoadStates

\* The map of nothing is a map.
LEMMA EmptyMap ==
    ASSUME NEW S, NEW T
    PROVE  None \in PartialMaps(S, T)
<1>1. None \in [{} -> T]
  BY DEF None
<1> QED
  BY <1>1 DEF PartialMaps

\* So is one that gives all its keys one value.
LEMMA ConstantMap ==
    ASSUME NEW S, NEW T, NEW D \in SUBSET S, NEW t \in T
    PROVE  [k \in D |-> t] \in PartialMaps(S, T)
<1>1. [k \in D |-> t] \in [D -> T]
  OBVIOUS
<1> QED
  BY <1>1 DEF PartialMaps

\* The form of a page that opens is a grading.
LEMMA EmptyGrading == Empty \in Gradings
BY EmptyMap DEF Empty, Gradings

\* So is the stored one.
LEMMA GradedGrading == Graded \in Gradings
<1>1. [c \in StoredCategories |-> Ticks] \in PartialMaps(StoredCategories, SUBSET Ticks)
  BY ConstantMap
<1>2. [i \in FixedCells |-> "accepted"] \in PartialMaps(FixedCells, {"accepted", "ignored"})
  BY ConstantMap
<1> QED
  BY <1>1, <1>2 DEF Graded, Gradings

\* The selections the form makes of stored feedback are feedback, and name no other
\* ticks than it.
LEMMA Selections ==
    ASSUME NEW f \in PartialMaps(StoredCategories, SUBSET Ticks), NEW K, NEW o, Holds(f, o, K)
    PROVE  /\ feedbackToSelections(f) \in PartialMaps(StoredCategories, SUBSET Ticks)
           /\ Agrees(feedbackToSelections(f), o, K)
<1>1. \A c \in DOMAIN f : f[c] \in SUBSET Ticks
  BY PartialMap
<1>2. feedbackToSelections(f) \in [RubricCategories -> SUBSET Ticks]
  BY <1>1 DEF feedbackToSelections
<1>3. feedbackToSelections(f) \in PartialMaps(StoredCategories, SUBSET Ticks)
  BY <1>2, GradingPageAssumption DEF PartialMaps
<1>4. Agrees(feedbackToSelections(f), o, K)
  BY DEF Agrees, Holds, feedbackToSelections
<1> QED
  BY <1>3, <1>4

----------------------------------------------------------------------------
\* The invariant.  What is stored, and what a load was answered, has all that was
\* there when the page was opened, where the teacher has entered nothing.  The
\* form and what a call sends may lack it, but have nothing else in its place.

Categories == StoredCategories \ (entered.where \cup entered.added)
Cells == FixedCells \ entered.where

HasAll(r, o, C, I) == Holds(r.feedback, o.feedback, C) /\ Holds(r.dispositions, o.dispositions, I)
HasNoOther(r, o, C, I) == Agrees(r.feedback, o.feedback, C) /\ Agrees(r.dispositions, o.dispositions, I)

LoadsHave(C, I) ==
    \A l \in 1 .. MaxLoads :
        loads[l].pc \in {"answered", "config", "criteria"} => HasAll(loads[l].saved, opened, C, I)
PostsHave(C, I) ==
    \A p \in 1 .. MaxPosts : posts[p].pc = "sent" => HasNoOther(posts[p].content, opened, C, I)

PageInv ==
    /\ GradingTypeOK
    /\ HasAll(grading, opened, Categories, Cells)
    /\ HasNoOther(form, opened, Categories, Cells)
    /\ LoadsHave(Categories, Cells)
    /\ PostsHave(Categories, Cells)

\* A grading that has all of the stored one has nothing else in its place.
LEMMA AllIsNoOther ==
    ASSUME NEW r, NEW o, NEW C, NEW I, HasAll(r, o, C, I)
    PROVE  HasNoOther(r, o, C, I)
BY HoldsAgrees DEF HasAll, HasNoOther

\* An entry takes keys away; for the others everything stays as it was.
LEMMA EntryKeeps ==
    ASSUME PageInv, NEW C \in SUBSET Categories, NEW I \in SUBSET Cells
    PROVE  /\ HasAll(grading, opened, C, I)
           /\ HasNoOther(form, opened, C, I)
           /\ LoadsHave(C, I)
           /\ PostsHave(C, I)
<1>1. \A r \in Gradings : HasAll(r, opened, Categories, Cells) => HasAll(r, opened, C, I)
  BY FewerKeys DEF HasAll
<1>2. \A r \in Gradings : HasNoOther(r, opened, Categories, Cells) => HasNoOther(r, opened, C, I)
  BY FewerKeys DEF HasNoOther
<1>3. grading \in Gradings /\ form \in Gradings
  BY DEF PageInv, GradingTypeOK
<1>4. \A l \in 1 .. MaxLoads : loads[l].saved \in Gradings
  BY DEF PageInv, GradingTypeOK, LoadStates
<1>5. \A p \in 1 .. MaxPosts : posts[p].content \in Gradings
  BY DEF PageInv, GradingTypeOK, PostStates
<1> QED
  BY <1>1, <1>2, <1>3, <1>4, <1>5 DEF PageInv, LoadsHave, PostsHave

\* The page opens on the stored grading with an empty form.
LEMMA PageInit == GradingInit => PageInv
<1> SUFFICES ASSUME GradingInit PROVE PageInv
  OBVIOUS
<1>1. grading = Graded /\ opened = Graded /\ form = Empty
  BY DEF GradingInit
<1>2. GradingTypeOK
  <2>1. {grading, opened, form} \subseteq Gradings
    BY <1>1, EmptyGrading, GradedGrading
  <2>2. NoLoad \in [pc : {"none"}, saved : Gradings] /\ NoRequest \in [pc : {"none"}, kind : {"save"}, content : Gradings]
    BY EmptyGrading DEF NoLoad, NoRequest
  <2>3. loads \in LoadStates
    BY EmptyGrading DEF GradingInit, NoLoad, LoadStates
  <2>4. posts \in PostStates
    BY <2>2 DEF GradingInit, PostStates
  <2>5. display \in Displays
    BY DEF GradingInit, Displays
  <2>6. entered.times \in Nat /\ entered.where = {} /\ entered.added = {}
    BY DEF GradingInit
  <2> QED
    BY <2>1, <2>3, <2>4, <2>5, <2>6 DEF GradingTypeOK
<1>3. HasAll(grading, opened, Categories, Cells)
  BY <1>1 DEF HasAll, Holds
<1>4. HasNoOther(form, opened, Categories, Cells)
  BY <1>1 DEF HasNoOther, Agrees, Empty, None
<1>5. LoadsHave(Categories, Cells) /\ PostsHave(Categories, Cells)
  BY DEF GradingInit, LoadsHave, PostsHave, NoLoad, NoRequest
<1> QED
  BY <1>2, <1>3, <1>4, <1>5 DEF PageInv

----------------------------------------------------------------------------
\* The steps.  A step preserves the invariant if what it changes has what the
\* invariant says of it; the rest is as it was.

Read == {"answered", "config", "criteria"}

\* What a step has to show: a grading that is replaced has all that the teacher did
\* not touch, a form that is replaced has nothing else there, and so do the posts.
LEMMA StepInv ==
    ASSUME PageInv, GradingTypeOK', opened' = opened,
           entered.where \subseteq entered'.where, entered.added \subseteq entered'.added,
           grading' = grading \/ HasAll(grading', opened, Categories', Cells'),
           form' = form \/ HasNoOther(form', opened, Categories', Cells'),
           \A l \in 1 .. MaxLoads : loads'[l].pc \in Read =>
               \/ loads[l].pc \in Read /\ loads'[l].saved = loads[l].saved
               \/ HasAll(loads'[l].saved, opened, Categories', Cells'),
           \A p \in 1 .. MaxPosts : posts'[p].pc = "sent" =>
               \/ posts[p].pc = "sent" /\ posts'[p].content = posts[p].content
               \/ HasNoOther(posts'[p].content, opened, Categories', Cells')
    PROVE  PageInv'
<1>1. Categories' \subseteq Categories /\ Cells' \subseteq Cells
  BY DEF Categories, Cells
<1> DEFINE C == Categories'
           I == Cells'
<1>2. /\ HasAll(grading, opened, C, I) /\ HasNoOther(form, opened, C, I)
      /\ LoadsHave(C, I) /\ PostsHave(C, I)
  <2>1. \A D, J : D \in SUBSET Categories /\ J \in SUBSET Cells =>
            /\ HasAll(grading, opened, D, J) /\ HasNoOther(form, opened, D, J)
            /\ LoadsHave(D, J) /\ PostsHave(D, J)
    BY EntryKeeps
  <2> QED
    BY <1>1, <2>1
<1>3. HasAll(grading', opened', C, I)
  BY <1>2
<1>4. HasNoOther(form', opened', C, I)
  BY <1>2
<1>5. \A l \in 1 .. MaxLoads : loads'[l].pc \in Read => HasAll(loads'[l].saved, opened', C, I)
  BY <1>2 DEF LoadsHave, Read
<1>6. \A p \in 1 .. MaxPosts : posts'[p].pc = "sent" => HasNoOther(posts'[p].content, opened', C, I)
  BY <1>2 DEF PostsHave
<1> QED
  BY <1>3, <1>4, <1>5, <1>6 DEF PageInv, LoadsHave, PostsHave, Read

\* The steps of a load, a superseded one included, keep the invariant: what is shown
\* is made of what was read.
LEMMA LoadSteps ==
    ASSUME PageInv, NEW l \in 1 .. MaxLoads,
           LoadAnswered(l) \/ Selected(l) \/ SelectFails(l) \/ Restored(l) \/ RubricLoaded(l)
    PROVE  PageInv'
<1> USE DEF Read
<1>0. /\ GradingTypeOK /\ grading \in Gradings /\ form \in Gradings /\ loads[l].saved \in Gradings
      /\ HasAll(grading, opened, Categories, Cells) /\ HasNoOther(form, opened, Categories, Cells)
  BY DEF PageInv, GradingTypeOK, LoadStates
<1>1. CASE LoadAnswered(l)
  <2>1. GradingTypeOK'
    BY <1>0, <1>1 DEF LoadAnswered, GradingTypeOK, LoadStates, Displays
  <2>2. Categories' = Categories /\ Cells' = Cells
    BY <1>1 DEF LoadAnswered, Categories, Cells
  <2>3. \A k \in 1 .. MaxLoads : k # l => loads'[k] = loads[k]
    BY <1>0, <1>1 DEF LoadAnswered, GradingTypeOK, LoadStates, Displays
  <2>4. loads'[l].saved = grading
    BY <1>0, <1>1 DEF LoadAnswered, GradingTypeOK, LoadStates, Displays
  <2> QED
    BY <1>0, <1>1, <2>1, <2>2, <2>3, <2>4, StepInv DEF LoadAnswered
<1>2. CASE Selected(l)
  <2>0. loads \in LoadStates
    BY <1>0 DEF GradingTypeOK
  <2>1. GradingTypeOK'
    <3>1. loads' \in LoadStates
      <4>1. CASE loads' = [loads EXCEPT ![l].pc = "config"]
        BY <2>0, <4>1, LoadTypes
      <4>2. ASSUME NEW k \in 1 .. MaxLoads, loads' = [loads EXCEPT ![l].pc = "config", ![k].pc = "sent"]
            PROVE  loads' \in LoadStates
        BY <2>0, <4>2, LoadTypes
      <4> QED
        BY <1>2, <4>1, <4>2 DEF Selected
    <3>2. display' \in Displays
      BY <1>0, <1>2 DEF Selected, GradingTypeOK, LoadStates, Displays
    <3> QED
      BY <1>0, <1>2, <3>1, <3>2 DEF Selected, GradingTypeOK
  <2>2. \A k \in 1 .. MaxLoads : loads'[k].pc \in Read => loads[k].pc \in Read /\ loads'[k].saved = loads[k].saved
    <3>1. CASE loads' = [loads EXCEPT ![l].pc = "config"]
      BY <1>2, <2>0, <3>1 DEF Selected, LoadStates
    <3>2. ASSUME NEW k \in 1 .. MaxLoads, loads' = [loads EXCEPT ![l].pc = "config", ![k].pc = "sent"]
          PROVE  \A j \in 1 .. MaxLoads : loads'[j].pc \in Read => loads[j].pc \in Read /\ loads'[j].saved = loads[j].saved
      <4>1. loads[l].pc \in Read
        BY <1>2 DEF Selected
      <4> QED
        BY <2>0, <3>2, <4>1 DEF LoadStates
    <3> QED
      BY <1>2, <3>1, <3>2 DEF Selected
  <2> QED
    BY <1>2, <2>1, <2>2, StepInv DEF Selected
<1>3. CASE SelectFails(l)
  <2>1. GradingTypeOK'
    BY <1>0, <1>3 DEF SelectFails, GradingTypeOK, LoadStates, Displays
  <2>2. \A k \in 1 .. MaxLoads : loads'[k].pc \in Read => loads[k].pc \in Read /\ loads'[k].saved = loads[k].saved
    BY <1>0, <1>3 DEF SelectFails, GradingTypeOK, LoadStates, Displays
  <2> QED
    BY <1>3, <2>1, <2>2, StepInv DEF SelectFails
<1>4. CASE Restored(l)
  <2>0. HasAll(loads[l].saved, opened, Categories, Cells)
    BY <1>4 DEF PageInv, LoadsHave, Restored
  <2>1. form' \in Gradings /\ form'.feedback = form.feedback /\ form'.dispositions = loads[l].saved.dispositions
    BY <1>0, <1>4, GradingFields, WithFeedback DEF Restored
  <2>2. HasNoOther(form', opened, Categories, Cells)
    BY <1>0, <2>0, <2>1, AllIsNoOther DEF HasNoOther
  <2>3. GradingTypeOK'
    BY <1>0, <1>4, <2>1 DEF Restored, GradingTypeOK, LoadStates, Displays
  <2>4. \A k \in 1 .. MaxLoads : loads'[k].pc \in Read => loads[k].pc \in Read /\ loads'[k].saved = loads[k].saved
    BY <1>0, <1>4 DEF Restored, GradingTypeOK, LoadStates, Displays
  <2>5. Categories' = Categories /\ Cells' = Cells
    BY <1>4 DEF Restored, Categories, Cells
  <2> QED
    BY <1>4, <2>2, <2>3, <2>4, <2>5, StepInv DEF Restored
<1>5. CASE RubricLoaded(l)
  <2>0. HasAll(loads[l].saved, opened, Categories, Cells)
    BY <1>5 DEF PageInv, LoadsHave, RubricLoaded
  <2> DEFINE sel == feedbackToSelections(loads[l].saved.feedback)
  <2>1. sel \in PartialMaps(StoredCategories, SUBSET Ticks) /\ Agrees(sel, opened.feedback, Categories)
    BY <1>0, <2>0, GradingFields, Selections DEF HasAll
  <2>2. form' = form \/ form' = [form EXCEPT !.feedback = sel]
    BY <1>5 DEF RubricLoaded
  <2>3. form' \in Gradings
    <3> HIDE DEF sel
    <3>1. [form EXCEPT !.feedback = sel] \in Gradings
      BY <1>0, <2>1, WithFeedback
    <3> QED
      BY <1>0, <2>2, <3>1
  <2>4. form' = form \/ HasNoOther(form', opened, Categories, Cells)
    <3>1. ASSUME form' = [form EXCEPT !.feedback = sel]
          PROVE  form'.feedback = sel /\ form'.dispositions = form.dispositions
      <4> HIDE DEF sel
      <4> QED
        BY <1>0, <3>1 DEF Gradings
    <3> QED
      BY <1>0, <2>1, <2>2, <3>1 DEF HasNoOther
  <2>5. GradingTypeOK'
    <3>1. NoLoad.saved \in Gradings /\ [NoLoad EXCEPT !.pc = "ended"] \in [pc : {"ended"}, saved : Gradings]
      BY EmptyGrading DEF NoLoad
    <3>2. loads' = [loads EXCEPT ![l] = [NoLoad EXCEPT !.pc = "ended"]]
      BY <1>5 DEF RubricLoaded
    <3>3. loads' \in LoadStates
      BY <1>0, <3>1, <3>2 DEF GradingTypeOK, LoadStates, Displays
    <3>4. display' \in Displays
      BY <1>0, <1>5 DEF RubricLoaded, GradingTypeOK, LoadStates, Displays
    <3> QED
      BY <1>0, <1>5, <2>3, <3>3, <3>4 DEF RubricLoaded, GradingTypeOK
  <2>6. \A k \in 1 .. MaxLoads : loads'[k].pc \in Read => loads[k].pc \in Read /\ loads'[k].saved = loads[k].saved
    BY <1>0, <1>5 DEF RubricLoaded, GradingTypeOK, LoadStates, Displays, NoLoad
  <2>7. Categories' = Categories /\ Cells' = Cells
    BY <1>5 DEF RubricLoaded, Categories, Cells
  <2> HIDE DEF sel
  <2> QED
    BY <1>5, <2>4, <2>5, <2>6, <2>7, StepInv DEF RubricLoaded
<1> QED
  BY <1>1, <1>2, <1>3, <1>4, <1>5

\* A retry after a failed load starts from the same stored grading.
LEMMA TryAgainStep == PageInv /\ TryAgain => PageInv'
<1> SUFFICES ASSUME PageInv, TryAgain PROVE PageInv'
  OBVIOUS
<1>0. /\ loads \in LoadStates
      /\ display \in Displays
  BY DEF PageInv, GradingTypeOK
<1>1. GradingTypeOK'
  <2>1. loads' \in LoadStates
    BY <1>0, LoadTypes DEF TryAgain
  <2>2. display' \in Displays
    BY <1>0 DEF TryAgain, Displays
  <2> QED
    BY <2>1, <2>2 DEF PageInv, TryAgain, GradingTypeOK
<1>2. \A k \in 1 .. MaxLoads : loads'[k].pc \in Read => loads[k].pc \in Read /\ loads'[k].saved = loads[k].saved
  BY <1>0 DEF TryAgain, Read, LoadStates
<1> QED
  BY <1>1, <1>2, StepInv DEF TryAgain

----------------------------------------------------------------------------
\* Entries.  A key that gets another value is one the teacher has entered.

\* An entry that changes the form at keys it takes away only.
LEMMA EntryStep ==
    ASSUME PageInv, NEW where, NEW added, Entered(where, added),
           where \subseteq {"dimensions", "notes"} \cup RubricCategories \cup FixedCells,
           added \subseteq RubricCategories,
           UNCHANGED <<grading, opened, display, loads, posts>>,
           form' \in Gradings,
           HasNoOther(form', opened, Categories \ (where \cup added), Cells \ where)
    PROVE  PageInv'
<1>1. /\ entered'.times \in Nat
      /\ entered'.where = entered.where \cup where /\ entered'.added = entered.added \cup added
  BY DEF Entered, PageInv, GradingTypeOK
<1>2. Categories' = Categories \ (where \cup added) /\ Cells' = Cells \ where
  BY <1>1 DEF Categories, Cells
<1>3. GradingTypeOK'
  BY <1>1 DEF PageInv, GradingTypeOK, LoadStates, PostStates, Displays
<1> QED
  BY <1>1, <1>2, <1>3, StepInv

\* One key written over.
LEMMA SpreadKey ==
    ASSUME NEW S, NEW T, NEW f \in PartialMaps(S, T), NEW g \in PartialMaps(S, T),
           NEW o, NEW K, Agrees(f, o, K)
    PROVE  /\ Spread(f, g) \in PartialMaps(S, T)
           /\ Agrees(Spread(f, g), o, K \ DOMAIN g)
<1>1. Agrees(Spread(f, g), o, K \ DOMAIN g)
  BY DEF Agrees, Spread
<1> QED
  BY <1>1, SpreadMap

\* An entry at one key leaves the map in agreement at all others.
LEMMA ExceptKey ==
    ASSUME NEW S, NEW T, NEW f \in PartialMaps(S, T), NEW k \in DOMAIN f, NEW t \in T,
           NEW o, NEW K, Agrees(f, o, K)
    PROVE  /\ [f EXCEPT ![k] = t] \in PartialMaps(S, T)
           /\ Agrees([f EXCEPT ![k] = t], o, K \ {k})
<1>1. PICK D \in SUBSET S : f \in [D -> T]
  BY DEF PartialMaps
<1>2. [f EXCEPT ![k] = t] \in [D -> T]
  BY <1>1
<1>3. \A x \in D \ {k} : [f EXCEPT ![k] = t][x] = f[x]
  BY <1>1
<1> QED
  BY <1>1, <1>2, <1>3 DEF PartialMaps, Agrees

\* What the teacher enters changes the form where it is entered and nowhere else.
LEMMA EntrySteps ==
    ASSUME PageInv,
           \/ handleUpdateDimension \/ handleNotesInput \/ handleReset
           \/ \E i \in FixedCells, d \in {"accepted", "ignored"} : handleDisposition(i, d)
           \/ \E c \in RubricCategories : \E ticks \in SUBSET Ticks : onSelectionsChange(c, ticks)
           \/ \E c \in RubricCategories, t \in Ticks : handleApplySuggestion(c, t)
    PROVE  PageInv'
<1>0. /\ form \in Gradings /\ Version \in Nat /\ RubricCategories \subseteq StoredCategories
      /\ Agrees(form.feedback, opened.feedback, Categories)
      /\ Agrees(form.dispositions, opened.dispositions, Cells)
  BY GradingPageAssumption DEF PageInv, GradingTypeOK, Version, HasNoOther
<1>f. /\ form.feedback \in PartialMaps(StoredCategories, SUBSET Ticks)
      /\ form.dispositions \in PartialMaps(FixedCells, {"accepted", "ignored"})
  BY <1>0, GradingFields
<1>1. CASE handleUpdateDimension \/ handleNotesInput
  <2>1. PICK where \in SUBSET {"dimensions", "notes"} :
            /\ Entered(where, {}) /\ UNCHANGED <<grading, opened, display, loads, posts>>
            /\ form' = [form EXCEPT !.dimensions = Version] \/ form' = [form EXCEPT !.notes = Version]
    BY <1>1 DEF handleUpdateDimension, handleNotesInput, Enters
  <2>2. form' \in Gradings /\ form'.feedback = form.feedback /\ form'.dispositions = form.dispositions
    BY <1>0, <2>1 DEF Gradings
  <2>3. HasNoOther(form', opened, Categories \ (where \cup {}), Cells \ where)
    BY <1>0, <2>2 DEF HasNoOther, Agrees
  <2> QED
    BY <2>1, <2>2, <2>3, EntryStep
<1>2. CASE handleReset
  <2> DEFINE none == [c \in RubricCategories |-> {}]
             all == {"dimensions", "notes"} \cup RubricCategories \cup FixedCells
  <2>1. none \in PartialMaps(StoredCategories, SUBSET Ticks)
    BY <1>0, ConstantMap
  <2>2. /\ Entered(all, {}) /\ UNCHANGED <<grading, opened, display, loads, posts>>
        /\ form' = [Empty EXCEPT !.feedback = none]
    BY <1>2 DEF handleReset, Enters
  <2>3. form' \in Gradings /\ form'.feedback = none /\ form'.dispositions = None
    <3> HIDE DEF none
    <3> QED
      BY <2>1, <2>2, EmptyGrading, WithFeedback DEF Empty
  <2>4. HasNoOther(form', opened, Categories \ (all \cup {}), Cells \ all)
    BY <2>3 DEF HasNoOther, Agrees, None
  <2> HIDE DEF none
  <2> QED
    BY <2>2, <2>3, <2>4, EntryStep
<1>3. ASSUME NEW i \in FixedCells, NEW d \in {"accepted", "ignored"}, handleDisposition(i, d)
      PROVE  PageInv'
  <2> DEFINE new == Spread(form.dispositions, [x \in {i} |-> d])
  <2>1. new \in PartialMaps(FixedCells, {"accepted", "ignored"}) /\ Agrees(new, opened.dispositions, Cells \ {i})
    <3> DEFINE f == form.dispositions
               o == opened.dispositions
               g == [x \in {i} |-> d]
    <3>1. f \in PartialMaps(FixedCells, {"accepted", "ignored"}) /\ Agrees(f, o, Cells)
      BY <1>0, <1>f
    <3>2. g \in PartialMaps(FixedCells, {"accepted", "ignored"}) /\ DOMAIN g = {i}
      BY ConstantMap
    <3> HIDE DEF f, g, o
    <3>3. /\ Spread(f, g) \in PartialMaps(FixedCells, {"accepted", "ignored"})
          /\ Agrees(Spread(f, g), o, Cells \ DOMAIN g)
      BY <3>1, <3>2, SpreadKey
    <3> QED
      BY <3>2, <3>3 DEF f, g, o
  <2>2. /\ Entered({i}, {}) /\ UNCHANGED <<grading, opened, display, loads, posts>>
        /\ form' = [form EXCEPT !.dispositions = new]
    BY <1>3 DEF handleDisposition, Enters
  <2>3. form' \in Gradings /\ form'.feedback = form.feedback /\ form'.dispositions = new
    <3> HIDE DEF new
    <3> QED
      BY <1>0, <2>1, <2>2 DEF Gradings
  <2>4. HasNoOther(form', opened, Categories \ ({i} \cup {}), Cells \ {i})
    <3>1. Agrees(form.feedback, opened.feedback, Categories \ ({i} \cup {}))
      BY <1>0 DEF Agrees
    <3> QED
      BY <2>1, <2>3, <3>1 DEF HasNoOther
  <2> HIDE DEF new
  <2> QED
    BY <2>2, <2>3, <2>4, EntryStep
<1>4. ASSUME NEW c \in RubricCategories, NEW ticks \in SUBSET Ticks, onSelectionsChange(c, ticks)
      PROVE  PageInv'
  <2> DEFINE new == [form.feedback EXCEPT ![c] = ticks]
  <2>1. c \in DOMAIN form.feedback
    BY <1>4 DEF onSelectionsChange
  <2>2. new \in PartialMaps(StoredCategories, SUBSET Ticks) /\ Agrees(new, opened.feedback, Categories \ {c})
    BY <1>0, <1>f, <2>1, ExceptKey
  <2>3. /\ Entered({c}, {}) /\ UNCHANGED <<grading, opened, display, loads, posts>>
        /\ form' = [form EXCEPT !.feedback = new]
    <3>1. [form EXCEPT !.feedback[c] = ticks] = [form EXCEPT !.feedback = new]
      BY <1>0 DEF Gradings
    <3> HIDE DEF new
    <3> QED
      BY <1>4, <3>1 DEF onSelectionsChange, Enters
  <2>4. form' \in Gradings /\ form'.feedback = new /\ form'.dispositions = form.dispositions
    <3> HIDE DEF new
    <3> QED
      BY <1>0, <2>2, <2>3, WithFeedback
  <2>5. HasNoOther(form', opened, Categories \ ({c} \cup {}), Cells \ {c})
    <3>1. Agrees(form.dispositions, opened.dispositions, Cells \ {c})
      BY <1>0 DEF Agrees
    <3>2. Categories \ ({c} \cup {}) = Categories \ {c}
      OBVIOUS
    <3> HIDE DEF new
    <3> QED
      BY <2>2, <2>4, <3>1, <3>2 DEF HasNoOther
  <2> HIDE DEF new
  <2> QED
    BY <2>3, <2>4, <2>5, EntryStep
<1>5. ASSUME NEW c \in RubricCategories, NEW t \in Ticks, handleApplySuggestion(c, t)
      PROVE  PageInv'
  <2> DEFINE before == IF c \in DOMAIN form.feedback THEN form.feedback[c] ELSE {}
             ticked == before \cup {t}
             new == Spread(form.feedback, [x \in {c} |-> ticked])
  <2>1. ticked \in SUBSET Ticks
    BY <1>f, PartialMap
  <2>2. new \in PartialMaps(StoredCategories, SUBSET Ticks) /\ Agrees(new, opened.feedback, Categories \ {c})
    <3> DEFINE f == form.feedback
               o == opened.feedback
               g == [x \in {c} |-> ticked]
    <3>1. f \in PartialMaps(StoredCategories, SUBSET Ticks) /\ Agrees(f, o, Categories) /\ c \in StoredCategories
      BY <1>0, <1>f
    <3> HIDE DEF ticked
    <3>2. g \in PartialMaps(StoredCategories, SUBSET Ticks) /\ DOMAIN g = {c}
      BY <2>1, <3>1, ConstantMap
    <3> HIDE DEF f, g, o
    <3>3. /\ Spread(f, g) \in PartialMaps(StoredCategories, SUBSET Ticks)
          /\ Agrees(Spread(f, g), o, Categories \ DOMAIN g)
      BY <3>1, <3>2, SpreadKey
    <3> QED
      BY <3>2, <3>3 DEF f, g, o
  <2>3. /\ Entered({"dimensions", "notes"}, {c}) /\ UNCHANGED <<grading, opened, display, loads, posts>>
        /\ form' = [form EXCEPT !.dimensions = Version, !.notes = IF @ = 0 THEN Version ELSE @, !.feedback = new]
    <3>1. form' = [form EXCEPT !.dimensions = Version, !.notes = IF @ = 0 THEN Version ELSE @,
                               !.feedback = Spread(@, [x \in {c} |-> before \cup {t}])]
      BY <1>5 DEF handleApplySuggestion
    <3>2. Entered({"dimensions", "notes"}, {c}) /\ UNCHANGED <<grading, opened, display, loads, posts>>
      BY <1>5 DEF handleApplySuggestion
    <3> QED
      BY <1>0, <3>1, <3>2 DEF Gradings
  <2>4. form' \in Gradings /\ form'.feedback = new /\ form'.dispositions = form.dispositions
    <3> HIDE DEF new
    <3> QED
      BY <1>0, <2>2, <2>3 DEF Gradings
  <2>5. HasNoOther(form', opened, Categories \ ({"dimensions", "notes"} \cup {c}), Cells \ {"dimensions", "notes"})
    <3> HIDE DEF new
    <3> QED
      BY <1>0, <2>2, <2>4 DEF HasNoOther, Agrees
  <2> HIDE DEF new
  <2> QED
    BY <2>3, <2>4, <2>5, EntryStep
<1> QED
  BY <1>1, <1>2, <1>3, <1>4, <1>5

----------------------------------------------------------------------------
\* Posts.  A call sends what has nothing else in its place, where the teacher has
\* entered nothing; storing it spreads that over what has all.

\* What a call is stored with.
LEMMA SavedGrading ==
    ASSUME NEW e \in Gradings, NEW s \in Gradings, NEW kind
    PROVE  /\ Saved(e, kind, s) \in Gradings
           /\ kind = "note" => /\ Saved(e, kind, s).feedback = e.feedback
                               /\ Saved(e, kind, s).dispositions = e.dispositions
           /\ kind # "note" => /\ Saved(e, kind, s).feedback = Spread(e.feedback, s.feedback)
                               /\ Saved(e, kind, s).dispositions = Spread(e.dispositions, s.dispositions)
<1>1. /\ e.notes \in Nat /\ s.notes \in Nat
      /\ e.feedback \in PartialMaps(StoredCategories, SUBSET Ticks)
      /\ s.feedback \in PartialMaps(StoredCategories, SUBSET Ticks)
      /\ e.dispositions \in PartialMaps(FixedCells, {"accepted", "ignored"})
      /\ s.dispositions \in PartialMaps(FixedCells, {"accepted", "ignored"})
  BY GradingFields
<1> DEFINE f == Spread(e.feedback, s.feedback)
           d == Spread(e.dispositions, s.dispositions)
           n == IF kind = "import" /\ s.notes = 0 THEN e.notes ELSE s.notes
<1>2. f \in PartialMaps(StoredCategories, SUBSET Ticks)
  BY <1>1, SpreadMap
<1>3. d \in PartialMaps(FixedCells, {"accepted", "ignored"})
  BY <1>1, SpreadMap
<1>4. CASE kind = "note"
  BY <1>1, <1>4, WithNotes DEF Saved
<1>5. CASE kind # "note"
  <2>1. Saved(e, kind, s) = [s EXCEPT !.feedback = f, !.dispositions = d, !.notes = n]
    BY <1>5 DEF Saved, Gradings
  <2>2. n \in Nat
    BY <1>1
  <2> HIDE DEF f, d, n
  <2>3. Saved(e, kind, s) \in Gradings /\ Saved(e, kind, s).feedback = f /\ Saved(e, kind, s).dispositions = d
    BY <1>2, <1>3, <2>1, <2>2 DEF Gradings
  <2> QED
    BY <1>5, <2>3 DEF f, d
<1> QED
  BY <1>4, <1>5

\* A save spreads what the form has over what is stored, and keeps of it all that the
\* form has nothing to say about.
LEMMA SavedHasAll ==
    ASSUME NEW e \in Gradings, NEW s \in Gradings, NEW kind, NEW o, NEW C, NEW I,
           HasAll(e, o, C, I), HasNoOther(s, o, C, I)
    PROVE  HasAll(Saved(e, kind, s), o, C, I)
<1>1. Holds(Spread(e.feedback, s.feedback), o.feedback, C)
  BY SpreadHolds DEF HasAll, HasNoOther
<1>2. Holds(Spread(e.dispositions, s.dispositions), o.dispositions, I)
  BY SpreadHolds DEF HasAll, HasNoOther
<1> QED
  BY <1>1, <1>2, SavedGrading DEF HasAll

\* A call that is sent, with the entries it is made of.
LEMMA PostStep ==
    ASSUME PageInv, NEW p \in 1 .. MaxPosts, NEW kind \in {"save", "note", "import"},
           NEW content \in Gradings, PostGrading(p, kind, content), GradingTypeOK,
           entered'.times \in Nat, entered'.added = entered.added,
           entered.where \subseteq entered'.where,
           entered'.where \subseteq {"dimensions", "notes"} \cup RubricCategories \cup FixedCells,
           HasNoOther(content, opened, Categories', Cells')
    PROVE  PageInv'
<1>1. posts' = [posts EXCEPT ![p] = [pc |-> "sent", kind |-> kind, content |-> content]]
  BY DEF PostGrading
<1>2. posts \in PostStates
  BY DEF GradingTypeOK
<1>3. posts' \in PostStates
  BY <1>1, <1>2 DEF PostStates
<1>4. GradingTypeOK'
  BY <1>3 DEF PostGrading, GradingTypeOK, LoadStates, Displays
<1>5. \A q \in 1 .. MaxPosts : posts'[q].pc = "sent" =>
          \/ posts[q].pc = "sent" /\ posts'[q].content = posts[q].content
          \/ HasNoOther(posts'[q].content, opened, Categories', Cells')
  BY <1>1, <1>2 DEF PostStates
<1> QED
  BY <1>4, <1>5, StepInv DEF PostGrading

\* A save, a note or an import sends a grading made of the form.
LEMMA Sends ==
    ASSUME PageInv, NEW p \in 1 .. MaxPosts,
           \/ doSaveGrade(p) \/ saveNote(p)
           \/ \E categories \in SUBSET RubricCategories, notes \in BOOLEAN : handleImportFile(p, categories, notes)
    PROVE  PageInv'
<1>0. /\ GradingTypeOK /\ form \in Gradings /\ Version \in Nat /\ RubricCategories \subseteq StoredCategories
      /\ entered.times \in Nat /\ entered.added \subseteq RubricCategories
      /\ entered.where \subseteq {"dimensions", "notes"} \cup RubricCategories \cup FixedCells
      /\ HasNoOther(form, opened, Categories, Cells)
  BY GradingPageAssumption DEF PageInv, GradingTypeOK, Version
<1>1. CASE doSaveGrade(p)
  <2>1. Categories' = Categories /\ Cells' = Cells
    BY <1>1 DEF doSaveGrade, Categories, Cells
  <2> QED
    BY <1>0, <1>1, <2>1, PostStep DEF doSaveGrade
<1>2. CASE saveNote(p)
  <2> DEFINE new == [form EXCEPT !.notes = Version]
  <2>1. new \in Gradings /\ new.feedback = form.feedback /\ new.dispositions = form.dispositions
    BY <1>0, WithNotes
  <2>2. /\ entered'.times = entered.times + 1 /\ entered'.where = entered.where \cup {"notes"}
        /\ entered'.added = entered.added
    BY <1>2 DEF saveNote, Entered
  <2>3. PostGrading(p, "note", new)
    BY <1>2 DEF saveNote
  <2>4. Categories' \subseteq Categories /\ Cells' \subseteq Cells
    BY <2>2 DEF Categories, Cells
  <2>5. HasNoOther(new, opened, Categories', Cells')
    <3> HIDE DEF new
    <3> QED
      BY <1>0, <2>1, <2>4 DEF HasNoOther, Agrees
  <2> HIDE DEF new
  <2> QED
    BY <1>0, <2>1, <2>2, <2>3, <2>5, PostStep
<1>3. ASSUME NEW categories \in SUBSET RubricCategories, NEW notes \in BOOLEAN, handleImportFile(p, categories, notes)
      PROVE  PageInv'
  <2> DEFINE none == [c \in categories |-> {}]
             n == IF notes THEN Version ELSE 0
             new == [Empty EXCEPT !.dimensions = Version, !.notes = n, !.feedback = none]
  <2>1. none \in PartialMaps(StoredCategories, SUBSET Ticks) /\ DOMAIN none = categories
    BY <1>0, ConstantMap
  <2>2. n \in Nat
    BY <1>0
  <2>3. new \in Gradings /\ new.feedback = none /\ new.dispositions = None
    <3> HIDE DEF none, n
    <3> QED
      BY <1>0, <2>1, <2>2, EmptyMap DEF Empty, Gradings
  <2>4. /\ entered'.times = entered.times + 1 /\ entered'.added = entered.added
        /\ entered'.where = entered.where \cup {"dimensions", "notes"} \cup categories
    BY <1>3 DEF handleImportFile, Entered
  <2>5. PostGrading(p, "import", new)
    BY <1>3 DEF handleImportFile
  <2>6. HasNoOther(new, opened, Categories', Cells')
    <3>1. Agrees(new.feedback, opened.feedback, Categories')
      <4> HIDE DEF new, none
      <4> QED
        BY <2>1, <2>3, <2>4 DEF Agrees, Categories
    <3>2. Agrees(new.dispositions, opened.dispositions, Cells')
      <4> HIDE DEF new
      <4> QED
        BY <2>3 DEF Agrees, None
    <3> QED
      BY <3>1, <3>2 DEF HasNoOther
  <2> HIDE DEF new
  <2> QED
    BY <1>0, <2>3, <2>4, <2>5, <2>6, PostStep
<1> QED
  BY <1>1, <1>2, <1>3

\* An answer to a save, or its failure, keeps what was stored or what was sent.
LEMMA Answers ==
    ASSUME PageInv, NEW p \in 1 .. MaxPosts, PostStored(p) \/ Confirmed(p) \/ PostFails(p)
    PROVE  PageInv'
<1>0. /\ GradingTypeOK /\ grading \in Gradings /\ form \in Gradings /\ posts \in PostStates
      /\ posts[p].content \in Gradings
      /\ HasAll(grading, opened, Categories, Cells) /\ HasNoOther(form, opened, Categories, Cells)
  BY DEF PageInv, GradingTypeOK, PostStates
<1>1. UNCHANGED <<opened, display, loads, entered>> /\ Categories' = Categories /\ Cells' = Cells
  BY DEF PostStored, Confirmed, PostFails, Categories, Cells
<1>2. CASE PostStored(p)
  <2> DEFINE new == Saved(grading, posts[p].kind, posts[p].content)
  <2>1. new \in Gradings
    BY <1>0, SavedGrading
  <2>2. HasAll(new, opened, Categories, Cells)
    <3>1. HasNoOther(posts[p].content, opened, Categories, Cells)
      BY <1>2 DEF PageInv, PostsHave, PostStored
    <3> QED
      BY <1>0, <3>1, SavedHasAll
  <2>3. grading' = new /\ form' = form /\ posts' = [posts EXCEPT ![p] = [@ EXCEPT !.pc = "stored", !.content = new]]
    BY <1>2 DEF PostStored
  <2> HIDE DEF new
  <2>4. posts' \in PostStates
    BY <1>0, <2>1, <2>3 DEF PostStates
  <2>5. \A q \in 1 .. MaxPosts : posts'[q].pc = "sent" => posts[q].pc = "sent" /\ posts'[q].content = posts[q].content
    BY <1>0, <2>3 DEF PostStates
  <2>6. GradingTypeOK'
    BY <1>0, <1>1, <2>1, <2>3, <2>4 DEF GradingTypeOK, LoadStates, Displays
  <2> QED
    BY <1>1, <2>2, <2>3, <2>5, <2>6, StepInv
<1>3. CASE Confirmed(p) \/ PostFails(p)
  <2>1. grading' = grading /\ posts' = [posts EXCEPT ![p] = [NoRequest EXCEPT !.pc = "ended"]]
    BY <1>3 DEF Confirmed, PostFails
  <2>2. form' = form \/ form' = [form EXCEPT !.notes = posts[p].content.notes]
    BY <1>3 DEF Confirmed, PostFails
  <2>3. posts[p].content.notes \in Nat
    BY <1>0, GradingFields
  <2>4. form' \in Gradings /\ form'.feedback = form.feedback /\ form'.dispositions = form.dispositions
    BY <1>0, <2>2, <2>3, WithNotes
  <2>5. [NoRequest EXCEPT !.pc = "ended"] \in [pc : {"ended"}, kind : {"save"}, content : Gradings]
    BY EmptyGrading DEF NoRequest
  <2>6. posts' \in PostStates
    BY <1>0, <2>1, <2>5 DEF PostStates
  <2>7. \A q \in 1 .. MaxPosts : posts'[q].pc = "sent" => posts[q].pc = "sent" /\ posts'[q].content = posts[q].content
    BY <1>0, <2>1, <2>5 DEF PostStates
  <2>8. GradingTypeOK'
    BY <1>0, <1>1, <2>1, <2>4, <2>6 DEF GradingTypeOK, LoadStates, Displays
  <2>9. HasNoOther(form', opened, Categories, Cells)
    BY <1>0, <2>4 DEF HasNoOther
  <2> QED
    BY <1>1, <2>1, <2>7, <2>8, <2>9, StepInv
<1> QED
  BY <1>2, <1>3

----------------------------------------------------------------------------
\* Every step of the page and the server keeps the invariant.
LEMMA PageNext == PageInv /\ [GradingNext]_gradingVars => PageInv'
<1> SUFFICES ASSUME PageInv, [GradingNext]_gradingVars PROVE PageInv'
  OBVIOUS
<1>1. ASSUME NEW l \in 1 .. MaxLoads,
             LoadAnswered(l) \/ Selected(l) \/ SelectFails(l) \/ Restored(l) \/ RubricLoaded(l)
      PROVE  PageInv'
  BY <1>1, LoadSteps
<1>2. CASE TryAgain
  BY <1>2, TryAgainStep
<1>3. CASE \/ handleUpdateDimension \/ handleNotesInput \/ handleReset
           \/ \E i \in FixedCells, d \in {"accepted", "ignored"} : handleDisposition(i, d)
           \/ \E c \in RubricCategories : \E ticks \in SUBSET Ticks : onSelectionsChange(c, ticks)
           \/ \E c \in RubricCategories, t \in Ticks : handleApplySuggestion(c, t)
  BY <1>3, EntrySteps
<1>4. ASSUME NEW p \in 1 .. MaxPosts,
             \/ doSaveGrade(p) \/ saveNote(p)
             \/ \E categories \in SUBSET RubricCategories, notes \in BOOLEAN : handleImportFile(p, categories, notes)
      PROVE  PageInv'
  BY <1>4, Sends
<1>5. ASSUME NEW p \in 1 .. MaxPosts, PostStored(p) \/ Confirmed(p) \/ PostFails(p)
      PROVE  PageInv'
  BY <1>5, Answers
<1>6. CASE UNCHANGED gradingVars
  BY <1>6 DEF gradingVars, PageInv, GradingTypeOK, LoadsHave, PostsHave, Categories, Cells,
              LoadStates, PostStates, Displays
<1> QED
  BY <1>1, <1>2, <1>3, <1>4, <1>5, <1>6 DEF GradingNext

\* Whatever is loaded, entered, applied, reset, saved and imported, in any order
\* and with any failures: the ticks and decisions of the grading the page was
\* opened on stay where the teacher has entered nothing (saveGrading's merge, and
\* what the page's fields hold when they are read).
THEOREM UntouchedKeptHolds == GradingSpec => []UntouchedKept
<1>1. PageInv => UntouchedKept
  BY DEF PageInv, UntouchedKept, HasAll, Holds, Categories, Cells
<1> QED
  BY <1>1, PageInit, PageNext, PTL DEF GradingSpec

\* The grading that is stored, the fields and what is under way keep their form.
THEOREM GradingTypes == GradingSpec => []GradingTypeOK
<1>1. PageInv => GradingTypeOK
  BY DEF PageInv
<1> QED
  BY <1>1, PageInit, PageNext, PTL DEF GradingSpec
=============================================================================
