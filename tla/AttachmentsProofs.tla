------------------------- MODULE AttachmentsProofs -------------------------
(* Rows and files agree, and uploads stay within the quota, for any number  *)
(* of tickets, files and workers and any sizes.                             *)
EXTENDS Attachments, Sums, TLAPS

\* Finitely many files, with sizes in bytes
FilesAreFinite == IsFiniteSet(File) /\ \A f \in File : Size(f) \in Nat

\* Files a worker is storing, and files it has seen with their rows committed
Held(w) == IF work[w].at \in {"upload", "import"} THEN work[w].left \union work[w].stored ELSE {}

Seen(w) ==
  IF At(w, "drop") THEN work[w].seen
  ELSE IF work[w].at \in {"imported", "unlink"} THEN work[w].stored
  ELSE IF At(w, "detach") THEN {work[w].file}
  ELSE {}

\* What a step that goes on with a record needs to know of it
Shape(w) ==
  /\ work[w].at \in {"upload", "import"} =>
       /\ work[w] = [at |-> work[w].at, ticket |-> work[w].ticket, left |-> work[w].left,
                     stored |-> work[w].stored, counted |-> work[w].counted]
       /\ work[w].ticket \in Ticket
  /\ At(w, "unlink") => work[w] = [at |-> "unlink", stored |-> work[w].stored]
  /\ work[w].at \in {"drop", "imported"} => work[w].ticket \in Ticket

\* Files being stored have no row yet; files that were seen with a row never get
\* another one.
WorkerOK(w) ==
  /\ Shape(w)
  /\ Held(w) \union Seen(w) \subseteq used
  /\ \A f \in Held(w) : row[f] = Null
  /\ work[w].at \in {"upload", "import"} /\ project => work[w].stored \subseteq disk
  /\ At(w, "unlink") => \A f \in work[w].stored : row[f] = Null
  /\ work[w].at \in {"drop", "imported"} =>
       \A f \in Seen(w) : row[f] # Null => row[f].ticket = work[w].ticket
  /\ At(w, "imported") =>
       /\ ticket[work[w].ticket] # "new"
       /\ \A f \in Seen(w) : row[f] # Null => row[f].source = "GMAIL"
  /\ At(w, "rmtree") => ~project

\* No two workers store one file, and nobody removes what another stores.
Apart == \A v, w \in Worker : v # w => Held(v) \intersect (Held(w) \union Seen(w)) = {}

WorkersOK ==
  /\ work = [w \in Worker |-> work[w]]
  /\ \A w \in Worker : WorkerOK(w)
  /\ Apart

\* Hands that still have to do something about their files; an import whose
\* ticket is there leaves them.
Firm(w) == InHand(w) # {} /\ (At(w, "imported") => ticket[work[w].ticket] # "live")

Settled ==
  \A f \in disk :
    f \in Rows \/ f \in partial \/ f \in orphan \/ \E w \in Worker : f \in InHand(w) /\ Firm(w)

TablesOK ==
  /\ ticket \in [Ticket -> {"new", "live", "deleted"}]
  /\ row \in [File -> Row \union {Null}]
  /\ Rows \union disk \subseteq used
  /\ used \subseteq File
  /\ (\E t \in Ticket : ticket[t] = "live") => project

IInv == TablesOK /\ WorkersOK /\ UploadsHaveFiles /\ Settled

\* What the step of a worker leaves alone
Frame(w) ==
  /\ used \subseteq used'
  /\ project' => project
  /\ \A f \in File \ Held(w) : row'[f] \in {row[f], Null}
  /\ project' => disk \ disk' \subseteq Held(w) \union Seen(w)
  /\ \A t \in Ticket : ticket[t] # "new" => ticket'[t] # "new"
  /\ Held(w)' \subseteq Held(w) \union (File \ used)
  /\ Seen(w)' \subseteq Held(w) \union Seen(w) \union Rows

----------------------------------------------------------------------------
(* Lemmas *)

\* The steps of one worker do not disturb another.
LEMMA Undisturbed ==
  ASSUME IInv, NEW w \in Worker, NEW v \in Worker, v # w, Frame(w), work'[v] = work[v]
  PROVE  WorkerOK(v)'
<1>1. WorkerOK(v) /\ used \subseteq File
  BY DEF IInv, WorkersOK, TablesOK
<1>2. Held(v)' = Held(v) /\ Seen(v)' = Seen(v) /\ Shape(v)'
  BY <1>1 DEF Held, Seen, Shape, At, WorkerOK
<1>3. Held(v) \intersect (Held(w) \union Seen(w)) = {} /\ Held(w) \intersect Seen(v) = {}
  BY DEF IInv, WorkersOK, Apart
<1>4. Held(v) \union Seen(v) \subseteq File
  BY <1>1 DEF WorkerOK
<1>5. \A f \in Held(v) : row'[f] = Null
  BY <1>1, <1>3, <1>4 DEF WorkerOK, Frame
<1>6. \A f \in Seen(v) : row'[f] \in {row[f], Null}
  BY <1>3, <1>4 DEF Frame
<1>7. work[v].at \in {"upload", "import"} /\ project' => work[v].stored \subseteq disk'
  BY <1>1, <1>3 DEF WorkerOK, Frame, Held
<1>8. At(v, "unlink") => \A f \in work[v].stored : row'[f] = Null
  BY <1>1, <1>6 DEF WorkerOK, Seen, At
<1>9. /\ work[v].at \in {"drop", "imported"} =>
           \A f \in Seen(v) : row'[f] # Null => row'[f].ticket = work[v].ticket
      /\ At(v, "imported") =>
           /\ ticket'[work[v].ticket] # "new"
           /\ \A f \in Seen(v) : row'[f] # Null => row'[f].source = "GMAIL"
  BY <1>1, <1>6 DEF WorkerOK, Shape, Frame, At
<1>10. At(v, "rmtree") => ~project'
  BY <1>1 DEF WorkerOK, Frame
<1> QED
  BY <1>1, <1>2, <1>5, <1>7, <1>8, <1>9, <1>10 DEF WorkerOK, Frame, At

LEMMA Proceed ==
  ASSUME IInv, NEW w \in Worker, NEW there, Goto(w, there), Frame(w), WorkerOK(w)'
  PROVE  WorkersOK'
<1>1. /\ work' = [v \in Worker |-> work'[v]]
      /\ \A v \in Worker \ {w} : work'[v] = work[v]
  BY DEF Goto, IInv, WorkersOK
<1>2. \A v \in Worker : WorkerOK(v)'
  BY <1>1, Undisturbed
<1>3. \A v \in Worker \ {w} : Held(v)' = Held(v) /\ Seen(v)' = Seen(v)
  BY <1>1 DEF Held, Seen, At
<1>4. \A v \in Worker : Held(v) \union Seen(v) \subseteq used /\ \A f \in Held(v) : f \notin Rows
  BY DEF IInv, WorkersOK, WorkerOK, Rows
<1>5. ASSUME NEW v \in Worker \ {w}
      PROVE  /\ Held(v) \intersect (Held(w)' \union Seen(w)') = {}
             /\ Held(w)' \intersect (Held(v) \union Seen(v)) = {}
  <2>1. /\ Held(v) \intersect (Held(w) \union Seen(w)) = {}
        /\ Held(w) \intersect (Held(v) \union Seen(v)) = {}
    BY DEF IInv, WorkersOK, Apart
  <2> QED
    BY <1>4, <2>1 DEF Frame
<1>6. Apart'
  <2> SUFFICES ASSUME NEW u \in Worker, NEW v \in Worker, u # v
               PROVE  Held(u)' \intersect (Held(v)' \union Seen(v)') = {}
    BY DEF Apart
  <2>1. CASE u # w /\ v # w
    BY <1>3, <2>1 DEF IInv, WorkersOK, Apart
  <2>2. CASE u = w
    BY <1>3, <1>5, <2>2
  <2>3. CASE v = w
    BY <1>3, <1>5, <2>3
  <2> QED
    BY <2>1, <2>2, <2>3
<1> QED
  BY <1>1, <1>2, <1>6 DEF WorkersOK

\* A worker that is done holds nothing.
LEMMA IdleOK ==
  ASSUME IInv, NEW w \in Worker, Finish(w)
  PROVE  /\ work'[w] = Idle /\ Held(w)' = {} /\ Seen(w)' = {} /\ InHand(w)' = {}
         /\ WorkerOK(w)'
<1>1. work'[w] = Idle /\ Idle.at = "idle"
  BY DEF Finish, Goto, IInv, WorkersOK, Idle
<1>2. Held(w)' = {} /\ Seen(w)' = {} /\ InHand(w)' = {} /\ Shape(w)'
  BY <1>1 DEF Held, Seen, InHand, Shape, At
<1> QED
  BY <1>1, <1>2 DEF WorkerOK, At

\* Where a file is held that has neither a row nor a history.
LEMMA Holder ==
  ASSUME IInv, NEW f \in disk, f \notin Rows, f \notin partial, f \notin orphan
  PROVE  \E w \in Worker : f \in InHand(w) /\ Firm(w)
BY DEF IInv, Settled

\* The other workers go on holding what they hold.
LEMMA OthersHold ==
  ASSUME IInv, NEW w \in Worker, NEW there, Goto(w, there), NEW v \in Worker \ {w}, NEW f,
         f \in InHand(v), Firm(v),
         \A t \in Ticket : ticket[t] \notin {"new", "live"} => ticket'[t] # "live"
  PROVE  f \in InHand(v)' /\ Firm(v)'
<1>1. work'[v] = work[v]
  BY DEF Goto, IInv, WorkersOK
<1>2. InHand(v)' = InHand(v)
  BY <1>1 DEF InHand, At
<1>3. ASSUME At(v, "imported")
      PROVE  ticket'[work[v].ticket] # "live"
  BY <1>3 DEF IInv, WorkersOK, WorkerOK, Shape, Firm, At
<1> QED
  BY <1>1, <1>2, <1>3 DEF Firm, At

\* Of the files a worker has stored, or is about to remove, only those of imported
\* mail can have rows.
LEMMA StoredIsNoUpload ==
  ASSUME IInv, NEW w \in Worker, work[w].at \in {"upload", "import", "imported", "unlink"},
         NEW f \in work[w].stored, f \in Rows
  PROVE  row[f].source = "GMAIL"
BY DEF IInv, WorkersOK, WorkerOK, Held, Seen, Rows, At

----------------------------------------------------------------------------
(* The inductive invariant *)

\* A worker removes files of its own, none of which is an upload's with a row, and
\* may leave a part of one it was writing. It answers for those it keeps.
LEMMA RemoveStep ==
  ASSUME IInv, NEW w \in Worker, work[w].at \in {"upload", "import", "imported", "unlink"},
         NEW S \in SUBSET work[w].stored, NEW part \in SUBSET Held(w),
         NEW there, Goto(w, there), WorkerOK(w)',
         Held(w)' \subseteq Held(w), Seen(w)' \subseteq Seen(w),
         disk' = (disk \ S) \union part, UNCHANGED <<tables, used>>,
         partial' = partial \union part, orphan \subseteq orphan',
         \A f \in work[w].stored \ S : f \in Rows \/ f \in orphan' \/ (f \in InHand(w)' /\ Firm(w)')
  PROVE  IInv'
<1>1. \A f \in S \intersect Rows : row[f].source = "GMAIL"
  BY StoredIsNoUpload
<1>2. S \subseteq Held(w) \union Seen(w)
  BY DEF Held, Seen, At
<1>3. Frame(w)
  BY <1>2 DEF Frame, tables
<1>4. WorkersOK'
  BY <1>3, Proceed
<1>5. TablesOK'
  <2>1. part \subseteq used
    BY DEF IInv, WorkersOK, WorkerOK
  <2> QED
    BY <2>1 DEF IInv, TablesOK, tables, Rows
<1>6. UploadsHaveFiles'
  BY <1>1 DEF IInv, UploadsHaveFiles, Rows, tables
<1>7. Settled'
  <2> SUFFICES ASSUME NEW f \in disk, f \notin S, f \notin Rows, f \notin partial, f \notin orphan'
               PROVE  \E v \in Worker : f \in InHand(v)' /\ Firm(v)'
    BY DEF Settled, tables, Rows
  <2>1. PICK v \in Worker : f \in InHand(v) /\ Firm(v)
    BY Holder
  <2>2. CASE v = w
    BY <2>1, <2>2 DEF InHand, At
  <2>3. CASE v # w
    BY <2>1, <2>3, OthersHold DEF tables
  <2> QED
    BY <2>2, <2>3
<1> QED
  BY <1>4, <1>5, <1>6, <1>7 DEF IInv

LEMMA DiscardStep ==
  ASSUME IInv, NEW w \in Worker, NEW part \in SUBSET Held(w), Discard(w, part),
         UNCHANGED <<tables, used>>, work[w].at \in {"upload", "import", "imported"}
  PROVE  IInv'
<1>1. PICK kept \in SUBSET work[w].stored :
        /\ disk' = (disk \ (work[w].stored \ kept)) \union part
        /\ orphan' = orphan \union (kept \ Rows)
  BY DEF Discard, Discarded
<1>2. Finish(w) /\ partial' = partial \union part
  BY DEF Discard
<1>3. Held(w)' = {} /\ Seen(w)' = {} /\ WorkerOK(w)'
  BY <1>2, IdleOK
<1> DEFINE S == work[w].stored \ kept
<1>4. /\ S \in SUBSET work[w].stored /\ disk' = (disk \ S) \union part /\ orphan \subseteq orphan'
      /\ \A f \in work[w].stored \ S : f \in Rows \/ f \in orphan'
  BY <1>1
<1> HIDE DEF S
<1> QED
  BY <1>2, <1>3, <1>4, RemoveStep DEF Finish

\* A worker goes on and leaves the rows and the disk alone.
LEMMA QuietStep ==
  ASSUME IInv, NEW w \in Worker, NEW there, Goto(w, there), WorkerOK(w)', Frame(w),
         UNCHANGED <<tables, disk, partial, orphan>>, used' \subseteq File,
         InHand(w) \subseteq InHand(w)' \/ ~Firm(w),
         Firm(w) => Firm(w)'
  PROVE  IInv'
<1>1. WorkersOK'
  BY Proceed
<1>2. TablesOK' /\ UploadsHaveFiles'
  BY DEF IInv, TablesOK, UploadsHaveFiles, Rows, tables, Frame
<1>3. Settled'
  <2> SUFFICES ASSUME NEW f \in disk, f \notin Rows, f \notin partial, f \notin orphan
               PROVE  \E v \in Worker : f \in InHand(v)' /\ Firm(v)'
    BY DEF Settled, tables, Rows
  <2>1. PICK v \in Worker : f \in InHand(v) /\ Firm(v)
    BY Holder
  <2>2. CASE v = w
    BY <2>1, <2>2
  <2>3. CASE v # w
    BY <2>1, <2>3, OthersHold DEF tables
  <2> QED
    BY <2>2, <2>3
<1> QED
  BY <1>1, <1>2, <1>3 DEF IInv

LEMMA BeginSteps ==
  ASSUME IInv, NEW w \in Worker, Upload(w) \/ Import(w)
  PROVE  IInv'
<1>1. PICK kind \in {"upload", "import"}, t \in Ticket, F \in SUBSET (File \ used) :
        /\ used' = used \union F
        /\ Goto(w, [at |-> kind, ticket |-> t, left |-> F, stored |-> {},
                    counted |-> Usage(Rows)])
  BY DEF Upload, Import
<1> DEFINE there == [at |-> kind, ticket |-> t, left |-> F, stored |-> {},
                     counted |-> Usage(Rows)]
<1>2. work[w] = Idle /\ Idle.at = "idle" /\ UNCHANGED <<tables, disk, partial, orphan>>
  BY DEF Upload, Import, Idle
<1>3. work'[w] = there
  BY <1>1 DEF Goto, IInv, WorkersOK
<1>4. /\ there.at = kind /\ there.ticket = t /\ there.left = F /\ there.stored = {}
      /\ there = [at |-> there.at, ticket |-> there.ticket, left |-> there.left,
                  stored |-> there.stored, counted |-> there.counted]
  OBVIOUS
<1>5. Goto(w, there)
  BY <1>1
<1> HIDE DEF there
<1>6. Held(w) = {} /\ Seen(w) = {} /\ InHand(w) = {}
  BY <1>2 DEF Held, Seen, InHand, At
<1>7. Held(w)' = F /\ Seen(w)' = {}
  BY <1>3, <1>4 DEF Held, Seen, At
<1>8. \A f \in F : row'[f] = Null
  BY <1>2 DEF IInv, UploadsHaveFiles, Rows, TablesOK, tables
<1>9. WorkerOK(w)'
  BY <1>1, <1>3, <1>4, <1>7, <1>8 DEF WorkerOK, Shape, At
<1>10. Frame(w)
  BY <1>1, <1>2, <1>7 DEF Frame, tables
<1> QED
  BY <1>1, <1>2, <1>5, <1>6, <1>9, <1>10, QuietStep DEF IInv, TablesOK, Firm

LEMMA StoreSteps ==
  ASSUME IInv, NEW w \in Worker, StoreUpload(w) \/ StoreImport(w)
  PROVE  IInv'
<1> DEFINE c == work[w]
<1>1. /\ c.at \in {"upload", "import"} /\ UNCHANGED <<tables, used>>
      /\ WorkerOK(w)
      /\ c = [at |-> c.at, ticket |-> c.ticket, left |-> c.left, stored |-> c.stored,
              counted |-> c.counted]
      /\ c.ticket \in Ticket
  <2>1. c.at \in {"upload", "import"} /\ UNCHANGED <<tables, used>>
    BY DEF StoreUpload, StoreImport, At
  <2>2. WorkerOK(w)
    BY DEF IInv, WorkersOK
  <2> QED
    BY <2>1, <2>2 DEF WorkerOK, Shape
<1>2. PICK f \in c.left :
        \/ Discard(w, {})
        \/ Goto(w, [c EXCEPT !.left = @ \ {f}]) /\ UNCHANGED <<disk, partial, orphan>>
        \/ /\ disk' = disk \union {f} /\ UNCHANGED <<partial, orphan>>
           /\ Goto(w, [c EXCEPT !.left = @ \ {f}, !.stored = @ \union {f},
                                !.counted = @ + Size(f)])
  BY DEF StoreUpload, StoreImport
<1>held. /\ Held(w) = c.left \union c.stored /\ Seen(w) = {} /\ InHand(w) = c.stored
         /\ (InHand(w) # {} => Firm(w)) /\ f \in used /\ used \subseteq File
  BY <1>1 DEF Held, Seen, InHand, Firm, At, WorkerOK, IInv, TablesOK
<1>3. CASE Discard(w, {})
  BY <1>1, <1>3, DiscardStep
<1>4. CASE Goto(w, [c EXCEPT !.left = @ \ {f}]) /\ UNCHANGED <<disk, partial, orphan>>
  <2> DEFINE there == [at |-> c.at, ticket |-> c.ticket, left |-> c.left \ {f},
                       stored |-> c.stored, counted |-> c.counted]
  <2>1. there = [c EXCEPT !.left = @ \ {f}]
    BY <1>1
  <2>2. /\ there.at = c.at /\ there.ticket = c.ticket /\ there.left = c.left \ {f}
        /\ there.stored = c.stored
        /\ there = [at |-> there.at, ticket |-> there.ticket, left |-> there.left,
                    stored |-> there.stored, counted |-> there.counted]
    OBVIOUS
  <2>3. Goto(w, there)
    BY <1>4, <2>1
  <2> HIDE DEF there
  <2>4. work'[w] = there
    BY <2>3 DEF Goto, IInv, WorkersOK
  <2>5. Held(w)' = (c.left \ {f}) \union c.stored /\ Seen(w)' = {} /\ InHand(w)' = c.stored
    BY <1>1, <2>2, <2>4 DEF Held, Seen, InHand, At
  <2>6. WorkerOK(w)'
    BY <1>1, <1>held, <1>4, <2>2, <2>4, <2>5 DEF WorkerOK, Shape, At, tables
  <2>7. Frame(w)
    BY <1>1, <1>held, <1>4, <2>5 DEF Frame, tables
  <2>8. Firm(w) => Firm(w)'
    BY <1>1, <1>held, <2>2, <2>4, <2>5 DEF Firm, At
  <2> QED
    BY <1>1, <1>held, <1>4, <2>3, <2>5, <2>6, <2>7, <2>8, QuietStep
<1>5. CASE /\ disk' = disk \union {f} /\ UNCHANGED <<partial, orphan>>
           /\ Goto(w, [c EXCEPT !.left = @ \ {f}, !.stored = @ \union {f},
                                !.counted = @ + Size(f)])
  <2> DEFINE there == [at |-> c.at, ticket |-> c.ticket, left |-> c.left \ {f},
                       stored |-> c.stored \union {f}, counted |-> c.counted + Size(f)]
  <2>1. there = [c EXCEPT !.left = @ \ {f}, !.stored = @ \union {f}, !.counted = @ + Size(f)]
    <3>1. c = [at |-> c.at, ticket |-> c.ticket, left |-> c.left, stored |-> c.stored,
               counted |-> c.counted]
      BY <1>1
    <3> DEFINE left == c.left \ {f}
               stored == c.stored \union {f}
               counted == c.counted + Size(f)
               c1 == [c EXCEPT !.left = left]
               c2 == [c1 EXCEPT !.stored = stored]
               c3 == [c2 EXCEPT !.counted = counted]
    <3>2. [c EXCEPT !.left = @ \ {f}, !.stored = @ \union {f}, !.counted = @ + Size(f)] = c3
      OBVIOUS
    <3>3. there = [at |-> c.at, ticket |-> c.ticket, left |-> left, stored |-> stored,
                   counted |-> counted]
      OBVIOUS
    <3> HIDE DEF c, left, stored, counted, there
    <3>4. c1 = [at |-> c.at, ticket |-> c.ticket, left |-> left, stored |-> c.stored,
                counted |-> c.counted]
      BY <3>1
    <3> HIDE DEF c1
    <3>5. c2 = [at |-> c.at, ticket |-> c.ticket, left |-> left, stored |-> stored,
                counted |-> c.counted]
      BY <3>4
    <3> HIDE DEF c2
    <3>6. c3 = [at |-> c.at, ticket |-> c.ticket, left |-> left, stored |-> stored,
                counted |-> counted]
      BY <3>5
    <3> HIDE DEF c3
    <3> QED
      BY <3>2, <3>3, <3>6
  <2>2. /\ there.at = c.at /\ there.ticket = c.ticket /\ there.left = c.left \ {f}
        /\ there.stored = c.stored \union {f}
        /\ there = [at |-> there.at, ticket |-> there.ticket, left |-> there.left,
                    stored |-> there.stored, counted |-> there.counted]
    OBVIOUS
  <2>3. Goto(w, there)
    BY <1>5, <2>1
  <2> HIDE DEF there
  <2>4. work'[w] = there
    BY <2>3 DEF Goto, IInv, WorkersOK
  <2>5. /\ Held(w)' = c.left \union c.stored /\ Seen(w)' = {}
        /\ InHand(w)' = c.stored \union {f} /\ Firm(w)'
    <3>1. Held(w)' = c.left \union c.stored /\ Seen(w)' = {}
      BY <1>1, <2>2, <2>4 DEF Held, Seen, At
    <3>2. InHand(w)' = c.stored \union {f}
      BY <1>1, <2>2, <2>4 DEF InHand, At
    <3> QED
      BY <1>1, <2>2, <2>4, <3>1, <3>2 DEF Firm, At
  <2>6. WorkerOK(w)'
    BY <1>1, <1>held, <1>5, <2>2, <2>4, <2>5 DEF WorkerOK, Shape, At, tables
  <2>7. Frame(w)
    BY <1>1, <1>held, <1>5, <2>5 DEF Frame, tables
  <2>8. WorkersOK'
    BY <2>3, <2>6, <2>7, Proceed
  <2>9. TablesOK' /\ UploadsHaveFiles'
    BY <1>1, <1>held, <1>5 DEF IInv, TablesOK, UploadsHaveFiles, Rows, tables
  <2>10. Settled'
    <3> SUFFICES ASSUME NEW g \in disk \union {f}, g \notin Rows, g \notin partial, g \notin orphan
                 PROVE  \E v \in Worker : g \in InHand(v)' /\ Firm(v)'
      BY <1>1, <1>5 DEF Settled, tables, Rows
    <3>1. CASE g = f
      BY <2>5, <3>1
    <3>2. CASE g # f
      <4>1. PICK v \in Worker : g \in InHand(v) /\ Firm(v)
        BY <3>2, Holder
      <4>2. CASE v = w
        BY <1>held, <2>5, <4>1, <4>2
      <4>3. CASE v # w
        BY <1>1, <2>3, <4>1, <4>3, OthersHold DEF tables
      <4> QED
        BY <4>2, <4>3
    <3> QED
      BY <3>1, <3>2
  <2> QED
    BY <2>8, <2>9, <2>10 DEF IInv
<1> QED
  BY <1>2, <1>3, <1>4, <1>5

\* The rows of a worker's files, added to a ticket
LEMMA Recorded ==
  ASSUME IInv, NEW w \in Worker, work[w].at \in {"upload", "import"}, work[w].left = {},
         NEW source \in {"UPLOAD", "GMAIL"}, Record(w, source)
  PROVE  LET S == work[w].stored IN
         /\ S \subseteq used /\ S \subseteq File
         /\ Held(w) = S /\ Seen(w) = {} /\ InHand(w) = S
         /\ row' \in [File -> Row \union {Null}]
         /\ \A f \in File \ S : row'[f] = row[f]
         /\ \A f \in S :
              row'[f] \in Row /\ row'[f].ticket = work[w].ticket /\ row'[f].source = source
         /\ project => S \subseteq disk
<1>1. WorkerOK(w) /\ used \subseteq File /\ row \in [File -> Row \union {Null}]
  BY DEF IInv, WorkersOK, TablesOK
<1>2. /\ Held(w) = work[w].stored /\ Seen(w) = {} /\ InHand(w) = work[w].stored
      /\ work[w].ticket \in Ticket
  BY <1>1 DEF Held, Seen, InHand, At, WorkerOK, Shape
<1>3. [ticket |-> work[w].ticket, source |-> source] \in Row
  BY <1>2 DEF Row
<1> QED
  BY <1>1, <1>2, <1>3 DEF Record, WorkerOK

LEMMA CommitUploadStep ==
  ASSUME IInv, Null \notin Row, NEW w \in Worker, CommitUpload(w)
  PROVE  IInv'
<1> DEFINE S == work[w].stored
<1>1. /\ S \subseteq used /\ S \subseteq File
      /\ Held(w) = S /\ Seen(w) = {} /\ InHand(w) = S
      /\ row' \in [File -> Row \union {Null}]
      /\ \A f \in File \ S : row'[f] = row[f]
      /\ \A f \in S : row'[f] # Null /\ row'[f].ticket = work[w].ticket
      /\ project => S \subseteq disk
  <2>1. work[w].at \in {"upload", "import"} /\ work[w].left = {} /\ Record(w, "UPLOAD")
    BY DEF CommitUpload, At
  <2>2. \A f \in S : row'[f] # Null
    BY <2>1, Recorded
  <2> QED
    BY <2>1, <2>2, Recorded
<1>2. /\ ticket[work[w].ticket] = "live" /\ Finish(w)
      /\ UNCHANGED <<project, ticket, disk, used, partial, orphan>>
  BY DEF CommitUpload, files
<1>3. /\ Held(w)' = {} /\ Seen(w)' = {} /\ InHand(w)' = {} /\ WorkerOK(w)'
  BY <1>2, IdleOK
<1>4. project /\ work[w].ticket \in Ticket
  <2>1. WorkerOK(w)
    BY DEF IInv, WorkersOK
  <2>2. work[w].ticket \in Ticket
    BY <2>1 DEF WorkerOK, Shape, CommitUpload, At
  <2> QED
    BY <1>2, <2>2 DEF IInv, TablesOK
<1>5. Frame(w)
  BY <1>1, <1>2, <1>3 DEF Frame
<1>6. WorkersOK'
  BY <1>2, <1>3, <1>5, Proceed DEF Finish
<1>7. TablesOK'
  BY <1>1, <1>2 DEF IInv, TablesOK, Rows
<1>8. UploadsHaveFiles'
  BY <1>1, <1>2, <1>4 DEF IInv, UploadsHaveFiles, Rows
<1>9. Settled'
  <2> SUFFICES ASSUME NEW f \in disk, f \notin Rows', f \notin partial, f \notin orphan
               PROVE  \E v \in Worker : f \in InHand(v)' /\ Firm(v)'
    BY <1>2 DEF Settled
  <2>1. f \in File /\ f \notin S /\ f \notin Rows
    BY <1>1 DEF Rows, IInv, TablesOK
  <2>2. PICK v \in Worker : f \in InHand(v) /\ Firm(v)
    BY <2>1, Holder
  <2>3. v # w
    BY <1>1, <2>1, <2>2
  <2> QED
    BY <1>2, <2>2, <2>3, OthersHold DEF Finish
<1> QED
  BY <1>6, <1>7, <1>8, <1>9 DEF IInv

LEMMA CommitImportStep ==
  ASSUME IInv, Null \notin Row, NEW w \in Worker, CommitImport(w)
  PROVE  IInv'
<1> DEFINE S == work[w].stored
           t == work[w].ticket
           there == [at |-> "imported", ticket |-> t, stored |-> S]
<1>0. WorkerOK(w) /\ t \in Ticket
  <2>1. WorkerOK(w)
    BY DEF IInv, WorkersOK
  <2> QED
    BY <2>1 DEF WorkerOK, Shape, CommitImport, At
<1>1. /\ S \subseteq used /\ S \subseteq File
      /\ Held(w) = S /\ Seen(w) = {} /\ InHand(w) = S
      /\ row' \in [File -> Row \union {Null}]
      /\ \A f \in File \ S : row'[f] = row[f]
      /\ \A f \in S : row'[f] # Null /\ row'[f].ticket = t /\ row'[f].source = "GMAIL"
      /\ project => S \subseteq disk
  <2>1. work[w].at \in {"upload", "import"} /\ work[w].left = {} /\ Record(w, "GMAIL")
    BY DEF CommitImport, At
  <2>2. \A f \in S : row'[f] # Null
    BY <2>1, Recorded
  <2> QED
    BY <2>1, <2>2, Recorded
<1>2. /\ ticket[t] = "new" /\ ticket' = [ticket EXCEPT ![t] = "live"] /\ Goto(w, there)
      /\ project /\ UNCHANGED <<project, disk, used, partial, orphan>>
  BY DEF CommitImport, files
<1>3. there.at = "imported" /\ there.ticket = t /\ there.stored = S
  OBVIOUS
<1> HIDE DEF there
<1>4. work'[w] = there
  BY <1>2 DEF Goto, IInv, WorkersOK
<1>5. Held(w)' = {} /\ Seen(w)' = S /\ Shape(w)'
  BY <1>0, <1>3, <1>4 DEF Held, Seen, Shape, At
<1>6. ticket'[t] = "live" /\ \A u \in Ticket \ {t} : ticket'[u] = ticket[u]
  BY <1>0, <1>2 DEF IInv, TablesOK
<1>7. WorkerOK(w)'
  BY <1>1, <1>2, <1>3, <1>4, <1>5, <1>6 DEF WorkerOK, At
<1>8. Frame(w)
  BY <1>0, <1>1, <1>2, <1>5, <1>6 DEF Frame
<1>9. WorkersOK'
  BY <1>2, <1>7, <1>8, Proceed
<1>10. TablesOK'
  BY <1>1, <1>2, <1>6 DEF IInv, TablesOK, Rows
<1>11. UploadsHaveFiles'
  <2> SUFFICES ASSUME NEW f \in Rows'
               PROVE  ticket'[row'[f].ticket] = "live" /\ (row'[f].source = "UPLOAD" => f \in disk)
    BY <1>2 DEF UploadsHaveFiles
  <2>1. CASE f \in S
    BY <1>1, <1>2, <1>6, <2>1
  <2>2. CASE f \notin S
    <3>1. f \in Rows /\ row'[f] = row[f] /\ row[f] \in Row
      BY <1>1, <2>2 DEF Rows, IInv, TablesOK
    <3>2. /\ row[f].source = "UPLOAD" => f \in disk
          /\ ticket[row[f].ticket] = "live" /\ row[f].ticket \in Ticket
      BY <3>1 DEF IInv, UploadsHaveFiles, Row
    <3> QED
      BY <1>6, <3>1, <3>2
  <2> QED
    BY <2>1, <2>2
<1>12. Settled'
  <2> SUFFICES ASSUME NEW f \in disk, f \notin Rows', f \notin partial, f \notin orphan
               PROVE  \E v \in Worker : f \in InHand(v)' /\ Firm(v)'
    BY <1>2 DEF Settled
  <2>1. f \in File /\ f \notin S /\ f \notin Rows
    BY <1>1 DEF Rows, IInv, TablesOK
  <2>2. PICK v \in Worker : f \in InHand(v) /\ Firm(v)
    BY <2>1, Holder
  <2>3. v # w
    BY <1>1, <2>1, <2>2
  <2> QED
    BY <1>2, <1>6, <2>2, <2>3, OthersHold
<1> QED
  BY <1>9, <1>10, <1>11, <1>12 DEF IInv

LEMMA StopSteps ==
  ASSUME IInv, NEW w \in Worker,
         \/ Fail(w) \/ WriteFails(w) \/ RejectUpload(w) \/ RejectImport(w)
         \/ Refreshed(w) \/ Interrupted(w)
  PROVE  IInv'
<1>1. CASE Fail(w) \/ RejectUpload(w) \/ RejectImport(w) \/ Interrupted(w)
  <2>1. /\ Discard(w, {}) /\ UNCHANGED <<tables, used>>
        /\ work[w].at \in {"upload", "import", "imported"}
    BY <1>1 DEF Fail, RejectUpload, RejectImport, Interrupted, At
  <2> QED
    BY <2>1, DiscardStep
<1>2. CASE WriteFails(w)
  <2>1. PICK f \in work[w].left : Discard(w, {f})
    BY <1>2 DEF WriteFails
  <2>2. {f} \in SUBSET Held(w)
    BY <1>2 DEF WriteFails, Held
  <2> QED
    BY <1>2, <2>1, <2>2, DiscardStep DEF WriteFails
<1>3. CASE Refreshed(w)
  <2>1. At(w, "imported") /\ Finish(w) /\ UNCHANGED <<tables, disk, used, partial, orphan>>
    BY <1>3 DEF Refreshed, files
  <2>2. Held(w)' = {} /\ Seen(w)' = {} /\ WorkerOK(w)'
    BY <2>1, IdleOK
  <2>3. Frame(w)
    BY <2>1, <2>2 DEF Frame, tables
  <2>4. ~Firm(w)
    BY <1>3, <2>1 DEF Firm, Refreshed
  <2> QED
    BY <2>1, <2>2, <2>3, <2>4, QuietStep DEF Finish, IInv, TablesOK
<1> QED
  BY <1>1, <1>2, <1>3

LEMMA LookSteps ==
  ASSUME IInv, NEW w \in Worker, Detach(w) \/ DropTicket(w)
  PROVE  IInv'
<1>1. work[w] = Idle /\ Idle.at = "idle" /\ UNCHANGED <<tables, disk, used, partial, orphan>>
  BY DEF Detach, DropTicket, Idle, files
<1>2. /\ Held(w) = {} /\ InHand(w) = {} /\ Rows \subseteq used /\ used \subseteq File
      /\ UNCHANGED Rows
  BY <1>1 DEF Held, InHand, At, IInv, TablesOK, UploadsHaveFiles, tables, Rows
<1>3. ASSUME NEW there, Goto(w, there), WorkerOK(w)', Held(w)' = {}, Seen(w)' \subseteq Rows
      PROVE  IInv'
  <2>1. Frame(w)
    BY <1>1, <1>3 DEF Frame, tables
  <2>2. ~Firm(w)
    BY <1>2 DEF Firm
  <2> QED
    BY <1>1, <1>2, <1>3, <2>1, <2>2, QuietStep
<1>4. CASE Detach(w)
  <2>1. PICK f \in Rows : Goto(w, [at |-> "detach", file |-> f])
    BY <1>4 DEF Detach
  <2> DEFINE there == [at |-> "detach", file |-> f]
  <2>2. there.at = "detach" /\ there.file = f /\ Goto(w, there)
    BY <2>1
  <2> HIDE DEF there
  <2>3. work'[w] = there
    BY <2>2 DEF Goto, IInv, WorkersOK
  <2>4. Held(w)' = {} /\ Seen(w)' = {f} /\ Shape(w)'
    BY <2>2, <2>3 DEF Held, Seen, Shape, At
  <2>5. WorkerOK(w)'
    BY <1>1, <1>2, <2>2, <2>3, <2>4 DEF WorkerOK, At
  <2> QED
    BY <1>3, <2>2, <2>4, <2>5
<1>5. CASE DropTicket(w)
  <2>1. PICK t \in Ticket :
          Goto(w, [at |-> "drop", ticket |-> t, seen |-> {f \in Rows : row[f].ticket = t}])
    BY <1>5 DEF DropTicket
  <2> DEFINE mine == {f \in Rows : row[f].ticket = t}
             there == [at |-> "drop", ticket |-> t, seen |-> mine]
  <2>2. there.at = "drop" /\ there.ticket = t /\ there.seen = mine /\ Goto(w, there)
    BY <2>1
  <2> HIDE DEF there
  <2>3. work'[w] = there
    BY <2>2 DEF Goto, IInv, WorkersOK
  <2>4. Held(w)' = {} /\ Seen(w)' = mine /\ Shape(w)'
    BY <2>2, <2>3 DEF Held, Seen, Shape, At
  <2>5. WorkerOK(w)'
    BY <1>1, <1>2, <2>2, <2>3, <2>4 DEF WorkerOK, At, tables
  <2> QED
    BY <1>3, <2>2, <2>4, <2>5
<1> QED
  BY <1>4, <1>5

\* A worker deletes rows and takes their files in hand, as far as it has seen them.
LEMMA DeleteStep ==
  ASSUME IInv, NEW w \in Worker, At(w, "detach") \/ At(w, "drop"),
         NEW S \in SUBSET Seen(w), Goto(w, [at |-> "unlink", stored |-> S]),
         NEW gone \in SUBSET Rows, S \intersect Rows \subseteq gone,
         row' = [f \in File |-> IF f \in gone THEN Null ELSE row[f]],
         ticket' \in [Ticket -> {"new", "live", "deleted"}],
         \A t \in Ticket : ticket[t] # "new" => ticket'[t] # "new",
         \A t \in Ticket : ticket'[t] = "live" => ticket[t] = "live",
         \A f \in Rows \ gone : ticket'[row[f].ticket] = "live",
         gone \ S \subseteq orphan', orphan \subseteq orphan',
         UNCHANGED <<project, disk, used, partial>>
  PROVE  IInv'
<1> DEFINE there == [at |-> "unlink", stored |-> S]
<1>1. /\ there.at = "unlink" /\ there.stored = S /\ Goto(w, there)
      /\ there = [at |-> "unlink", stored |-> there.stored]
  OBVIOUS
<1> HIDE DEF there
<1>2. work'[w] = there
  BY <1>1 DEF Goto, IInv, WorkersOK
<1>3. Held(w) = {} /\ Held(w)' = {} /\ Seen(w)' = S /\ InHand(w)' = S /\ Shape(w)'
  BY <1>1, <1>2 DEF Held, Seen, InHand, Shape, At
<1>4. S \subseteq used /\ used \subseteq File /\ \A f \in S : row'[f] = Null
  BY DEF IInv, WorkersOK, WorkerOK, TablesOK, Rows
<1>5. Firm(w)' <=> S # {}
  BY <1>1, <1>2, <1>3 DEF Firm, At
<1>6. WorkerOK(w)'
  BY <1>1, <1>2, <1>3, <1>4 DEF WorkerOK, At
<1>7. Frame(w)
  BY <1>3 DEF Frame
<1>8. WorkersOK'
  BY <1>1, <1>6, <1>7, Proceed
<1>9. TablesOK'
  BY DEF IInv, TablesOK, Rows
<1>10. UploadsHaveFiles'
  BY DEF IInv, UploadsHaveFiles, Rows
<1>11. Settled'
  <2> SUFFICES ASSUME NEW f \in disk, f \notin Rows', f \notin partial, f \notin orphan'
               PROVE  \E v \in Worker : f \in InHand(v)' /\ Firm(v)'
    BY DEF Settled
  <2>1. CASE f \in S
    BY <1>3, <1>5, <2>1
  <2>2. CASE f \notin S
    <3>1. f \in File /\ f \notin Rows /\ f \notin partial /\ f \notin orphan
      BY <2>2 DEF Rows, IInv, TablesOK
    <3>2. PICK v \in Worker : f \in InHand(v) /\ Firm(v)
      BY <3>1, Holder
    <3>3. v # w
      BY <3>2 DEF InHand, At
    <3> QED
      BY <1>1, <3>2, <3>3, OthersHold
  <2> QED
    BY <2>1, <2>2
<1> QED
  BY <1>8, <1>9, <1>10, <1>11 DEF IInv

LEMMA DeleteSteps ==
  ASSUME IInv, NEW w \in Worker, DeleteAttachment(w) \/ DeleteTicket(w)
  PROVE  IInv'
<1>0. WorkerOK(w) /\ Seen(w) \subseteq used /\ used \subseteq File
  BY DEF IInv, WorkersOK, WorkerOK, TablesOK
<1>1. CASE DeleteAttachment(w)
  <2> DEFINE f == work[w].file
             gone == {f} \intersect Rows
  <2>1. At(w, "detach") /\ Seen(w) = {f} /\ f \in File
    BY <1>0, <1>1 DEF DeleteAttachment, Seen, At
  <2>2. row' = [g \in File |-> IF g \in gone THEN Null ELSE row[g]]
    BY <1>1, <2>1 DEF DeleteAttachment, IInv, TablesOK, Rows
  <2>3. /\ Goto(w, [at |-> "unlink", stored |-> {f}])
        /\ UNCHANGED <<project, ticket, disk, used, partial, orphan>>
    BY <1>1 DEF DeleteAttachment, files
  <2>4. /\ ticket' \in [Ticket -> {"new", "live", "deleted"}]
        /\ \A g \in Rows \ gone : ticket'[row[g].ticket] = "live"
    BY <2>3 DEF IInv, TablesOK, UploadsHaveFiles
  <2>5. \A t \in Ticket : ticket[t] # "new" => ticket'[t] # "new"
    BY <2>3
  <2> DEFINE S == {f}
  <2>6. /\ S \subseteq Seen(w) /\ gone \subseteq Rows /\ S \intersect Rows \subseteq gone
        /\ gone \ S \subseteq orphan' /\ orphan \subseteq orphan'
        /\ Goto(w, [at |-> "unlink", stored |-> S])
    BY <2>1, <2>3
  <2> HIDE DEF f, S, gone
  <2> QED
    BY <2>1, <2>2, <2>3, <2>4, <2>5, <2>6, DeleteStep
<1>2. CASE DeleteTicket(w)
  <2> DEFINE t == work[w].ticket
             mine == {f \in Rows : row[f].ticket = t}
             S == work[w].seen
  <2>1. At(w, "drop") /\ Seen(w) = S /\ t \in Ticket
    BY <1>0, <1>2 DEF DeleteTicket, Seen, At, WorkerOK, Shape
  <2>2. /\ row' = [f \in File |-> IF f \in mine THEN Null ELSE row[f]]
        /\ ticket' = [ticket EXCEPT ![t] = "deleted"]
        /\ orphan' = orphan \union (mine \ S)
        /\ Goto(w, [at |-> "unlink", stored |-> S]) /\ UNCHANGED <<project, disk, used, partial>>
    BY <1>2 DEF DeleteTicket
  <2>3. S \intersect Rows \subseteq mine
    BY <1>0, <2>1 DEF WorkerOK, Rows, At
  <2>4. /\ ticket' \in [Ticket -> {"new", "live", "deleted"}]
        /\ \A u \in Ticket : ticket[u] # "new" => ticket'[u] # "new"
        /\ \A u \in Ticket : ticket'[u] = "live" => ticket[u] = "live"
        /\ \A u \in Ticket \ {t} : ticket'[u] = ticket[u]
    BY <2>1, <2>2 DEF IInv, TablesOK
  <2>5. \A f \in Rows \ mine : ticket'[row[f].ticket] = "live"
    <3>1. \A f \in Rows : row[f].ticket \in Ticket /\ ticket[row[f].ticket] = "live"
      BY DEF IInv, TablesOK, UploadsHaveFiles, Rows, Row
    <3> QED
      BY <2>4, <3>1
  <2> HIDE DEF S, t, mine
  <2>6. mine \subseteq Rows
    BY DEF mine
  <2> QED
    BY <2>1, <2>2, <2>3, <2>4, <2>5, <2>6, DeleteStep
<1> QED
  BY <1>1, <1>2

LEMMA UnlinkStep ==
  ASSUME IInv, NEW w \in Worker, At(w, "unlink"), NEW S \in SUBSET work[w].stored,
         NEW there, Goto(w, there), WorkerOK(w)', Held(w)' = {},
         Seen(w)' \subseteq work[w].stored,
         disk' = disk \ S, UNCHANGED <<tables, used, partial>>, orphan \subseteq orphan',
         \A f \in work[w].stored \ S : f \in orphan' \/ (f \in InHand(w)' /\ Firm(w)')
  PROVE  IInv'
<1>1. work[w].at \in {"upload", "import", "imported", "unlink"}
  BY DEF At
<1>2. Held(w)' \subseteq Held(w) /\ Seen(w)' \subseteq Seen(w)
  BY DEF Held, Seen, At
<1> DEFINE none == {}
<1>3. none \in SUBSET Held(w) /\ disk' = (disk \ S) \union none /\ partial' = partial \union none
  OBVIOUS
<1> HIDE DEF none
<1> QED
  BY <1>1, <1>2, <1>3, RemoveStep

LEMMA UnlinkSteps ==
  ASSUME IInv, NEW w \in Worker, Unlink(w) \/ UnlinkFails(w) \/ NothingToUnlink(w)
  PROVE  IInv'
<1>0. At(w, "unlink") /\ WorkerOK(w)
  BY DEF Unlink, UnlinkFails, NothingToUnlink, IInv, WorkersOK
<1> DEFINE S == work[w].stored
<1>1. CASE NothingToUnlink(w)
  <2>1. Finish(w) /\ S = {} /\ UNCHANGED <<tables, disk, used, partial, orphan>>
    BY <1>1 DEF NothingToUnlink, files
  <2>2. Goto(w, Idle) /\ Held(w)' = {} /\ Seen(w)' = {} /\ WorkerOK(w)'
    BY <2>1, IdleOK DEF Finish
  <2>3. disk' = disk \ S
    BY <2>1
  <2> QED
    BY <1>0, <2>1, <2>2, <2>3, UnlinkStep
<1>2. CASE Unlink(w)
  <2>1. PICK f \in S :
          /\ disk' = disk \ {f}
          /\ IF S = {f} THEN Finish(w) ELSE Goto(w, [work[w] EXCEPT !.stored = @ \ {f}])
    BY <1>2 DEF Unlink
  <2>2. UNCHANGED <<tables, used, partial, orphan>>
    BY <1>2 DEF Unlink
  <2> DEFINE one == {f}
  <2>one. one \subseteq S /\ disk' = disk \ one
    BY <2>1
  <2>3. CASE S = {f}
    <3>1. Goto(w, Idle) /\ Held(w)' = {} /\ Seen(w)' = {} /\ WorkerOK(w)'
      BY <2>1, <2>3, IdleOK DEF Finish
    <3>2. S \ one = {}
      BY <2>3
    <3> HIDE DEF one
    <3> QED
      BY <1>0, <2>2, <2>one, <3>1, <3>2, UnlinkStep
  <2>4. CASE S # {f}
    <3> DEFINE there == [at |-> "unlink", stored |-> S \ one]
    <3>1. work[w] = [at |-> "unlink", stored |-> S]
      BY <1>0 DEF WorkerOK, Shape
    <3>2. there = [work[w] EXCEPT !.stored = @ \ {f}]
      BY <3>1
    <3>3. /\ there.at = "unlink" /\ there.stored = S \ one /\ Goto(w, there)
          /\ there = [at |-> "unlink", stored |-> there.stored]
      BY <2>1, <2>4, <3>2
    <3>4. Seen(w) = S
      BY <1>0 DEF Seen, At
    <3> HIDE DEF there, one
    <3>5. work'[w] = there
      BY <3>3 DEF Goto, IInv, WorkersOK
    <3>6. Held(w)' = {} /\ Seen(w)' = S \ one /\ InHand(w)' = S \ one /\ Shape(w)'
      BY <3>3, <3>5 DEF Held, Seen, InHand, Shape, At
    <3>7. WorkerOK(w)'
      BY <1>0, <2>2, <3>3, <3>4, <3>5, <3>6 DEF WorkerOK, At, tables
    <3>8. \A g \in S \ one : g \in InHand(w)' /\ Firm(w)'
      BY <3>3, <3>5, <3>6 DEF Firm, At
    <3> QED
      BY <1>0, <2>2, <2>one, <3>3, <3>6, <3>7, <3>8, UnlinkStep
  <2> QED
    BY <2>3, <2>4
<1>3. CASE UnlinkFails(w)
  <2>1. Finish(w) /\ orphan' = orphan \union S /\ UNCHANGED <<tables, disk, used, partial>>
    BY <1>3 DEF UnlinkFails
  <2>2. Goto(w, Idle) /\ Held(w)' = {} /\ Seen(w)' = {} /\ WorkerOK(w)'
    BY <2>1, IdleOK DEF Finish
  <2> DEFINE none == {}
  <2>3. none \in SUBSET S /\ disk' = disk \ none
    BY <2>1
  <2> HIDE DEF none
  <2> QED
    BY <1>0, <2>1, <2>2, <2>3, UnlinkStep
<1> QED
  BY <1>1, <1>2, <1>3

LEMMA ProjectSteps ==
  ASSUME IInv, NEW w \in Worker, DeleteProject(w) \/ Rmtree(w)
  PROVE  IInv'
<1>1. CASE DeleteProject(w)
  <2>1. /\ project' = FALSE /\ Goto(w, [at |-> "rmtree"]) /\ UNCHANGED <<disk, used, partial, orphan>>
        /\ ticket' = [t \in Ticket |-> IF ticket[t] = "live" THEN "deleted" ELSE ticket[t]]
        /\ row' = [f \in File |-> Null]
    BY <1>1 DEF DeleteProject, files
  <2> DEFINE there == [at |-> "rmtree"]
  <2>2. there.at = "rmtree" /\ Goto(w, there)
    BY <2>1
  <2> HIDE DEF there
  <2>3. work'[w] = there
    BY <2>2 DEF Goto, IInv, WorkersOK
  <2>4. Held(w)' = {} /\ Seen(w)' = {} /\ InHand(w)' = File /\ Shape(w)'
    BY <2>2, <2>3 DEF Held, Seen, InHand, Shape, At
  <2>5. WorkerOK(w)'
    BY <2>1, <2>2, <2>3, <2>4 DEF WorkerOK, At
  <2>6. Frame(w)
    BY <2>1, <2>4 DEF Frame, IInv, TablesOK
  <2>7. WorkersOK'
    BY <2>2, <2>5, <2>6, Proceed
  <2>8. TablesOK' /\ UploadsHaveFiles'
    BY <2>1 DEF IInv, TablesOK, UploadsHaveFiles, Rows
  <2>9. Settled'
    BY <2>1, <2>2, <2>3, <2>4 DEF Settled, Firm, At, IInv, TablesOK
  <2> QED
    BY <2>7, <2>8, <2>9 DEF IInv
<1>2. CASE Rmtree(w)
  <2>1. /\ At(w, "rmtree") /\ Finish(w) /\ UNCHANGED <<tables, used, partial>>
        /\ disk' \subseteq disk /\ orphan' = orphan \union disk'
    BY <1>2 DEF Rmtree
  <2>2. ~project /\ Rows = {}
    <3>1. ~project
      BY <2>1 DEF IInv, WorkersOK, WorkerOK
    <3>2. \A f \in Rows : row[f].ticket \in Ticket /\ ticket[row[f].ticket] = "live"
      BY DEF IInv, TablesOK, UploadsHaveFiles, Rows, Row
    <3> QED
      BY <3>1, <3>2 DEF IInv, TablesOK
  <2>3. Held(w)' = {} /\ Seen(w)' = {} /\ WorkerOK(w)'
    BY <2>1, IdleOK
  <2>4. Frame(w)
    BY <2>1, <2>2, <2>3 DEF Frame, tables
  <2>5. WorkersOK'
    BY <2>1, <2>3, <2>4, Proceed DEF Finish
  <2>6. TablesOK' /\ UploadsHaveFiles' /\ Settled'
    BY <2>1, <2>2 DEF IInv, TablesOK, UploadsHaveFiles, Settled, Rows, tables
  <2> QED
    BY <2>5, <2>6 DEF IInv
<1> QED
  BY <1>1, <1>2

LEMMA OtherSteps ==
  ASSUME IInv, CreateTicket \/ Crash
  PROVE  IInv'
<1>1. CASE CreateTicket
  <2>1. PICK t \in Ticket : ticket[t] = "new" /\ ticket' = [ticket EXCEPT ![t] = "live"]
    BY <1>1 DEF CreateTicket
  <2>2. project /\ UNCHANGED <<project, row, disk, used, partial, orphan, work>>
    BY <1>1 DEF CreateTicket, files
  <2>3. /\ ticket' \in [Ticket -> {"new", "live", "deleted"}]
        /\ \A u \in Ticket \ {t} : ticket'[u] = ticket[u]
        /\ ticket'[t] = "live"
    BY <2>1 DEF IInv, TablesOK
  <2>4. TablesOK'
    BY <2>2, <2>3 DEF IInv, TablesOK, Rows
  <2>5. UploadsHaveFiles'
    <3>1. \A f \in Rows : row[f].ticket \in Ticket /\ ticket[row[f].ticket] = "live"
      BY DEF IInv, TablesOK, UploadsHaveFiles, Rows, Row
    <3> QED
      BY <2>1, <2>2, <2>3, <3>1 DEF IInv, UploadsHaveFiles, Rows
  <2>6. ASSUME NEW w \in Worker
        PROVE  WorkerOK(w)' /\ (Firm(w) => Firm(w)')
    <3>1. WorkerOK(w)
      BY DEF IInv, WorkersOK
    <3>2. Held(w)' = Held(w) /\ Seen(w)' = Seen(w) /\ InHand(w)' = InHand(w) /\ Shape(w)'
      BY <2>2, <3>1 DEF Held, Seen, InHand, Shape, At, WorkerOK
    <3>3. At(w, "imported") => work[w].ticket \in Ticket /\ work[w].ticket # t
      BY <2>1, <3>1 DEF WorkerOK, Shape, At
    <3>4. Firm(w) => Firm(w)'
      BY <2>2, <2>3, <3>2, <3>3 DEF Firm, At
    <3> QED
      BY <2>2, <2>3, <3>1, <3>2, <3>3, <3>4 DEF WorkerOK, At
  <2>7. WorkersOK'
    BY <2>2, <2>6 DEF IInv, WorkersOK, Apart, Held, Seen, At
  <2>8. Settled'
    <3> SUFFICES ASSUME NEW f \in disk, f \notin Rows, f \notin partial, f \notin orphan
                 PROVE  \E v \in Worker : f \in InHand(v)' /\ Firm(v)'
      BY <2>2 DEF Settled, Rows
    <3>1. PICK v \in Worker : f \in InHand(v) /\ Firm(v)
      BY Holder
    <3> QED
      BY <2>2, <2>6, <3>1 DEF InHand, At
  <2> QED
    BY <2>4, <2>5, <2>7, <2>8 DEF IInv
<1>2. CASE Crash
  <2>1. /\ work' = [w \in Worker |-> Idle]
        /\ UNCHANGED <<tables, used, partial>>
    BY <1>2 DEF Crash
  <2>6. PICK parts \in SUBSET UNION {Writing(w) : w \in Worker} :
          disk' = disk \union parts /\ orphan' = orphan \union (disk' \ Rows)
    BY <1>2 DEF Crash
  <2>7. disk' \subseteq used
    BY <2>6 DEF Writing, Held, IInv, WorkersOK, WorkerOK, TablesOK
  <2>2. Idle.at = "idle" /\ \A w \in Worker : work'[w] = Idle
    BY <2>1 DEF Idle
  <2>3. \A w \in Worker : Held(w)' = {} /\ Seen(w)' = {} /\ WorkerOK(w)'
    <3>1. \A w \in Worker : Held(w)' = {} /\ Seen(w)' = {} /\ Shape(w)'
      BY <2>2 DEF Held, Seen, Shape, At
    <3> QED
      BY <2>2, <3>1 DEF WorkerOK, At
  <2>4. WorkersOK'
    BY <2>1, <2>2, <2>3 DEF WorkersOK, Apart
  <2>5. TablesOK' /\ UploadsHaveFiles' /\ Settled'
    BY <2>1, <2>6, <2>7 DEF IInv, TablesOK, UploadsHaveFiles, Settled, Rows, tables
  <2> QED
    BY <2>4, <2>5 DEF IInv
<1> QED
  BY <1>1, <1>2

LEMMA IInvInit == Init => IInv
<1> SUFFICES ASSUME Init
             PROVE  IInv
  OBVIOUS
<1>1. Idle.at = "idle" /\ \A w \in Worker : work[w] = Idle
  BY DEF Init, Idle
<1>2. \A w \in Worker : Held(w) = {} /\ Seen(w) = {} /\ Shape(w)
  BY <1>1 DEF Held, Seen, Shape, At
<1>3. WorkersOK
  BY <1>1, <1>2 DEF Init, WorkersOK, WorkerOK, Apart, At
<1> QED
  BY <1>3 DEF Init, IInv, TablesOK, UploadsHaveFiles, Settled, Rows

LEMMA IInvStep ==
  ASSUME IInv, Null \notin Row, [Next]_vars
  PROVE  IInv'
<1>1. CASE UNCHANGED vars
  BY <1>1 DEF vars, tables, files, IInv, TablesOK, WorkersOK, WorkerOK, Apart, Shape, Held, Seen, At,
     UploadsHaveFiles, Rows, Settled, Firm, InHand
<1>2. CASE CreateTicket \/ Crash
  BY <1>2, OtherSteps
<1>3. ASSUME NEW w \in Worker, Step(w)
      PROVE  IInv'
  BY <1>3, BeginSteps, StoreSteps, CommitUploadStep, CommitImportStep, StopSteps, LookSteps,
     DeleteSteps, UnlinkSteps, ProjectSteps DEF Step
<1> QED
  BY <1>1, <1>2, <1>3 DEF Next

----------------------------------------------------------------------------
(* The properties *)

\* The row of an upload has its file, and every row its ticket, whatever fails, is
\* deleted or stops in between: a file with a row is only removed by who deleted the
\* row, or by the import that added it, and ids are not used again.
THEOREM FilesOfUploads ==
  ASSUME Null \notin Row
  PROVE  Spec => []UploadsHaveFiles
<1>1. IInv => UploadsHaveFiles
  BY DEF IInv
<1>2. IInv /\ [Next]_vars => IInv'
  BY IInvStep
<1> QED
  BY <1>1, <1>2, IInvInit, PTL DEF Spec

\* A file without a row is in the hand of a worker, or a write, a removal or the
\* process failed on it, or its ticket was deleted under an upload.
THEOREM LeftoversExplained ==
  ASSUME Null \notin Row
  PROVE  Spec => []LeftoversHaveACause
<1>1. IInv => LeftoversHaveACause
  BY DEF IInv, Settled, LeftoversHaveACause
<1>2. IInv /\ [Next]_vars => IInv'
  BY IInvStep
<1> QED
  BY <1>1, <1>2, IInvInit, PTL DEF Spec

----------------------------------------------------------------------------
(* Types and sizes *)

\* project_usage is a number of bytes, and more rows never use less.
LEMMA UsageType ==
  ASSUME FilesAreFinite, NEW S \in SUBSET File
  PROVE  Usage(S) \in Nat
<1> DEFINE bytes == [f \in File |-> Size(f)]
<1>1. IsFiniteSet(S) /\ \A f \in S : bytes[f] \in Nat
  BY FS_Subset DEF FilesAreFinite
<1> HIDE DEF bytes
<1>2. SumFunctionOnSet(bytes, S) \in Nat
  BY <1>1, SumType
<1> QED
  BY <1>2 DEF Usage, bytes

LEMMA UsageMonotone ==
  ASSUME FilesAreFinite, NEW S \in SUBSET File, NEW T \in SUBSET S
  PROVE  Usage(T) <= Usage(S)
<1> DEFINE bytes == [f \in File |-> Size(f)]
<1>1. IsFiniteSet(S) /\ \A f \in S : bytes[f] \in Nat
  BY FS_Subset DEF FilesAreFinite
<1> HIDE DEF bytes
<1>2. SumFunctionOnSet(bytes, T) <= SumFunctionOnSet(bytes, S)
  BY <1>1, SumMonotone
<1> QED
  BY <1>2 DEF Usage, bytes

\* Where a step puts a worker, it leaves the others.
LEMMA MoveType ==
  ASSUME TypeOK, NEW w \in Worker, NEW there \in WorkState, Goto(w, there)
  PROVE  work' \in [Worker -> WorkState]
BY DEF TypeOK, Goto

LEMMA UploadTypes ==
  ASSUME TypeOK, FilesAreFinite, NEW w \in Worker, Upload(w) \/ Import(w)
  PROVE  work' \in [Worker -> WorkState]
<1>1. PICK kind \in {"upload", "import"}, t \in Ticket, F \in SUBSET (File \ used) :
        Goto(w, [at |-> kind, ticket |-> t, left |-> F, stored |-> {}, counted |-> Usage(Rows)])
  BY DEF Upload, Import
<1>2. Usage(Rows) \in Nat
  BY UsageType DEF Rows
<1>3. [at |-> kind, ticket |-> t, left |-> F, stored |-> {}, counted |-> Usage(Rows)] \in WorkState
  BY <1>2 DEF WorkState
<1> QED
  BY <1>1, <1>3, MoveType

LEMMA StoreTypes ==
  ASSUME TypeOK, FilesAreFinite, NEW w \in Worker, StoreUpload(w) \/ StoreImport(w)
  PROVE  work' \in [Worker -> WorkState]
<1> DEFINE c == work[w]
<1>0. c \in WorkState /\ Idle \in WorkState /\ c.at \in {"upload", "import"}
  BY DEF TypeOK, WorkState, StoreUpload, StoreImport, At
<1> HIDE DEF c
<1>1. c \in [at : {"upload", "import"}, ticket : Ticket, left : SUBSET File,
             stored : SUBSET File, counted : Nat]
  BY <1>0 DEF WorkState, Idle
<1>2. PICK f \in c.left :
        \/ Goto(w, Idle)
        \/ Goto(w, [c EXCEPT !.left = @ \ {f}])
        \/ Goto(w, [c EXCEPT !.left = @ \ {f}, !.stored = @ \union {f}, !.counted = @ + Size(f)])
  BY <1>0 DEF StoreUpload, StoreImport, Discard, Finish, c
<1>3. f \in File /\ Size(f) \in Nat
  BY <1>1 DEF FilesAreFinite
<1> DEFINE Storing == [at : {"upload", "import"}, ticket : Ticket, left : SUBSET File,
                       stored : SUBSET File, counted : Nat]
<1>4. /\ [c EXCEPT !.left = @ \ {f}] \in Storing
      /\ [c EXCEPT !.left = @ \ {f}, !.stored = @ \union {f}, !.counted = @ + Size(f)] \in Storing
  <2>1. /\ c.left \ {f} \in SUBSET File /\ c.stored \union {f} \in SUBSET File
        /\ c.counted + Size(f) \in Nat
    BY <1>1, <1>3
  <2>2. \A l \in SUBSET File, st \in SUBSET File, n \in Nat :
          [c EXCEPT !.left = l] \in Storing /\ [c EXCEPT !.left = l, !.stored = st, !.counted = n] \in Storing
    BY <1>1
  <2> QED
    BY <2>1, <2>2
<1>5. Storing \subseteq WorkState
  BY DEF WorkState
<1> HIDE DEF Storing
<1> QED
  BY <1>0, <1>2, <1>4, <1>5, MoveType

LEMMA RowTypes ==
  ASSUME TypeOK, NEW w \in Worker,
         \/ CommitImport(w) \/ Detach(w) \/ DeleteAttachment(w) \/ DropTicket(w)
         \/ DeleteTicket(w) \/ Unlink(w) \/ DeleteProject(w)
  PROVE  work' \in [Worker -> WorkState]
<1> DEFINE c == work[w]
<1>0. c \in WorkState /\ Idle \in WorkState
  BY DEF TypeOK, WorkState
<1>1. CASE CommitImport(w)
  <2>1. c \in [at : {"upload", "import"}, ticket : Ticket, left : SUBSET File,
               stored : SUBSET File, counted : Nat]
    BY <1>0, <1>1 DEF CommitImport, At, WorkState, Idle
  <2>2. [at |-> "imported", ticket |-> c.ticket, stored |-> c.stored] \in WorkState
    BY <2>1 DEF WorkState
  <2> QED
    BY <1>1, <2>2, MoveType DEF CommitImport
<1>2. CASE Detach(w) \/ DropTicket(w)
  <2>1. PICK there \in WorkState : Goto(w, there)
    BY <1>2 DEF Detach, DropTicket, WorkState, Rows
  <2> QED
    BY <2>1, MoveType
<1>3. CASE DeleteAttachment(w)
  <2>1. c.file \in File
    BY <1>0, <1>3 DEF DeleteAttachment, At, WorkState, Idle
  <2>2. [at |-> "unlink", stored |-> {c.file}] \in WorkState
    BY <2>1 DEF WorkState
  <2> QED
    BY <1>3, <2>2, MoveType DEF DeleteAttachment
<1>4. CASE DeleteTicket(w)
  <2>1. c.seen \in SUBSET File
    BY <1>0, <1>4 DEF DeleteTicket, At, WorkState, Idle
  <2>2. [at |-> "unlink", stored |-> c.seen] \in WorkState
    BY <2>1 DEF WorkState
  <2> QED
    BY <1>4, <2>2, MoveType DEF DeleteTicket
<1>5. CASE Unlink(w)
  <2>1. c \in [at : {"unlink"}, stored : SUBSET File]
    BY <1>0, <1>5 DEF Unlink, At, WorkState, Idle
  <2>2. \A f : [c EXCEPT !.stored = @ \ {f}] \in WorkState
    BY <2>1 DEF WorkState
  <2> QED
    BY <1>0, <1>5, <2>2, MoveType DEF Unlink, Finish
<1>6. CASE DeleteProject(w)
  <2>1. [at |-> "rmtree"] \in WorkState
    BY DEF WorkState
  <2> QED
    BY <1>6, <2>1, MoveType DEF DeleteProject
<1> QED
  BY <1>1, <1>2, <1>3, <1>4, <1>5, <1>6

\* Files of a worker that a failure may leave behind
Stored(w) ==
  IF work[w].at \in {"upload", "import", "imported", "unlink"} THEN work[w].stored ELSE {}

LEMMA TypeStep ==
  ASSUME IInv, TypeOK, FilesAreFinite, Null \notin Row, [Next]_vars
  PROVE  TypeOK'
<1>1. IInv' /\ Idle \in WorkState
  BY IInvStep DEF WorkState
<1>2. project' \in BOOLEAN
  BY DEF TypeOK, Next, Step, vars, tables, CreateTicket, Upload, StoreUpload, Fail, WriteFails,
     CommitUpload, RejectUpload, Import, StoreImport, CommitImport, RejectImport, Refreshed,
     Interrupted, Detach, DeleteAttachment, DropTicket, DeleteTicket, Unlink, UnlinkFails,
     NothingToUnlink, DeleteProject, Rmtree, Crash
<1>4. /\ orphan' \subseteq orphan \union disk \union disk' \union Rows \union UNION {Stored(w) : w \in Worker}
      /\ partial' \subseteq partial \union disk'
  <2>1. ASSUME NEW w \in Worker, NEW part, Discard(w, part),
               work[w].at \in {"upload", "import", "imported"}
        PROVE  /\ orphan' \subseteq orphan \union Stored(w)
               /\ partial' \subseteq partial \union disk'
    BY <2>1 DEF Discard, Stored
  <2>2. ASSUME NEW w \in Worker, Step(w)
        PROVE  /\ orphan' \subseteq orphan \union disk \union disk' \union Rows \union Stored(w)
               /\ partial' \subseteq partial \union disk'
    <3>1. CASE Upload(w) \/ StoreUpload(w) \/ CommitUpload(w) \/ RejectUpload(w)
      BY <2>1, <3>1 DEF Upload, StoreUpload, CommitUpload, RejectUpload, files, At
    <3>2. CASE Import(w) \/ StoreImport(w) \/ CommitImport(w) \/ RejectImport(w)
      BY <2>1, <3>2 DEF Import, StoreImport, CommitImport, RejectImport, files, At
    <3>3. CASE Fail(w) \/ WriteFails(w) \/ Refreshed(w) \/ Interrupted(w)
      BY <2>1, <3>3 DEF Fail, WriteFails, Refreshed, Interrupted, files, At
    <3>4. CASE Detach(w) \/ DeleteAttachment(w) \/ DropTicket(w) \/ DeleteTicket(w)
      BY <3>4 DEF Detach, DeleteAttachment, DropTicket, DeleteTicket, files
    <3>5. CASE Unlink(w) \/ UnlinkFails(w) \/ NothingToUnlink(w) \/ DeleteProject(w) \/ Rmtree(w)
      BY <3>5 DEF Unlink, UnlinkFails, NothingToUnlink, DeleteProject, Rmtree, files, At, Stored
    <3> QED
      BY <2>2, <3>1, <3>2, <3>3, <3>4, <3>5 DEF Step
  <2>3. CASE UNCHANGED vars \/ CreateTicket \/ Crash
    BY <2>3 DEF vars, files, CreateTicket, Crash
  <2> QED
    BY <2>2, <2>3 DEF Next
<1>5. orphan' \union partial' \subseteq File
  <2>1. \A w \in Worker : Stored(w) \subseteq used
    BY DEF Stored, IInv, WorkersOK, WorkerOK, Held, Seen, At
  <2>2. disk \union disk' \union Rows \subseteq File
    BY <1>1 DEF IInv, TablesOK, Rows
  <2> QED
    BY <1>4, <2>1, <2>2 DEF TypeOK
<1>3. work' \in [Worker -> WorkState]
  <2>1. CASE UNCHANGED work
    BY <2>1 DEF TypeOK
  <2>2. CASE Crash
    BY <1>1, <2>2 DEF Crash
  <2>3. ASSUME NEW w \in Worker, Step(w)
        PROVE  work' \in [Worker -> WorkState]
    <3>1. CASE Goto(w, Idle)
      BY <1>1, <3>1, MoveType
    <3>2. CASE ~Goto(w, Idle)
      BY <2>3, <3>2, UploadTypes, StoreTypes, RowTypes DEF Step, Fail, WriteFails, CommitUpload,
         RejectUpload, RejectImport, Refreshed, Interrupted, UnlinkFails, NothingToUnlink, Rmtree,
         Discard, Finish
    <3> QED
      BY <3>1, <3>2
  <2> QED
    BY <2>1, <2>2, <2>3 DEF Next, vars, CreateTicket
<1> QED
  BY <1>1, <1>2, <1>3, <1>5 DEF IInv, TablesOK, TypeOK

\* Uploaded rows are added by a commit that has recounted, and by nothing else.
LEMMA QuotaStep ==
  ASSUME IInv, UploadsWithinQuota, FilesAreFinite, Quota \in Nat, Null \notin Row, [Next]_vars
  PROVE  UploadsWithinQuota'
<1> DEFINE Uploads == {f \in Rows : row[f].source = "UPLOAD"}
<1>1. /\ Uploads \in SUBSET File /\ Uploads' \in SUBSET File
      /\ row \in [File -> Row \union {Null}]
  BY DEF Rows, IInv, TablesOK
<1>2. CASE \E w \in Worker : CommitUpload(w)
  <2>1. PICK w \in Worker : CommitUpload(w)
    BY <1>2
  <2>2. work[w].stored \in SUBSET File /\ Uploads' \in SUBSET (Rows \union work[w].stored)
    BY <2>1, Recorded DEF CommitUpload, At, Rows
  <2>3. Rows \union work[w].stored \in SUBSET File
    BY <2>2 DEF Rows
  <2>4. Usage(Rows \union work[w].stored) <= Quota
    BY <2>1 DEF CommitUpload, Fits
  <2> HIDE DEF Uploads
  <2>5. Usage(Uploads') <= Usage(Rows \union work[w].stored)
    BY <2>2, <2>3, UsageMonotone
  <2>6. Usage(Uploads') \in Nat /\ Usage(Rows \union work[w].stored) \in Nat
    BY <1>1, <2>3, UsageType
  <2>7. Usage(Uploads') <= Quota
    BY <2>4, <2>5, <2>6
  <2> QED
    BY <2>7 DEF Uploads, UploadsWithinQuota, Usage
<1>3. CASE ~\E w \in Worker : CommitUpload(w)
  <2>1. \A f \in File : row'[f] # Null /\ row'[f] # row[f] => row'[f].source = "GMAIL"
    <3>1. CASE UNCHANGED row
      BY <3>1
    <3>2. ASSUME NEW w \in Worker, DeleteAttachment(w) \/ DeleteTicket(w) \/ DeleteProject(w)
          PROVE  \A f \in File : row'[f] \in {row[f], Null}
      BY <1>1, <3>2 DEF DeleteAttachment, DeleteTicket, DeleteProject
    <3>3. ASSUME NEW w \in Worker, CommitImport(w)
          PROVE  \A f \in File : row'[f] # row[f] => row'[f].source = "GMAIL"
      BY <3>3 DEF CommitImport, Record
    <3> QED
      BY <1>3, <3>1, <3>2, <3>3 DEF Next, Step, vars, tables, CreateTicket, Upload, StoreUpload,
         Fail, WriteFails, RejectUpload, Import, StoreImport, RejectImport, Refreshed, Interrupted,
         Detach, DropTicket, Unlink, UnlinkFails, NothingToUnlink, Rmtree, Crash
  <2>2. Uploads' \in SUBSET Uploads
    BY <2>1 DEF Rows
  <2> HIDE DEF Uploads
  <2>3. Usage(Uploads') <= Usage(Uploads)
    BY <1>1, <2>2, UsageMonotone
  <2>4. Usage(Uploads') \in Nat /\ Usage(Uploads) \in Nat
    BY <1>1, UsageType
  <2>5. Usage(Uploads) <= Quota
    BY DEF Uploads, UploadsWithinQuota
  <2>6. Usage(Uploads') <= Quota
    BY <2>3, <2>4, <2>5
  <2> QED
    BY <2>6 DEF Uploads, UploadsWithinQuota, Usage
<1> QED
  BY <1>2, <1>3

\* Rows, files and what workers hold keep their types; what is counted is a number.
THEOREM TypeCorrect ==
  ASSUME FilesAreFinite, Null \notin Row
  PROVE  Spec => []TypeOK
<1>1. Init => TypeOK
  BY DEF Init, TypeOK, WorkState
<1>2. IInv /\ TypeOK /\ [Next]_vars => IInv' /\ TypeOK'
  BY IInvStep, TypeStep
<1> QED
  BY <1>1, <1>2, IInvInit, PTL DEF Spec

\* Uploads recount under the write lock: alone they never exceed the quota, for
\* files of any size, however many are under way and whatever mail imports add.
THEOREM QuotaHolds ==
  ASSUME FilesAreFinite, Quota \in Nat, Null \notin Row
  PROVE  Spec => []UploadsWithinQuota
<1>1. Init => UploadsWithinQuota
  <2> SUFFICES ASSUME Init PROVE UploadsWithinQuota
    OBVIOUS
  <2>1. {f \in Rows : row[f].source = "UPLOAD"} = {}
    BY DEF Init, Rows
  <2>2. Usage({}) = 0
    BY SumEmpty DEF Usage
  <2> QED
    BY <2>1, <2>2 DEF UploadsWithinQuota
<1>2. IInv /\ UploadsWithinQuota /\ [Next]_vars => IInv' /\ UploadsWithinQuota'
  BY IInvStep, QuotaStep
<1> QED
  BY <1>1, <1>2, IInvInit, PTL DEF Spec
=============================================================================
