----------------------- MODULE MonthlyInvoicesProofs -----------------------
(***************************************************************************)
(* What the finders and the monthly run promise for any mailboxes, any      *)
(* number of runs and any faults.                                           *)
(*                                                                          *)
(* The argument: a finder that runs knows every file it indexes and could   *)
(* read (Knows).  While a folder is searched for duplicates the files met   *)
(* and kept are still in it (KeptInFolder), so whatever is moved aside      *)
(* leaves a twin behind (Chained).  A consolidation knows what it could     *)
(* read of the merged folder and has brought over every file it has passed  *)
(* (Merges).  Files are never lost, so a message stays covered once its     *)
(* attachments are (Covered); a run without a fault covers what it opens    *)
(* (Covers), and what it passes over because of the cache was opened by the *)
(* run before (CleanCovers).                                                *)
(***************************************************************************)
EXTENDS MonthlyInvoices, FiniteSetTheorems, SequenceTheorems,
        WellFoundedInduction, TLAPS

Wants == [name : STRING, ext : STRING, msg : Msgs]
Paths == [wanted : Wants, n : Nat]
StemKeys == {Stem(q) : q \in Paths}

Runs == [pc : {"idle", "scan", "attach", "links", "ok", "failed"},
         todo : SUBSET Msgs, msg : Msgs \cup {NoMsg}, pos : Nat \ {0},
         saved : BOOLEAN, hash : SUBSET Pdfs, text : SUBSET Range(Text),
         stem : SUBSET StemKeys, skip : SUBSET Msgs, rows : SUBSET Row,
         mine : SUBSET Paths, bad : BOOLEAN]

Scanning(p) == fin[p].pc \in {"scan", "attach", "links"}
DirLists == {<<>>, <<"gmail">>, <<"outlook">>, <<"gmail", "outlook">>}

\* Folders and finders in more detail than TypeOK has them.
FoldersTyped ==
    /\ folder = [p \in Providers |-> folder[p]]
    /\ dups = [p \in Providers |-> dups[p]]
    /\ \A p \in Providers :
        /\ DOMAIN folder[p] \subseteq Paths /\ IsFiniteSet(DOMAIN folder[p])
        /\ Range(folder[p]) \subseteq Pdfs
        /\ IsFiniteSet(DOMAIN dups[p]) /\ Range(dups[p]) \subseteq Pdfs
FindersTyped ==
    /\ fin \in [Providers -> Runs]
    /\ report \subseteq Row
    /\ clean \in [Providers -> 0 .. 2]
    /\ faults \in 0 .. MaxFaults
    /\ \A p \in Providers :
        /\ Scanning(p) => stage = "providers"
        /\ fin[p].todo \subseteq {m \in Msgs : Mail[m].box = p}
        /\ fin[p].pc \in {"attach", "links"} =>
              fin[p].msg \in Msgs /\ Mail[fin[p].msg].box = p
        /\ fin[p].pc = "scan" => fin[p].msg = NoMsg /\ fin[p].pos = 1
MonthTyped ==
    /\ stage \in {"idle", "providers", "dedupe", "merge"}
    /\ dirs \in DirLists
    /\ left \subseteq (IF dirs = <<>> THEN {} ELSE Listed(folder[Head(dirs)]))
    /\ stage \in {"idle", "providers"} => dirs = <<>>
    /\ seen = [hash |-> seen.hash, text |-> seen.text, stem |-> seen.stem]
    /\ IsFiniteSet(DOMAIN merged) /\ Range(merged) \subseteq Pdfs \cup {Torn}
    /\ unread \subseteq Providers /\ delivered \subseteq Providers
    /\ stage # "idle" => delivered = {}
    /\ runs \in 0 .. MaxRuns
    /\ hidden \subseteq Pdfs /\ skipped \subseteq Pdfs \cup {Torn}

\* OneCopyPerPdf for a provider: in its folder, across folders, among the duplicates.
Copies(p) ==
    /\ p = "outlook" =>
          \A x, y \in DOMAIN folder[p] : x # y /\ folder[p][x] = folder[p][y] =>
              ~({x, y} \subseteq fin[p].mine)
    /\ p = "gmail" =>
          /\ \A x, y \in Indexed(folder[p]) :
                x # y /\ folder[p][x] = folder[p][y] => folder[p][x] \in hidden
          /\ \A x \in Indexed(folder[p]), y \in DOMAIN dups[p] :
                folder[p][x] = dups[p][y] => dups[p][y] \in hidden
          /\ \A x, y \in DOMAIN dups[p] : x # y /\ dups[p][x] = dups[p][y] => dups[p][x] \in hidden

\* A finder at work knows the files it can, and nothing else.
Knows(p) ==
    Scanning(p) =>
        /\ p = "gmail" =>
              (At(folder[p], Indexed(folder[p])) \cup Range(dups[p])) \ hidden \subseteq fin[p].hash
        /\ \A q \in fin[p].mine : q \in DOMAIN folder[p] /\ folder[p][q] \in fin[p].hash
        /\ fin[p].hash \subseteq Have(p)
        /\ fin[p].text \subseteq Texts(Have(p))

\* The files dedupe_provider_dir has kept so far.
Kept == Listed(folder[Head(dirs)]) \ left
KeptInFolder ==
    stage = "dedupe" /\ dirs # <<>> =>
        LET kept == {folder[Head(dirs)][q] : q \in Kept}
        IN  /\ seen.hash \subseteq kept
            /\ seen.text \subseteq Texts(kept)
            /\ seen.stem \subseteq {Stem(q) : q \in Kept}

\* Files and duplicates of a provider as dedupe_provider_dir compares them.
InFolder(p) == {[stem |-> Stem(q), pdf |-> folder[p][q]] : q \in Listed(folder[p])}
Moved(p) == {[stem |-> Stem(d.wanted), pdf |-> dups[p][d]] : d \in DOMAIN dups[p]}
Chained(p) ==
    \A aside \in (SUBSET (Moved(p) \ InFolder(p))) \ {{}} :
        \E a \in aside, b \in (Moved(p) \cup InFolder(p)) \ aside : Twin(a, b)

\* What the consolidation has not passed yet.
Pending(p) ==
    IF dirs = <<>> THEN {}
    ELSE IF p = Head(dirs) THEN left
    ELSE IF Len(dirs) = 2 /\ p = dirs[2] THEN Listed(folder[p])
    ELSE {}
Merges ==
    /\ stage = "merge" =>
        /\ Range(merged) \ skipped \subseteq seen.hash /\ seen.hash \subseteq Range(merged)
        /\ \A p \in Providers : fin[p].pc = "ok" /\ p \notin unread =>
              \A q \in Listed(folder[p]) \ Pending(p) : folder[p][q] \in Range(merged)
    /\ \A p \in delivered : At(folder[p], Listed(folder[p])) \subseteq Range(merged)

\* The attachments a run has to bring: of messages that are opened.
Due(p, m) ==
    m \in Reached(p) /\ Considered(p, m) /\ ~(p = "outlook" /\ Mail[m].negative)
Got(p, pdf) ==
    pdf \in Accepted => pdf \in Have(p) \/ (p = "gmail" /\ SameText(pdf, Texts(Have(p))))
Covered(p, m) == \A i \in 1 .. AttCount(p, m) : Got(p, Mail[m].atts[i].pdf)

\* What a run without a fault has covered so far.
Covers(p) ==
    Scanning(p) /\ ~fin[p].bad =>
        /\ \A m \in Msgs \ fin[p].todo :
              /\ Due(p, m) /\ m # fin[p].msg
              /\ p = "gmail" \/ clean[p] >= 1 \/ \E r \in fin[p].rows : r.id = m
              => Covered(p, m)
        /\ \A m \in fin[p].todo \cap fin[p].skip :
              Due(p, m) => p = "outlook" /\ (clean[p] >= 1 => Covered(p, m))
        /\ fin[p].pc = "attach" =>
              \A i \in 1 .. AttCount(p, fin[p].msg) :
                 i < fin[p].pos => Got(p, Mail[fin[p].msg].atts[i].pdf)
        /\ fin[p].pc = "links" => Covered(p, fin[p].msg)
        /\ fin[p].msg \notin fin[p].todo /\ \A r \in fin[p].rows : r.id \notin fin[p].todo

\* What completed runs without a fault have covered.
CleanCovers(p) ==
    /\ clean[p] >= 1 =>
          \A m \in Msgs : Due(p, m) /\ (p = "gmail" \/ m \in CachedIds(report)) => Covered(p, m)
    /\ clean[p] >= 2 => \A m \in Msgs : Due(p, m) => Covered(p, m)

IInv ==
    /\ FoldersTyped /\ FindersTyped /\ MonthTyped
    /\ KeptInFolder /\ MergedHoldsOnce /\ Merges
    /\ \A p \in Providers : Copies(p) /\ Knows(p) /\ Chained(p) /\ Covers(p) /\ CleanCovers(p)

-----------------------------------------------------------------------------
\* Among the numbers up to n + 1 one is not taken by n files.
LEMMA FreeNumber ==
    ASSUME NEW D, IsFiniteSet(D), NEW w
    PROVE  {n \in 1 .. Cardinality(D) + 1 : [wanted |-> w, n |-> n] \notin D} # {}
<1> DEFINE N == 1 .. Cardinality(D) + 1
           f == [n \in N |-> [wanted |-> w, n |-> n]]
<1>1. Cardinality(D) \in Nat
  BY FS_CardinalityType
<1>2. IsFiniteSet(N) /\ Cardinality(N) = Cardinality(D) + 1
  <2>1. 1 \in Int /\ Cardinality(D) + 1 \in Int /\ ~(1 > Cardinality(D) + 1)
    BY <1>1
  <2>2. /\ IsFiniteSet(N)
        /\ Cardinality(N) = IF 1 > Cardinality(D) + 1 THEN 0 ELSE (Cardinality(D) + 1) - 1 + 1
    BY <2>1, FS_Interval
  <2> QED
    BY <1>1, <2>2
<1>3. ASSUME \A n \in N : [wanted |-> w, n |-> n] \in D PROVE FALSE
  <2>1. f \in [N -> D]
    BY <1>3
  <2>2. Cardinality(D) < Cardinality(N)
    BY <1>1, <1>2
  <2> HIDE DEF N, f
  <2>3. PICK i, j \in N : i # j /\ f[i] = f[j]
    BY <1>2, <2>1, <2>2, FS_PigeonHole
  <2>4. [wanted |-> w, n |-> i] = [wanted |-> w, n |-> j]
    BY <2>3 DEF f
  <2>5. [wanted |-> w, n |-> i].n = [wanted |-> w, n |-> j].n
    BY <2>4
  <2> QED
    BY <2>3, <2>5
<1> QED
  BY <1>3

\* A set of numbers has a least one.
LEMMA LeastNumber ==
    ASSUME NEW S \in SUBSET Nat, S # {}
    PROVE  \E n \in S : \A k \in S : n <= k
<1>1. PICK n \in S : \A k \in S : ~(<<k, n>> \in OpToRel(<, Nat))
  BY NatLessThanWellFounded, WFMin
<1>2. \A k \in S : ~(k < n)
  BY <1>1 DEF OpToRel
<1> QED
  BY <1>2

\* ensure_unique_path gives a path that is free.
LEMMA PathIsFree ==
    ASSUME NEW F, IsFiniteSet(DOMAIN F), NEW w
    PROVE  /\ UniquePath(F, w) \notin DOMAIN F
           /\ UniquePath(F, w).wanted = w /\ UniquePath(F, w).n \in Nat
           /\ UniquePath(F, w) = [wanted |-> w, n |-> UniquePath(F, w).n]
<1> DEFINE free == {n \in 1 .. Cardinality(DOMAIN F) + 1 : [wanted |-> w, n |-> n] \notin DOMAIN F}
           least == CHOOSE n \in free : \A k \in free : n <= k
<1>1. free # {} /\ free \in SUBSET Nat
  BY FreeNumber, FS_CardinalityType
<1> HIDE DEF free
<1>2. least \in free
  BY <1>1, LeastNumber
<1>3. UniquePath(F, w) = [wanted |-> w, n |-> least]
  BY DEF UniquePath, free
<1>4. least \in Nat /\ [wanted |-> w, n |-> least] \notin DOMAIN F
  BY <1>1, <1>2 DEF free
<1> HIDE DEF least
<1> QED
  BY <1>3, <1>4

\* A file is added ...
LEMMA Putting ==
    ASSUME NEW F, NEW q, NEW v, q \notin DOMAIN F
    PROVE  /\ DOMAIN Put(F, q, v) = DOMAIN F \cup {q}
           /\ Put(F, q, v)[q] = v
           /\ \A x \in DOMAIN F : Put(F, q, v)[x] = F[x]
           /\ Range(Put(F, q, v)) = Range(F) \cup {v}
           /\ IsFiniteSet(DOMAIN F) => IsFiniteSet(DOMAIN Put(F, q, v))
<1>1. /\ DOMAIN Put(F, q, v) = DOMAIN F \cup {q}
      /\ Put(F, q, v)[q] = v
      /\ \A x \in DOMAIN F : Put(F, q, v)[x] = F[x]
  BY DEF Put
<1>2. Range(Put(F, q, v)) = Range(F) \cup {v}
  BY <1>1 DEF Range
<1> QED
  BY <1>1, <1>2, FS_AddElement

\* ... or taken away.
LEMMA Removing ==
    ASSUME NEW F, NEW q \in DOMAIN F
    PROVE  /\ DOMAIN Remove(F, q) = DOMAIN F \ {q}
           /\ \A x \in DOMAIN F \ {q} : Remove(F, q)[x] = F[x]
           /\ Range(F) = Range(Remove(F, q)) \cup {F[q]}
           /\ IsFiniteSet(DOMAIN F) => IsFiniteSet(DOMAIN Remove(F, q))
<1>1. /\ DOMAIN Remove(F, q) = DOMAIN F \ {q}
      /\ \A x \in DOMAIN F \ {q} : Remove(F, q)[x] = F[x]
  BY DEF Remove, Restrict
<1>2. Range(F) = Range(Remove(F, q)) \cup {F[q]}
  BY <1>1 DEF Range
<1> QED
  BY <1>1, <1>2, FS_RemoveElement

\* The files the monthly run lists are among those the Gmail finder indexes.
LEMMA Suffixes ==
    ASSUME NEW F
    PROVE  Listed(F) \subseteq Indexed(F) /\ Indexed(F) \subseteq DOMAIN F
BY PdfIsSuffix DEF Listed, Indexed

\* A folder that grows keeps its files under their names.
LEMMA IndexGrows ==
    ASSUME NEW F, NEW G, DOMAIN F \subseteq DOMAIN G, \A q \in DOMAIN F : G[q] = F[q]
    PROVE  /\ Indexed(F) = Indexed(G) \cap DOMAIN F /\ Listed(F) = Listed(G) \cap DOMAIN F
           /\ \A q \in Listed(F) : G[q] = F[q]
           /\ At(F, Indexed(F)) \subseteq At(G, Indexed(G))
<1>1. Indexed(F) = Indexed(G) \cap DOMAIN F /\ Listed(F) = Listed(G) \cap DOMAIN F
  BY DEF Indexed, Listed
<1> QED
  BY <1>1, Suffixes DEF At

-----------------------------------------------------------------------------
\* A run that differs in where it is and what it has noted, not in what it knows.
Rows(m) == {[id |-> m, reason |-> r] : r \in Reasons}
SameKnowledge(f, g) == g.hash = f.hash /\ g.text = f.text /\ g.mine = f.mine
SameList(f, g) == g.todo = f.todo /\ g.skip = f.skip
SameMessage(f, g) == g.msg = f.msg /\ g.saved = f.saved

\* A row of the report is noted for the open message.
LEMMA Noting ==
    ASSUME NEW f \in Runs, NEW p, NEW R \in SUBSET Reasons, f.msg \in Msgs
    PROVE  LET g == WithRows(p, f, R)
           IN  /\ g \in Runs /\ SameKnowledge(f, g) /\ SameList(f, g) /\ SameMessage(f, g)
               /\ g.pc = f.pc /\ g.pos = f.pos /\ g.stem = f.stem /\ g.bad = f.bad
               /\ g.rows \subseteq f.rows \cup Rows(f.msg)
<1> DEFINE new == {[id |-> f.msg, reason |-> r] : r \in R}
           g == WithRows(p, f, R)
<1>1. new \subseteq Row /\ new \subseteq Rows(f.msg)
  BY DEF Row, Rows
<1>2. g = f \/ g = [f EXCEPT !.rows = f.rows \cup new]
  BY DEF WithRows
<1> HIDE DEF new, g
<1>3. /\ g \in Runs
      /\ g.hash = f.hash /\ g.text = f.text /\ g.mine = f.mine /\ g.todo = f.todo
      /\ g.skip = f.skip /\ g.msg = f.msg /\ g.saved = f.saved
      /\ g.pc = f.pc /\ g.pos = f.pos /\ g.stem = f.stem /\ g.bad = f.bad
      /\ g.rows \subseteq f.rows \cup new
  BY <1>1, <1>2 DEF Runs
<1> QED
  BY <1>1, <1>3 DEF g, SameKnowledge, SameList, SameMessage

\* The next attachment or link.
LEMMA Advancing ==
    ASSUME NEW f \in Runs
    PROVE  LET g == Advanced(f)
           IN  /\ g \in Runs /\ SameKnowledge(f, g) /\ SameList(f, g) /\ SameMessage(f, g)
               /\ g.pc = f.pc /\ g.pos = f.pos + 1 /\ g.stem = f.stem /\ g.bad = f.bad
               /\ g.rows = f.rows
<1> DEFINE g == Advanced(f)
<1>1. g = [f EXCEPT !.pos = f.pos + 1]
  BY DEF Advanced
<1> HIDE DEF g
<1>2. /\ g \in Runs
      /\ g.hash = f.hash /\ g.text = f.text /\ g.mine = f.mine /\ g.todo = f.todo
      /\ g.skip = f.skip /\ g.msg = f.msg /\ g.saved = f.saved
      /\ g.pc = f.pc /\ g.pos = f.pos + 1 /\ g.stem = f.stem /\ g.bad = f.bad
      /\ g.rows = f.rows
  BY <1>1 DEF Runs
<1> QED
  BY <1>2 DEF g, SameKnowledge, SameList, SameMessage

Taken(f, m, to) == [f EXCEPT !.pc = to, !.todo = @ \ {m}, !.skip = @ \cup {m}, !.msg = m]

\* A message is taken from the list.
LEMMA Opening ==
    ASSUME NEW f \in Runs, NEW m \in Msgs, NEW to \in {"scan", "attach", "links"},
           NEW g, g = Taken(f, m, to)
    PROVE  /\ g \in Runs /\ SameKnowledge(f, g)
           /\ g.pc = to /\ g.todo = f.todo \ {m} /\ g.skip = f.skip \cup {m} /\ g.msg = m
           /\ g.pos = f.pos /\ g.bad = f.bad /\ g.rows = f.rows
<1>1. /\ g \in Runs
      /\ g.hash = f.hash /\ g.text = f.text /\ g.mine = f.mine
      /\ g.pc = to /\ g.todo = f.todo \ {m} /\ g.skip = f.skip \cup {m} /\ g.msg = m
      /\ g.pos = f.pos /\ g.bad = f.bad /\ g.rows = f.rows
  BY DEF Runs, Taken
<1> QED
  BY <1>1 DEF SameKnowledge

\* A message is left.
LEMMA Closing ==
    ASSUME NEW f \in Runs, f.msg \in Msgs, NEW p, NEW R \in SUBSET Reasons
    PROVE  LET g == Closed(p, f, R)
           IN  /\ g \in Runs /\ SameKnowledge(f, g) /\ SameList(f, g)
               /\ g.pc = "scan" /\ g.msg = NoMsg /\ g.pos = 1
               /\ g.bad = f.bad /\ g.rows \subseteq f.rows \cup Rows(f.msg)
<1> DEFINE h == WithRows(p, f, R)
           g == [h EXCEPT !.pc = "scan", !.msg = NoMsg, !.pos = 1, !.saved = FALSE]
<1>1. /\ h \in Runs /\ SameKnowledge(f, h) /\ SameList(f, h)
      /\ h.bad = f.bad /\ h.rows \subseteq f.rows \cup Rows(f.msg)
  BY Noting
<1>2. Closed(p, f, R) = g
  BY DEF Closed
<1>3. g = [h EXCEPT !.pc = "scan", !.msg = NoMsg, !.pos = 1, !.saved = FALSE]
  OBVIOUS
<1> HIDE DEF h, g
<1>4. /\ g \in Runs
      /\ g.hash = h.hash /\ g.text = h.text /\ g.mine = h.mine /\ g.todo = h.todo
      /\ g.skip = h.skip /\ g.bad = h.bad /\ g.rows = h.rows
      /\ g.pc = "scan" /\ g.msg = NoMsg /\ g.pos = 1
  <2>1. h \in Runs
    BY <1>1
  <2>2. /\ g.hash = h.hash /\ g.text = h.text /\ g.mine = h.mine /\ g.todo = h.todo
        /\ g.skip = h.skip /\ g.bad = h.bad /\ g.rows = h.rows /\ g.stem = h.stem
        /\ g.pc = "scan" /\ g.msg = NoMsg /\ g.pos = 1 /\ g.saved = FALSE
    BY <2>1, <1>3 DEF Runs
  <2>3. g \in Runs
    <3> DEFINE k == [h EXCEPT !.pc = "scan", !.msg = NoMsg, !.pos = 1]
    <3>1. k \in Runs
      <4> DEFINE k1 == [h EXCEPT !.pc = "scan"]
                 k2 == [k1 EXCEPT !.msg = NoMsg]
      <4>1. k1 \in Runs
        BY <2>1 DEF Runs
      <4>2. k = [k2 EXCEPT !.pos = 1]
        BY <2>1, <1>3 DEF Runs
      <4> HIDE DEF k1, k
      <4>3. k2 \in Runs
        BY <4>1 DEF Runs
      <4> HIDE DEF k2
      <4> QED
        BY <4>2, <4>3 DEF Runs
    <3>2. g = [k EXCEPT !.saved = FALSE]
      BY <2>1, <1>3 DEF Runs
    <3> HIDE DEF k
    <3> QED
      BY <3>1, <3>2 DEF Runs
  <2> QED
    BY <2>2, <2>3
<1>5. /\ SameKnowledge(f, g) /\ SameList(f, g)
      /\ g.bad = f.bad /\ g.rows \subseteq f.rows \cup Rows(f.msg)
  BY <1>1, <1>4 DEF SameKnowledge, SameList
<1> QED
  BY <1>2, <1>4, <1>5

\* A call that fails spoils the run.
LEMMA Spoiling ==
    ASSUME NEW f \in Runs
    PROVE  LET g == [f EXCEPT !.bad = TRUE]
           IN  /\ g \in Runs /\ SameKnowledge(f, g) /\ SameList(f, g)
               /\ g.pc = f.pc /\ g.msg = f.msg /\ g.pos = f.pos /\ g.bad
<1> DEFINE g == [f EXCEPT !.bad = TRUE]
<1>1. /\ g \in Runs /\ g.bad = TRUE
      /\ g.hash = f.hash /\ g.text = f.text /\ g.mine = f.mine /\ g.todo = f.todo
      /\ g.skip = f.skip /\ g.pc = f.pc /\ g.msg = f.msg /\ g.pos = f.pos
  BY DEF Runs
<1> HIDE DEF g
<1> QED
  BY <1>1 DEF g, SameKnowledge, SameList

\* A run that has ended remembers what it has saved.
LEMMA Ending ==
    ASSUME NEW M \in SUBSET Paths, NEW to \in {"ok", "failed"}
    PROVE  LET g == [Idle EXCEPT !.pc = to, !.mine = M]
           IN  g \in Runs /\ g.pc = to /\ g.mine = M /\ g.todo = {}
<1>1. Idle \in Runs /\ Idle.todo = {}
  BY DEF Idle, Runs
<1>2. [Idle EXCEPT !.pc = to, !.mine = M] \in Runs
  BY <1>1 DEF Runs
<1> QED
  BY <1>1, <1>2 DEF Runs

-----------------------------------------------------------------------------
(* The kinds of steps a finder takes. *)

\* It stays with its message and the list, and may note something.
Stays(f, g) ==
    /\ SameList(f, g) /\ g.pc = f.pc /\ g.msg = f.msg /\ g.bad = f.bad
    /\ g.rows \subseteq f.rows \cup Rows(f.msg)

\* It takes a message from the list.
Takes(f, g, m) ==
    /\ f.pc = "scan" /\ m \in f.todo
    /\ g.todo = f.todo \ {m} /\ g.skip = f.skip \cup {m} /\ SameKnowledge(f, g)
    /\ g.pos = f.pos /\ g.bad = f.bad

\* A PDF a run does not save: refused, or a copy of what it knows.
Refused(p, f, pdf) == pdf \notin Accepted \/ Known(p, f, pdf)

\* The PDF of an attachment or a link is saved under a new path.
Stored(p, f, g, pdf) ==
    \E q \in Paths \ DOMAIN folder[p] :
        /\ pdf \in Accepted \ f.hash
        /\ folder' = [folder EXCEPT ![p] = Put(@, q, pdf)]
        /\ g.hash = f.hash \cup {pdf} /\ g.text = f.text \cup Texts({pdf})
        /\ g.mine = f.mine \cup {q}

\* Nothing but the run itself changes.
Steady == folder' = folder /\ report' = report /\ clean' = clean

Skips(p, f, g) ==
    /\ Steady /\ g.pc = "scan" /\ g.msg = NoMsg
    /\ \E m \in Msgs :
        /\ Takes(f, g, m)
        /\ \/ m \in f.skip /\ g.rows = f.rows
           \/ ~Due(p, m) /\ g.rows \subseteq f.rows \cup Rows(m)
Opens(p, f, g) ==
    /\ Steady /\ g.pc = "attach" /\ g.rows = f.rows
    /\ \E m \in Msgs : Takes(f, g, m) /\ g.msg = m /\ m \notin f.skip
Spoils(p, f, g) ==
    /\ Steady /\ g.bad /\ SameKnowledge(f, g) /\ g.todo \subseteq f.todo
    /\ {f.pc, g.pc} \subseteq {"scan", "attach", "links"}
    /\ g.pc \in {"attach", "links"} => g.msg \in Msgs /\ Mail[g.msg].box = p
    /\ g.pc = "scan" => g.msg = NoMsg /\ g.pos = 1
Passes(p, f, g) ==
    /\ Steady /\ f.pc \in {"attach", "links"} /\ SameKnowledge(f, g)
    /\ Stays(f, g) /\ g.pos = f.pos + 1
    /\ f.pc = "attach" => Refused(p, f, Mail[f.msg].atts[f.pos].pdf)
Saves(p, f, g) ==
    /\ report' = report /\ clean' = clean /\ f.pc \in {"attach", "links"}
    /\ Stays(f, g) /\ g.pos = f.pos + 1
    /\ \E pdf \in Pdfs : /\ Stored(p, f, g, pdf)
                         /\ f.pc = "attach" => pdf = Mail[f.msg].atts[f.pos].pdf
Turns(p, f, g) ==
    /\ Steady /\ SameKnowledge(f, g) /\ SameList(f, g)
    /\ f.pc = "attach" /\ f.pos > AttCount(p, f.msg)
    /\ g.pc = "links" /\ g.msg = f.msg /\ g.pos = 1 /\ g.bad = f.bad /\ g.rows = f.rows
Closes(p, f, g) ==
    /\ Steady /\ SameKnowledge(f, g) /\ SameList(f, g)
    /\ f.pc = "links" /\ g.pc = "scan" /\ g.msg = NoMsg /\ g.pos = 1
    /\ g.bad = f.bad /\ g.rows \subseteq f.rows \cup Rows(f.msg)
Stops(p, f, g) ==
    /\ folder' = folder /\ g.pc \in {"ok", "failed"} /\ g.mine = f.mine /\ g.todo = {}
    /\ \/ /\ f.pc = "scan" /\ f.todo = {}
          /\ report' = IF p = "outlook" THEN f.rows ELSE report
          /\ clean' = [clean EXCEPT ![p] = IF f.bad THEN 0 ELSE IF @ = 2 THEN 2 ELSE @ + 1]
       \/ clean' = clean /\ report' \in {report, {}} /\ (p = "gmail" => report' = report)

Kinds(p, f, g) ==
    \/ Skips(p, f, g) \/ Opens(p, f, g) \/ Spoils(p, f, g) \/ Passes(p, f, g)
    \/ Saves(p, f, g) \/ Turns(p, f, g) \/ Closes(p, f, g) \/ Stops(p, f, g)

\* Only the finder p moves, from a run f to a run g.
Moves(p, g) ==
    /\ fin' = [fin EXCEPT ![p] = g] /\ g \in Runs
    /\ dups' = dups /\ faults' \in 0 .. MaxFaults

\* What is decided about a PDF that was downloaded.
LEMMA Deciding ==
    ASSUME NEW p \in Providers, NEW f \in Runs, f.msg \in Msgs,
           FoldersTyped, FindersTyped, NEW linked \in BOOLEAN,
           NEW item \in Item, item.pdf # NoPdf, Decide(p, f, item, linked)
    PROVE  \E g \in Runs :
              /\ fin' = [fin EXCEPT ![p] = g]
              /\ Stays(f, g) /\ g.pos = f.pos
              /\ \/ /\ folder' = folder /\ SameKnowledge(f, g)
                    /\ linked \/ Refused(p, f, item.pdf)
                 \/ Stored(p, f, g, item.pdf)
<1> DEFINE want == Wanted(f, item)
           stem == Stem([wanted |-> want, n |-> 1])
           verdict == Verdict(p, f, item.pdf, stem, linked)
           path == UniquePath(folder[p], want)
           noted == WithRows(p, f, {verdict})
           kept == [noted EXCEPT !.saved = TRUE,
                                 !.hash = @ \cup {item.pdf},
                                 !.text = @ \cup Texts({item.pdf}),
                                 !.stem = IF linked THEN @ \cup {stem} ELSE @,
                                 !.mine = @ \cup {path}]
<1>1. want \in Wants /\ item.pdf \in Pdfs
  BY DEF Wanted, Wants, Item
<1>2. path \notin DOMAIN folder[p] /\ path \in Paths
  <2>1. IsFiniteSet(DOMAIN folder[p])
    BY DEF FoldersTyped
  <2>2. path \notin DOMAIN folder[p] /\ path = [wanted |-> want, n |-> path.n] /\ path.n \in Nat
    BY <2>1, PathIsFree
  <2> HIDE DEF path, want
  <2> QED
    BY <1>1, <2>2 DEF Paths
<1>3. verdict \in Reasons /\ {verdict} \in SUBSET Reasons
  BY DEF Verdict, Reasons
<1>4. stem \in StemKeys
  <2>1. [wanted |-> want, n |-> 1] \in Paths
    BY <1>1 DEF Paths
  <2> QED
    BY <2>1 DEF StemKeys
<1>5. IF verdict = "saved"
      THEN folder' = [folder EXCEPT ![p] = Put(@, path, item.pdf)] /\ fin' = [fin EXCEPT ![p] = kept]
      ELSE folder' = folder /\ fin' = [fin EXCEPT ![p] = noted]
  BY DEF Decide
<1>6. verdict # "saved" => linked \/ Refused(p, f, item.pdf)
  BY DEF Verdict, Refused, StemTaken
<1>7. verdict = "saved" => item.pdf \in Accepted \ f.hash
  BY DEF Verdict, Known
<1> HIDE DEF want, stem, verdict, path
<1>8. noted \in Runs /\ SameKnowledge(f, noted) /\ Stays(f, noted) /\ noted.pos = f.pos
  <2>1. /\ noted \in Runs /\ SameKnowledge(f, noted) /\ SameList(f, noted) /\ SameMessage(f, noted)
        /\ noted.pc = f.pc /\ noted.pos = f.pos /\ noted.bad = f.bad
        /\ noted.rows \subseteq f.rows \cup Rows(f.msg)
    BY <1>3, Noting
  <2> HIDE DEF noted
  <2> QED
    BY <2>1 DEF Stays, SameMessage
<1> HIDE DEF noted
<1>9. CASE verdict # "saved"
  BY <1>5, <1>6, <1>8, <1>9
<1>10. CASE verdict = "saved"
  <2>1. Texts({item.pdf}) \in SUBSET Range(Text)
    BY <1>1, TextIsTotal DEF Texts, Range
  <2>2. kept \in Runs
    <3> DEFINE k1 == [noted EXCEPT !.saved = TRUE]
               k2 == [k1 EXCEPT !.hash = @ \cup {item.pdf}, !.text = @ \cup Texts({item.pdf})]
               k3 == [k2 EXCEPT !.stem = IF linked THEN @ \cup {stem} ELSE @]
    <3>1. k1 \in Runs
      BY <1>8 DEF Runs
    <3>2. kept = [k3 EXCEPT !.mine = @ \cup {path}]
      BY <1>8 DEF Runs
    <3> HIDE DEF kept, k1
    <3>3. k2 \in Runs
      BY <1>1, <2>1, <3>1 DEF Runs
    <3> HIDE DEF k2
    <3>4. k3 \in Runs
      BY <1>4, <3>3 DEF Runs
    <3> HIDE DEF k3
    <3> QED
      BY <1>2, <3>2, <3>4 DEF Runs
  <2>3. /\ kept.hash = noted.hash \cup {item.pdf} /\ kept.text = noted.text \cup Texts({item.pdf})
        /\ kept.mine = noted.mine \cup {path} /\ kept.pc = noted.pc /\ kept.pos = noted.pos
        /\ kept.todo = noted.todo /\ kept.skip = noted.skip /\ kept.msg = noted.msg
        /\ kept.bad = noted.bad /\ kept.rows = noted.rows
    BY <1>8 DEF Runs
  <2>4. fin' = [fin EXCEPT ![p] = kept] /\ folder' = [folder EXCEPT ![p] = Put(@, path, item.pdf)]
    BY <1>5, <1>10
  <2> HIDE DEF kept
  <2>5. Stays(f, kept) /\ kept.pos = f.pos
    BY <1>8, <2>3 DEF Stays, SameList
  <2>6. Stored(p, f, kept, item.pdf)
    BY <1>2, <1>7, <1>8, <1>10, <2>3, <2>4 DEF Stored, SameKnowledge
  <2> QED
    BY <2>2, <2>4, <2>5, <2>6
<1> QED
  BY <1>9, <1>10

\* A step that met a fault.
LEMMA Failing ==
    ASSUME NEW p \in Providers, NEW f \in Runs, NEW h \in Runs, FindersTyped,
           SameKnowledge(f, h), h.todo \subseteq f.todo,
           f.pc \in {"scan", "attach", "links"}, h.pc \in {"scan", "attach", "links"},
           h.pc \in {"attach", "links"} => h.msg \in Msgs /\ Mail[h.msg].box = p,
           h.pc = "scan" => h.msg = NoMsg /\ h.pos = 1,
           Fault, UNCHANGED <<folder, dups, report, clean>>,
           fin' = [fin EXCEPT ![p] = [h EXCEPT !.bad = TRUE]]
    PROVE  \E g : Moves(p, g) /\ Kinds(p, f, g)
<1> DEFINE g == [h EXCEPT !.bad = TRUE]
<1>1. /\ g \in Runs /\ SameKnowledge(h, g) /\ SameList(h, g)
      /\ g.pc = h.pc /\ g.msg = h.msg /\ g.pos = h.pos /\ g.bad
  BY Spoiling
<1>2. fin' = [fin EXCEPT ![p] = g]
  OBVIOUS
<1> HIDE DEF g
<1>3. Spoils(p, f, g)
  BY <1>1 DEF Spoils, Steady, SameKnowledge, SameList
<1>4. faults' \in 0 .. MaxFaults
  BY MaxFaultsIsNat DEF Fault, FindersTyped
<1>5. Moves(p, g)
  BY <1>1, <1>2, <1>4 DEF Moves
<1> QED
  BY <1>3, <1>5 DEF Kinds

\* The messages of a list that are passed over or opened.
LEMMA Choosing ==
    ASSUME NEW p \in Providers, FindersTyped, 
           PassOver(p) \/ \E m \in Msgs : OpenMessage(p, m) \/ OpenFails(p, m)
    PROVE  \E g : Moves(p, g) /\ Kinds(p, fin[p], g)
<1> DEFINE f == fin[p]
<1>1. f \in Runs /\ f.todo \subseteq {m \in Msgs : Mail[m].box = p}
  BY DEF FindersTyped
<1>2. f.pc = "scan" => f.msg = NoMsg /\ f.pos = 1
  BY DEF FindersTyped
<1>3. faults \in 0 .. MaxFaults
  BY DEF FindersTyped
<1>4. CASE PassOver(p)
  <2>1. PICK m \in f.todo :
          LET h == [f EXCEPT !.todo = @ \ {m}, !.skip = @ \cup {m}]
          IN  \/ /\ m \in f.skip \/ ~Considered(p, m)
                 /\ fin' = [fin EXCEPT ![p] = h]
              \/ /\ p = "outlook" /\ m \notin f.skip
                 /\ Considered(p, m) /\ Mail[m].negative
                 /\ fin' = [fin EXCEPT ![p] =
                     [WithRows(p, [h EXCEPT !.msg = m], {"negative_context"})
                        EXCEPT !.msg = NoMsg]]
    BY <1>4 DEF PassOver
  <2>2. f.pc = "scan" /\ UNCHANGED <<folder, dups, report, clean, faults>>
    BY <1>4 DEF PassOver
  <2> DEFINE h == [f EXCEPT !.todo = @ \ {m}, !.skip = @ \cup {m}]
             k == [h EXCEPT !.msg = m]
             w == WithRows(p, k, {"negative_context"})
             g == [w EXCEPT !.msg = NoMsg]
  <2>3. m \in Msgs
    BY <1>1
  <2>4. /\ h \in Runs /\ SameKnowledge(f, h) /\ h.pc = f.pc /\ h.todo = f.todo \ {m}
        /\ h.skip = f.skip \cup {m} /\ h.msg = f.msg /\ h.pos = f.pos /\ h.bad = f.bad /\ h.rows = f.rows
    BY <1>1, <2>3 DEF Runs, SameKnowledge
  <2>5. CASE (m \in f.skip \/ ~Considered(p, m)) /\ fin' = [fin EXCEPT ![p] = h]
    <3> HIDE DEF f, h
    <3>1. Takes(f, h, m) /\ h.pc = "scan" /\ h.msg = NoMsg /\ h.rows \subseteq f.rows \cup Rows(m)
      BY <1>2, <2>2, <2>4 DEF Takes
    <3>2. m \in f.skip \/ ~Due(p, m)
      BY <2>5 DEF Due
    <3>3. Skips(p, f, h)
      BY <2>2, <2>3, <2>4, <3>1, <3>2 DEF Skips, Steady
    <3>4. Moves(p, h)
      BY <1>3, <2>2, <2>4, <2>5 DEF Moves
    <3> QED
      BY <3>3, <3>4 DEF Kinds, f
  <2>6. CASE p = "outlook" /\ Mail[m].negative /\ fin' = [fin EXCEPT ![p] = g]
    <3> HIDE DEF h, f
    <3>1. /\ k \in Runs /\ SameKnowledge(h, k) /\ k.pc = h.pc /\ k.todo = h.todo /\ k.skip = h.skip
          /\ k.msg = m /\ k.pos = h.pos /\ k.bad = h.bad /\ k.rows = h.rows
      BY <2>3, <2>4 DEF Runs, SameKnowledge
    <3> HIDE DEF k
    <3>2. {"negative_context"} \in SUBSET Reasons
      BY DEF Reasons
    <3>3. /\ w \in Runs /\ SameKnowledge(k, w) /\ SameList(k, w) /\ w.pc = k.pc /\ w.pos = k.pos
          /\ w.bad = k.bad /\ w.rows \subseteq k.rows \cup Rows(k.msg)
      BY <2>3, <3>1, <3>2, Noting
    <3> HIDE DEF w
    <3>4. /\ g \in Runs /\ SameKnowledge(w, g) /\ g.pc = w.pc /\ g.todo = w.todo /\ g.skip = w.skip
          /\ g.msg = NoMsg /\ g.pos = w.pos /\ g.bad = w.bad /\ g.rows = w.rows
      BY <3>3 DEF Runs, SameKnowledge
    <3> HIDE DEF g
    <3>5. Takes(f, g, m) /\ g.pc = "scan" /\ g.rows \subseteq f.rows \cup Rows(m)
      BY <1>2, <2>2, <2>4, <3>1, <3>3, <3>4 DEF Takes, SameList, SameKnowledge
    <3>6. Skips(p, f, g)
      BY <2>2, <2>3, <2>6, <3>4, <3>5 DEF Skips, Steady, Due
    <3>7. Moves(p, g)
      BY <1>3, <2>2, <2>6, <3>4 DEF Moves
    <3> QED
      BY <3>6, <3>7 DEF Kinds, f
  <2> QED
    BY <2>1, <2>5, <2>6
<1>5. ASSUME NEW m \in Msgs, OpenMessage(p, m)
      PROVE  \E g : Moves(p, g) /\ Kinds(p, f, g)
  <2> DEFINE g == Taken(f, m, "attach")
  <2>1. /\ fin' = [fin EXCEPT ![p] = g] /\ UNCHANGED <<folder, dups, report, clean, faults>>
        /\ f.pc = "scan" /\ m \in f.todo \ f.skip
    BY <1>5 DEF OpenMessage, Opened, Openable, Taken
  <2>2. /\ g \in Runs /\ SameKnowledge(f, g)
        /\ g.pc = "attach" /\ g.todo = f.todo \ {m} /\ g.skip = f.skip \cup {m} /\ g.msg = m
        /\ g.pos = f.pos /\ g.bad = f.bad /\ g.rows = f.rows
    BY <1>1, Opening
  <2> HIDE DEF f, g
  <2>3. Opens(p, f, g)
    BY <2>1, <2>2 DEF Opens, Steady, Takes
  <2>4. Moves(p, g)
    BY <1>3, <2>1, <2>2 DEF Moves
  <2> QED
    BY <2>3, <2>4 DEF Kinds
<1>6. ASSUME NEW m \in Msgs, OpenFails(p, m)
      PROVE  \E g : Moves(p, g) /\ Kinds(p, f, g)
  <2>1. f.pc = "scan" /\ m \in f.todo /\ Fault /\ UNCHANGED <<folder, dups, report, clean>>
    BY <1>6 DEF OpenFails, Openable
  <2> DEFINE a == Taken(f, m, "scan")
             b == Taken(f, m, "links")
             c == [a EXCEPT !.msg = NoMsg]
             d == WithRows(p, b, {"attachments_list_fail"})
  <2>2. \/ fin' = [fin EXCEPT ![p] = [a EXCEPT !.msg = NoMsg, !.bad = TRUE]]
        \/ fin' = [fin EXCEPT ![p] = [d EXCEPT !.bad = TRUE]]
    BY <1>6 DEF OpenFails, Opened, Taken
  <2>3. /\ a \in Runs /\ SameKnowledge(f, a) /\ a.todo = f.todo \ {m} /\ a.pos = f.pos /\ a.pc = "scan"
    BY <1>1, Opening
  <2>4. /\ b \in Runs /\ SameKnowledge(f, b) /\ b.todo = f.todo \ {m} /\ b.msg = m /\ b.pc = "links"
    BY <1>1, Opening
  <2>5. {"attachments_list_fail"} \in SUBSET Reasons /\ Mail[m].box = p
    BY <1>1, <2>1 DEF Reasons
  <2> HIDE DEF a, b, f
  <2>6. CASE fin' = [fin EXCEPT ![p] = [a EXCEPT !.msg = NoMsg, !.bad = TRUE]]
    <3>1. c \in Runs /\ SameKnowledge(f, c) /\ c.todo = a.todo /\ c.pos = a.pos /\ c.pc = "scan" /\ c.msg = NoMsg
      BY <2>3 DEF Runs, SameKnowledge
    <3>2. [a EXCEPT !.msg = NoMsg, !.bad = TRUE] = [c EXCEPT !.bad = TRUE]
      BY <2>3 DEF Runs
    <3>3. fin' = [fin EXCEPT ![p] = [c EXCEPT !.bad = TRUE]]
      BY <2>6, <3>2
    <3> HIDE DEF c
    <3>4. c.todo \subseteq f.todo /\ c.pos = 1
      BY <1>2, <2>1, <2>3, <3>1
    <3> QED
      BY <1>1, <2>1, <3>1, <3>3, <3>4, Failing
  <2>7. CASE fin' = [fin EXCEPT ![p] = [d EXCEPT !.bad = TRUE]]
    <3>1. /\ d \in Runs /\ SameKnowledge(b, d) /\ SameList(b, d) /\ SameMessage(b, d) /\ d.pc = b.pc
      BY <2>4, <2>5, Noting
    <3> HIDE DEF d
    <3>2. SameKnowledge(f, d) /\ d.todo \subseteq f.todo /\ d.pc = "links" /\ d.msg = m
      BY <2>4, <3>1 DEF SameKnowledge, SameList, SameMessage
    <3> QED
      BY <1>1, <2>1, <2>5, <2>7, <3>1, <3>2, Failing
  <2> QED
    BY <2>2, <2>6, <2>7
<1> QED
  BY <1>4, <1>5, <1>6

\* An attachment or a link that was fetched.
LEMMA Trying ==
    ASSUME NEW p \in Providers, FoldersTyped, FindersTyped,
           fin[p].pc \in {"attach", "links"}, NEW item \in Item, NEW linked \in BOOLEAN,
           fin[p].pc = "attach" => ~linked /\ item = Mail[fin[p].msg].atts[fin[p].pos],
           UNCHANGED <<dups, report, clean, faults>>,
           \/ /\ item.pdf = NoPdf /\ folder' = folder
              /\ fin' \in {[fin EXCEPT ![p] = Advanced(fin[p])], [fin EXCEPT ![p] = NoBezeqPdf(p, fin[p])]}
           \/ item.pdf # NoPdf /\ Decide(p, Advanced(fin[p]), item, linked)
    PROVE  \E g : Moves(p, g) /\ Kinds(p, fin[p], g)
<1> DEFINE f == fin[p]
           a == Advanced(f)
           b == WithRows(p, a, {"bezeq_no_pdf"})
<1>1. f \in Runs /\ f.msg \in Msgs /\ f.pc \in {"attach", "links"} /\ faults \in 0 .. MaxFaults
  BY DEF FindersTyped
<1>2. /\ a \in Runs /\ SameKnowledge(f, a) /\ SameList(f, a) /\ SameMessage(f, a)
      /\ a.pc = f.pc /\ a.pos = f.pos + 1 /\ a.bad = f.bad /\ a.rows = f.rows
  BY <1>1, Advancing
<1>3. NoBezeqPdf(p, f) = b
  BY DEF NoBezeqPdf
<1>4. f.pc = "attach" => ~linked /\ item = Mail[f.msg].atts[f.pos]
  OBVIOUS
<1>5. \/ item.pdf = NoPdf /\ folder' = folder /\ fin' = [fin EXCEPT ![p] = a]
      \/ item.pdf = NoPdf /\ folder' = folder /\ fin' = [fin EXCEPT ![p] = b]
      \/ item.pdf # NoPdf /\ Decide(p, a, item, linked)
  BY <1>3
<1>6. SUFFICES \E g : Moves(p, g) /\ Kinds(p, f, g)
  OBVIOUS
<1> HIDE DEF f, a
<1>7. Stays(f, a)
  BY <1>2 DEF Stays, SameMessage
<1>8. \E g \in Runs : /\ fin' = [fin EXCEPT ![p] = g] /\ Stays(f, g) /\ g.pos = f.pos + 1
                      /\ \/ /\ folder' = folder /\ SameKnowledge(f, g)
                            /\ linked \/ Refused(p, f, item.pdf)
                         \/ Stored(p, f, g, item.pdf)
  <2>1. item.pdf = NoPdf => Refused(p, f, item.pdf)
    BY MarkersAreFresh, AcceptedArePdfs DEF Refused
  <2>2. CASE item.pdf = NoPdf /\ folder' = folder /\ fin' = [fin EXCEPT ![p] = a]
    BY <1>2, <1>7, <2>1, <2>2
  <2>3. CASE item.pdf = NoPdf /\ folder' = folder /\ fin' = [fin EXCEPT ![p] = b]
    <3>1. {"bezeq_no_pdf"} \in SUBSET Reasons /\ a.msg \in Msgs
      BY <1>1, <1>2 DEF Reasons, SameMessage
    <3>2. /\ b \in Runs /\ SameKnowledge(a, b) /\ SameList(a, b) /\ SameMessage(a, b)
          /\ b.pc = a.pc /\ b.pos = a.pos /\ b.bad = a.bad
          /\ b.rows \subseteq a.rows \cup Rows(a.msg)
      BY <1>2, <3>1, Noting
    <3> HIDE DEF b
    <3>3. SameKnowledge(f, b) /\ Stays(f, b) /\ b.pos = f.pos + 1
      BY <1>2, <3>2 DEF SameKnowledge, SameList, SameMessage, Stays
    <3> QED
      BY <2>1, <2>3, <3>2, <3>3
  <2>4. CASE item.pdf # NoPdf /\ Decide(p, a, item, linked)
    <3>1. PICK g \in Runs : 
              /\ fin' = [fin EXCEPT ![p] = g] /\ Stays(a, g) /\ g.pos = a.pos
              /\ \/ /\ folder' = folder /\ SameKnowledge(a, g)
                    /\ linked \/ Refused(p, a, item.pdf)
                 \/ Stored(p, a, g, item.pdf)
      BY <1>1, <1>2, <2>4, Deciding DEF SameMessage
    <3>2. Refused(p, a, item.pdf) <=> Refused(p, f, item.pdf)
      BY <1>2 DEF Refused, Known, SameKnowledge
    <3>3. Stored(p, a, g, item.pdf) => Stored(p, f, g, item.pdf)
      BY <1>2 DEF Stored, SameKnowledge
    <3>4. Stays(f, g) /\ g.pos = f.pos + 1 /\ (SameKnowledge(a, g) => SameKnowledge(f, g))
      BY <1>2, <1>7, <3>1 DEF Stays, SameKnowledge, SameList
    <3> QED
      BY <3>1, <3>2, <3>3, <3>4
  <2> QED
    BY <1>5, <2>2, <2>3, <2>4
<1>9. PICK g \in Runs : /\ fin' = [fin EXCEPT ![p] = g] /\ Stays(f, g) /\ g.pos = f.pos + 1
                        /\ \/ /\ folder' = folder /\ SameKnowledge(f, g)
                              /\ linked \/ Refused(p, f, item.pdf)
                           \/ Stored(p, f, g, item.pdf)
  BY <1>8
<1>10. Moves(p, g)
  BY <1>1, <1>9 DEF Moves
<1>11. CASE folder' = folder /\ SameKnowledge(f, g) /\ (linked \/ Refused(p, f, item.pdf))
  <2>1. Passes(p, f, g)
    BY <1>1, <1>4, <1>9, <1>11 DEF Passes, Steady
  <2> QED
    BY <1>10, <2>1 DEF Kinds
<1>12. CASE Stored(p, f, g, item.pdf)
  <2>1. item.pdf \in Pdfs
    BY <1>12, AcceptedArePdfs DEF Stored
  <2>2. Saves(p, f, g)
    BY <1>1, <1>4, <1>9, <1>12, <2>1 DEF Saves
  <2> QED
    BY <1>10, <2>2 DEF Kinds
<1> QED
  BY <1>9, <1>11, <1>12

\* The attachments of a message, one after the other.
LEMMA Attaching ==
    ASSUME NEW p \in Providers, FoldersTyped, FindersTyped,
           Attachment(p) \/ AttachmentFails(p) \/ AttachmentsDone(p)
    PROVE  \E g : Moves(p, g) /\ Kinds(p, fin[p], g)
<1> DEFINE f == fin[p]
<1>1. f \in Runs /\ f.pc = "attach" /\ f.msg \in Msgs /\ Mail[f.msg].box = p /\ faults \in 0 .. MaxFaults
  BY DEF FindersTyped, Attachment, AttachmentFails, AttachmentsDone
<1>2. CASE Attachment(p)
  <2>1. f.pos \in DOMAIN Mail[f.msg].atts
    BY <1>2 DEF Attachment, Current
  <2>2. Mail[f.msg].atts[f.pos] \in Item
    BY <1>1, <2>1, MailIsKnown
  <2> QED
    BY <1>1, <1>2, <2>2, Trying DEF Attachment
<1>3. CASE AttachmentFails(p)
  <2> DEFINE a == Advanced(f)
             h == WithRows(p, a, {"attach_download_fail"})
  <2>1. fin' = [fin EXCEPT ![p] = [h EXCEPT !.bad = TRUE]] /\ Fault /\ UNCHANGED <<folder, dups, report, clean>>
    BY <1>3 DEF AttachmentFails
  <2>2. /\ a \in Runs /\ SameKnowledge(f, a) /\ SameList(f, a) /\ SameMessage(f, a) /\ a.pc = f.pc
    BY <1>1, Advancing
  <2> HIDE DEF a
  <2>3. {"attach_download_fail"} \in SUBSET Reasons /\ a.msg \in Msgs
    BY <1>1, <2>2 DEF Reasons, SameMessage
  <2>4. /\ h \in Runs /\ SameKnowledge(a, h) /\ SameList(a, h) /\ SameMessage(a, h) /\ h.pc = a.pc
    BY <2>2, <2>3, Noting
  <2> HIDE DEF h
  <2>5. SameKnowledge(f, h) /\ h.todo \subseteq f.todo /\ h.pc = "attach" /\ h.msg = f.msg
    BY <1>1, <2>2, <2>4 DEF SameKnowledge, SameList, SameMessage
  <2> QED
    BY <1>1, <2>1, <2>4, <2>5, Failing
<1>4. CASE AttachmentsDone(p)
  <2> DEFINE g == [f EXCEPT !.pc = "links", !.pos = 1]
  <2>1. /\ fin' = [fin EXCEPT ![p] = g] /\ f.pos > AttCount(p, f.msg)
        /\ UNCHANGED <<folder, dups, report, clean, faults>>
    BY <1>4 DEF AttachmentsDone
  <2> HIDE DEF f
  <2>2. /\ g \in Runs /\ SameKnowledge(f, g) /\ SameList(f, g) /\ g.pc = "links" /\ g.pos = 1
        /\ g.msg = f.msg /\ g.bad = f.bad /\ g.rows = f.rows
    <3> DEFINE k == [f EXCEPT !.pc = "links"]
    <3>1. /\ k \in Runs /\ SameKnowledge(f, k) /\ SameList(f, k) /\ k.pc = "links"
          /\ k.msg = f.msg /\ k.bad = f.bad /\ k.rows = f.rows
      BY <1>1 DEF Runs, SameKnowledge, SameList
    <3>2. g = [k EXCEPT !.pos = 1]
      BY <1>1 DEF Runs
    <3> HIDE DEF k, g
    <3>3. /\ g \in Runs /\ SameKnowledge(k, g) /\ SameList(k, g) /\ g.pc = k.pc /\ g.pos = 1
          /\ g.msg = k.msg /\ g.bad = k.bad /\ g.rows = k.rows
      BY <3>1, <3>2 DEF Runs, SameKnowledge, SameList
    <3> QED
      BY <3>1, <3>3 DEF SameKnowledge, SameList
  <2> HIDE DEF g
  <2>3. Turns(p, f, g)
    BY <1>1, <2>1, <2>2 DEF Turns, Steady
  <2>4. Moves(p, g)
    BY <1>1, <2>1, <2>2 DEF Moves
  <2> QED
    BY <2>3, <2>4 DEF Kinds, f
<1> QED
  BY <1>2, <1>3, <1>4

\* The links of a message.
LEMMA Linking ==
    ASSUME NEW p \in Providers, FoldersTyped, FindersTyped,
           Link(p) \/ LinkFails(p) \/ BezeqLink(p) \/ BezeqFails(p)
    PROVE  \E g : Moves(p, g) /\ Kinds(p, fin[p], g)
<1> DEFINE f == fin[p]
           a == Advanced(f)
           h == WithRows(p, a, {"bezeq_no_pdf"})
<1>1. f.pc = "links" /\ f.pos \in DOMAIN Mail[f.msg].links
  BY DEF Link, LinkFails, BezeqLink, BezeqFails, AtLink, Current
<1>2. f \in Runs /\ f.msg \in Msgs /\ Mail[f.msg].box = p
  BY <1>1 DEF FindersTyped
<1>3. LinkItem(f) \in Item
  BY <1>1, <1>2, MailIsKnown DEF LinkItem
<1>4. a \in Runs /\ SameKnowledge(f, a) /\ SameList(f, a) /\ SameMessage(f, a) /\ a.pc = f.pc
  BY <1>2, Advancing
<1>5. CASE Link(p)
  BY <1>1, <1>2, <1>3, <1>5, Trying DEF Link
<1>6. CASE BezeqLink(p)
  BY <1>1, <1>2, <1>3, <1>6, Trying DEF BezeqLink
<1>7. CASE LinkFails(p)
  <2>1. fin' = [fin EXCEPT ![p] = [a EXCEPT !.bad = TRUE]] /\ Fault /\ UNCHANGED <<folder, dups, report, clean>>
    BY <1>7 DEF LinkFails
  <2> HIDE DEF a
  <2>2. a.todo \subseteq f.todo /\ a.pc = "links" /\ a.msg = f.msg
    BY <1>1, <1>4 DEF SameList, SameMessage
  <2> QED
    BY <1>2, <1>4, <2>1, <2>2, Failing
<1>8. CASE BezeqFails(p)
  <2>1. fin' = [fin EXCEPT ![p] = [h EXCEPT !.bad = TRUE]] /\ Fault /\ UNCHANGED <<folder, dups, report, clean>>
    BY <1>8 DEF BezeqFails, NoBezeqPdf
  <2> HIDE DEF a
  <2>2. {"bezeq_no_pdf"} \in SUBSET Reasons /\ a.msg \in Msgs
    BY <1>2, <1>4 DEF Reasons, SameMessage
  <2>3. /\ h \in Runs /\ SameKnowledge(a, h) /\ SameList(a, h) /\ SameMessage(a, h) /\ h.pc = a.pc
    BY <1>4, <2>2, Noting
  <2> HIDE DEF h
  <2>4. SameKnowledge(f, h) /\ h.todo \subseteq f.todo /\ h.pc = "links" /\ h.msg = f.msg
    BY <1>1, <1>4, <2>3 DEF SameKnowledge, SameList, SameMessage
  <2> QED
    BY <1>1, <1>2, <2>1, <2>3, <2>4, Failing
<1> QED
  BY <1>5, <1>6, <1>7, <1>8

\* The end of a message and the end of a run.
LEMMA Leaving ==
    ASSUME NEW p \in Providers, FindersTyped,
           EndMessage(p) \/ BodyFails(p) \/ WriteReport(p) \/ Abort(p)
    PROVE  \E g : Moves(p, g) /\ Kinds(p, fin[p], g)
<1> DEFINE f == fin[p]
<1>1. f \in Runs /\ faults \in 0 .. MaxFaults /\ f.mine \in SUBSET Paths
  BY DEF FindersTyped, Runs
<1>2. f.pc = "links" => f.msg \in Msgs /\ Mail[f.msg].box = p
  BY DEF FindersTyped
<1>3. \A links : Rejections(p, f.msg, links) \in SUBSET Reasons
  BY DEF Rejections, Reasons
<1>4. CASE EndMessage(p)
  <2> DEFINE R == IF f.saved THEN {} ELSE Rejections(p, f.msg, Mail[f.msg].links)
             g == Closed(p, f, R)
  <2>1. fin' = [fin EXCEPT ![p] = g] /\ f.pc = "links" /\ UNCHANGED <<folder, dups, report, clean, faults>>
    BY <1>4 DEF EndMessage
  <2>2. R \in SUBSET Reasons
    BY <1>3
  <2> HIDE DEF f, R
  <2>3. /\ g \in Runs /\ SameKnowledge(f, g) /\ SameList(f, g)
        /\ g.pc = "scan" /\ g.msg = NoMsg /\ g.pos = 1
        /\ g.bad = f.bad /\ g.rows \subseteq f.rows \cup Rows(f.msg)
    BY <1>1, <1>2, <2>1, <2>2, Closing
  <2> HIDE DEF g
  <2>4. Closes(p, f, g) /\ Moves(p, g)
    BY <1>1, <2>1, <2>3 DEF Closes, Moves, Steady
  <2> QED
    BY <2>4 DEF Kinds, f
<1>5. CASE BodyFails(p)
  <2> DEFINE R == {"body_fetch_fail"} \cup Rejections(p, f.msg, <<>>)
             h == Closed(p, f, R)
  <2>1. /\ fin' = [fin EXCEPT ![p] = [h EXCEPT !.bad = TRUE]] /\ f.pc = "links"
        /\ Fault /\ UNCHANGED <<folder, dups, report, clean>>
    BY <1>5 DEF BodyFails
  <2>2. R \in SUBSET Reasons
    BY <1>3 DEF Reasons
  <2> HIDE DEF f, R
  <2>3. /\ h \in Runs /\ SameKnowledge(f, h) /\ SameList(f, h)
        /\ h.pc = "scan" /\ h.msg = NoMsg /\ h.pos = 1
    BY <1>1, <1>2, <2>1, <2>2, Closing
  <2> HIDE DEF h
  <2>4. h.todo \subseteq f.todo
    BY <2>3 DEF SameList
  <2> QED
    BY <1>1, <2>1, <2>3, <2>4, Failing DEF f
<1>6. CASE WriteReport(p)
  <2> DEFINE g == [Idle EXCEPT !.pc = "ok", !.mine = f.mine]
  <2>1. /\ fin' = [fin EXCEPT ![p] = g] /\ UNCHANGED <<folder, dups, faults>>
        /\ f.pc = "scan" /\ f.todo = {}
        /\ report' = IF p = "outlook" THEN f.rows ELSE report
        /\ clean' = [clean EXCEPT ![p] = IF f.bad THEN 0 ELSE IF @ = 2 THEN 2 ELSE @ + 1]
    BY <1>6 DEF WriteReport, Overwritten
  <2>2. g \in Runs /\ g.pc = "ok" /\ g.mine = f.mine /\ g.todo = {}
    BY <1>1, Ending
  <2> HIDE DEF f, g
  <2>3. Stops(p, f, g) /\ Moves(p, g)
    BY <1>1, <2>1, <2>2 DEF Stops, Moves
  <2> QED
    BY <2>3 DEF Kinds, f
<1>7. CASE Abort(p)
  <2> DEFINE g == [Idle EXCEPT !.pc = "failed", !.mine = f.mine]
  <2>1. /\ fin' = [fin EXCEPT ![p] = g] /\ UNCHANGED <<folder, dups, clean>> /\ Fault
        /\ report' \in {report, {}} /\ (p = "gmail" => report' = report)
    BY <1>7 DEF Abort
  <2>2. g \in Runs /\ g.pc = "failed" /\ g.mine = f.mine /\ g.todo = {}
    BY <1>1, Ending
  <2>3. faults' \in 0 .. MaxFaults
    BY <1>1, <2>1, MaxFaultsIsNat DEF Fault
  <2> HIDE DEF f, g
  <2>4. Stops(p, f, g) /\ Moves(p, g)
    BY <2>1, <2>2, <2>3 DEF Stops, Moves
  <2> QED
    BY <2>4 DEF Kinds, f
<1> QED
  BY <1>4, <1>5, <1>6, <1>7

\* Whatever a finder does is one of these kinds.
LEMMA FinderKinds ==
    ASSUME NEW p \in Providers, FoldersTyped, FindersTyped, FinderStep(p)
    PROVE  \E g : Moves(p, g) /\ Kinds(p, fin[p], g)
BY Choosing, Attaching, Linking, Leaving DEF FinderStep

-----------------------------------------------------------------------------
(* What a step of a finder preserves. *)

\* Only its own run and its own folder change, and the folder only grows.
Grows(p) ==
    /\ dups' = dups
    /\ \A r \in Providers : r # p => fin'[r] = fin[r] /\ folder'[r] = folder[r]
    /\ \A r \in Providers :
        /\ DOMAIN folder[r] \subseteq DOMAIN folder'[r]
        /\ \A q \in DOMAIN folder[r] : folder'[r][q] = folder[r][q]

\* A run f becomes g when it saves a PDF under the path q.
Added(p, f, g, pdf, q) ==
    /\ folder' = [folder EXCEPT ![p] = Put(folder[p], q, pdf)]
    /\ pdf \in Accepted \ f.hash
    /\ g.hash = f.hash \cup {pdf} /\ g.text = f.text \cup Texts({pdf})
    /\ g.mine = f.mine \cup {q}
    /\ \A r \in Providers \ {p} : folder'[r] = folder[r]
    /\ DOMAIN folder'[p] = DOMAIN folder[p] \cup {q}
    /\ folder'[p][q] = pdf
    /\ \A x \in DOMAIN folder[p] : folder'[p][x] = folder[p][x]
    /\ Range(folder'[p]) = Range(folder[p]) \cup {pdf}
    /\ IsFiniteSet(DOMAIN folder'[p])

\* Saving adds one file to the folder.
LEMMA StoredGrows ==
    ASSUME FoldersTyped, NEW p \in Providers, NEW f, NEW g, NEW pdf, Stored(p, f, g, pdf)
    PROVE  \E q \in Paths \ DOMAIN folder[p] : Added(p, f, g, pdf, q)
<1>1. PICK q \in Paths \ DOMAIN folder[p] :
              /\ folder' = [folder EXCEPT ![p] = Put(folder[p], q, pdf)]
              /\ pdf \in Accepted \ f.hash
              /\ g.hash = f.hash \cup {pdf} /\ g.text = f.text \cup Texts({pdf})
              /\ g.mine = f.mine \cup {q}
  BY DEF Stored
<1>2. DOMAIN folder = Providers /\ IsFiniteSet(DOMAIN folder[p])
  BY DEF FoldersTyped
<1>3. folder'[p] = Put(folder[p], q, pdf) /\ \A r \in Providers \ {p} : folder'[r] = folder[r]
  BY <1>1, <1>2
<1>4. /\ DOMAIN Put(folder[p], q, pdf) = DOMAIN folder[p] \cup {q}
      /\ Put(folder[p], q, pdf)[q] = pdf
      /\ \A x \in DOMAIN folder[p] : Put(folder[p], q, pdf)[x] = folder[p][x]
      /\ Range(Put(folder[p], q, pdf)) = Range(folder[p]) \cup {pdf}
      /\ IsFiniteSet(DOMAIN folder[p]) => IsFiniteSet(DOMAIN Put(folder[p], q, pdf))
  BY <1>1, Putting
<1> QED
  BY <1>1, <1>2, <1>3, <1>4 DEF Added

\* Only the run of p changes, to g.
LEMMA MovesOne ==
    ASSUME FindersTyped, NEW p \in Providers, NEW g, Moves(p, g)
    PROVE  /\ fin'[p] = g /\ g \in Runs /\ \A r \in Providers \ {p} : fin'[r] = fin[r]
           /\ fin' \in [Providers -> Runs] /\ dups' = dups /\ faults' \in 0 .. MaxFaults
<1>1. fin \in [Providers -> Runs]
  BY DEF FindersTyped
<1> QED
  BY <1>1 DEF Moves

\* A finder keeps the folders well formed and only adds to its own.
LEMMA FinderGrows ==
    ASSUME FoldersTyped, FindersTyped, NEW p \in Providers, NEW g,
           Moves(p, g), Kinds(p, fin[p], g)
    PROVE  Grows(p) /\ FoldersTyped'
<1>1. dups' = dups /\ \A r \in Providers \ {p} : fin'[r] = fin[r]
  BY MovesOne
<1>2. CASE folder' = folder
  BY <1>1, <1>2 DEF Grows, FoldersTyped
<1>3. CASE Saves(p, fin[p], g)
  <2>1. PICK pdf \in Pdfs : Stored(p, fin[p], g, pdf)
    BY <1>3 DEF Saves
  <2>2. PICK q \in Paths \ DOMAIN folder[p] : Added(p, fin[p], g, pdf, q)
    BY <2>1, StoredGrows
  <2>3. Grows(p)
    BY <1>1, <2>2 DEF Grows, Added
  <2>4. folder' = [r \in Providers |-> folder'[r]]
    BY <2>2 DEF FoldersTyped, Added
  <2>5. \A r \in Providers :
          /\ DOMAIN folder'[r] \subseteq Paths /\ IsFiniteSet(DOMAIN folder'[r])
          /\ Range(folder'[r]) \subseteq Pdfs
    BY <2>2 DEF FoldersTyped, Added
  <2> QED
    BY <1>1, <2>3, <2>4, <2>5 DEF FoldersTyped
<1> QED
  BY <1>2, <1>3 DEF Kinds, Skips, Opens, Spoils, Passes, Turns, Closes, Stops, Steady

\* A finder that has stopped or goes on is where FindersTyped says it is.
LEMMA FinderTyped ==
    ASSUME FoldersTyped, FindersTyped, NEW p \in Providers, NEW g,
           Moves(p, g), Kinds(p, fin[p], g), stage = "providers", stage' = stage
    PROVE  FindersTyped'
<1> DEFINE f == fin[p]
<1>1. /\ fin'[p] = g /\ g \in Runs /\ \A r \in Providers \ {p} : fin'[r] = fin[r]
      /\ fin' \in [Providers -> Runs] /\ faults' \in 0 .. MaxFaults
  BY MovesOne
<1>2. f \in Runs /\ report \subseteq Row /\ clean \in [Providers -> 0 .. 2]
  BY DEF FindersTyped
<1>3. report' \subseteq Row /\ clean' \in [Providers -> 0 .. 2]
  <2>1. CASE report' = report /\ clean' = clean
    BY <1>2, <2>1
  <2>2. CASE Stops(p, f, g)
    <3>1. f.rows \subseteq Row
      BY <1>2 DEF Runs
    <3>2. report' \subseteq Row
      BY <1>2, <2>2, <3>1 DEF Stops
    <3>3. clean' = clean \/ clean' = [clean EXCEPT ![p] = IF f.bad THEN 0 ELSE IF @ = 2 THEN 2 ELSE @ + 1]
      BY <2>2 DEF Stops
    <3>4. clean[p] \in 0 .. 2
      BY <1>2
    <3>5. (IF f.bad THEN 0 ELSE IF clean[p] = 2 THEN 2 ELSE clean[p] + 1) \in 0 .. 2
      BY <3>4
    <3> QED
      BY <1>2, <3>2, <3>3, <3>5
  <2> QED
    BY <2>1, <2>2 DEF Kinds, Skips, Opens, Spoils, Passes, Saves, Turns, Closes, Steady
<1>4. /\ f.todo \subseteq {m \in Msgs : Mail[m].box = p}
      /\ f.pc \in {"attach", "links"} => f.msg \in Msgs /\ Mail[f.msg].box = p
      /\ f.pc = "scan" => f.msg = NoMsg /\ f.pos = 1
  BY DEF FindersTyped
<1> HIDE DEF f
<1>5. g.todo \subseteq f.todo
  <2>1. \/ \E m : g.todo = f.todo \ {m}
        \/ g.todo \subseteq f.todo \/ g.todo = f.todo \/ g.todo = {}
    BY DEF Kinds, Skips, Opens, Spoils, Passes, Saves, Turns, Closes, Stops, Takes, SameList, Stays, f
  <2> QED
    BY <2>1
<1>6. /\ g.pc \in {"attach", "links"} => g.msg \in Msgs /\ Mail[g.msg].box = p
      /\ g.pc = "scan" => g.msg = NoMsg /\ g.pos = 1
  <2>1. CASE Skips(p, f, g)
    BY <1>4, <2>1 DEF Skips, Takes
  <2>2. CASE Opens(p, f, g)
    BY <1>4, <2>2 DEF Opens, Takes
  <2>3. CASE Spoils(p, f, g)
    BY <2>3 DEF Spoils
  <2>4. CASE Passes(p, f, g) \/ Saves(p, f, g)
    BY <1>4, <2>4 DEF Passes, Saves, Stays
  <2>5. CASE Turns(p, f, g) \/ Closes(p, f, g) \/ Stops(p, f, g)
    BY <1>4, <2>5 DEF Turns, Closes, Stops
  <2> QED
    BY <2>1, <2>2, <2>3, <2>4, <2>5 DEF Kinds, f
<1>7. \A r \in Providers :
        /\ Scanning(r)' => stage' = "providers"
        /\ fin'[r].todo \subseteq {m \in Msgs : Mail[m].box = r}
        /\ fin'[r].pc \in {"attach", "links"} => fin'[r].msg \in Msgs /\ Mail[fin'[r].msg].box = r
        /\ fin'[r].pc = "scan" => fin'[r].msg = NoMsg /\ fin'[r].pos = 1
  <2> SUFFICES ASSUME NEW r \in Providers
               PROVE  /\ fin'[r].todo \subseteq {m \in Msgs : Mail[m].box = r}
                      /\ fin'[r].pc \in {"attach", "links"} => fin'[r].msg \in Msgs /\ Mail[fin'[r].msg].box = r
                      /\ fin'[r].pc = "scan" => fin'[r].msg = NoMsg /\ fin'[r].pos = 1
    OBVIOUS
  <2>1. CASE r = p
    BY <1>1, <1>4, <1>5, <1>6, <2>1
  <2>2. CASE r # p
    BY <1>1, <2>2 DEF FindersTyped
  <2> QED
    BY <2>1, <2>2
<1> QED
  BY <1>1, <1>3, <1>7 DEF FindersTyped

\* For the files a step is quiet, saves one or ends the run.
LEMMA ThreeWays ==
    ASSUME FoldersTyped, NEW p \in Providers, NEW f, NEW g, Kinds(p, f, g)
    PROVE  \/ folder' = folder /\ SameKnowledge(f, g) /\ f.pc \in {"scan", "attach", "links"}
           \/ /\ f.pc \in {"attach", "links"}
              /\ \E pdf \in Pdfs : \E q \in Paths \ DOMAIN folder[p] : Added(p, f, g, pdf, q)
           \/ folder' = folder /\ g.mine = f.mine /\ g.pc \in {"ok", "failed"}
<1>1. CASE Saves(p, f, g)
  <2>1. PICK pdf \in Pdfs : Stored(p, f, g, pdf)
    BY <1>1 DEF Saves
  <2>2. \E q \in Paths \ DOMAIN folder[p] : Added(p, f, g, pdf, q)
    BY <2>1, StoredGrows
  <2>3. f.pc \in {"attach", "links"}
    BY <1>1 DEF Saves
  <2> QED
    BY <2>2, <2>3
<1>2. CASE Skips(p, f, g) \/ Opens(p, f, g)
  BY <1>2 DEF Skips, Opens, Takes, Steady
<1>3. CASE Spoils(p, f, g)
  BY <1>3 DEF Spoils, Steady
<1>4. CASE Passes(p, f, g)
  BY <1>4 DEF Passes, Steady
<1>5. CASE Turns(p, f, g) \/ Closes(p, f, g)
  BY <1>5 DEF Turns, Closes, Steady
<1>6. CASE Stops(p, f, g)
  BY <1>6 DEF Stops
<1> QED
  BY <1>1, <1>2, <1>3, <1>4, <1>5, <1>6 DEF Kinds

\* The finder's own hashes, texts and files follow its folder.
LEMMA FinderKnows ==
    ASSUME FoldersTyped, FindersTyped, NEW p \in Providers, NEW g,
           Moves(p, g), Kinds(p, fin[p], g), \A r \in Providers : Knows(r), hidden' = hidden
    PROVE  \A r \in Providers : Knows(r)'
<1> DEFINE f == fin[p]
<1>1. fin'[p] = g /\ dups' = dups /\ \A r \in Providers \ {p} : fin'[r] = fin[r]
  BY MovesOne
<1>2. Grows(p)
  BY FinderGrows
<1>3. ASSUME NEW r \in Providers \ {p} PROVE Knows(r)'
  BY <1>1, <1>2, <1>3 DEF Knows, Scanning, Have, Grows
<1>4. Knows(p)'
  <2>1. CASE folder' = folder /\ SameKnowledge(f, g) /\ f.pc \in {"scan", "attach", "links"}
    BY <1>1, <2>1 DEF Knows, Scanning, Have, SameKnowledge
  <2>2. CASE /\ f.pc \in {"attach", "links"}
             /\ \E pdf \in Pdfs : \E q \in Paths \ DOMAIN folder[p] : Added(p, f, g, pdf, q)
    <3>1. PICK pdf \in Pdfs : \E q \in Paths \ DOMAIN folder[p] : Added(p, f, g, pdf, q)
      BY <2>2
    <3>2. PICK q \in Paths \ DOMAIN folder[p] : Added(p, f, g, pdf, q)
      BY <3>1
    <3>3. /\ p = "gmail" => (At(folder[p], Indexed(folder[p])) \cup Range(dups[p])) \ hidden \subseteq f.hash
          /\ \A x \in f.mine : x \in DOMAIN folder[p] /\ folder[p][x] \in f.hash
          /\ f.hash \subseteq Have(p) /\ f.text \subseteq Texts(Have(p))
      BY <2>2 DEF Knows, Scanning
    <3>4. Have(p)' = Have(p) \cup {pdf}
      BY <1>1, <3>2 DEF Have, Added
    <3>5. Texts(Have(p))' = Texts(Have(p)) \cup Texts({pdf})
      BY <3>4 DEF Texts
    <3>6. \A x \in g.mine : x \in DOMAIN folder'[p] /\ folder'[p][x] \in g.hash
      BY <3>2, <3>3 DEF Added
    <3>7. g.hash \subseteq Have(p)' /\ g.text \subseteq Texts(Have(p))'
      BY <3>2, <3>3, <3>4, <3>5 DEF Added
    <3>8. At(folder'[p], Indexed(folder'[p])) \subseteq At(folder[p], Indexed(folder[p])) \cup {pdf}
      BY <3>2 DEF Added, At, Indexed
    <3>9. p = "gmail" => (At(folder'[p], Indexed(folder'[p])) \cup Range(dups'[p])) \ hidden' \subseteq g.hash
      BY <1>1, <3>2, <3>3, <3>8 DEF Added
    <3> QED
      BY <1>1, <3>6, <3>7, <3>9 DEF Knows
  <2>3. CASE g.pc \in {"ok", "failed"}
    BY <1>1, <2>3 DEF Knows, Scanning
  <2> QED
    BY <2>1, <2>2, <2>3, ThreeWays
<1> QED
  BY <1>3, <1>4

\* No copy of a file a finder knows of is saved.
LEMMA FinderCopies ==
    ASSUME FoldersTyped, FindersTyped, NEW p \in Providers, NEW g,
           Moves(p, g), Kinds(p, fin[p], g), \A r \in Providers : Knows(r) /\ Copies(r),
           hidden' = hidden
    PROVE  \A r \in Providers : Copies(r)'
<1> DEFINE f == fin[p]
<1>1. fin'[p] = g /\ dups' = dups /\ \A r \in Providers \ {p} : fin'[r] = fin[r]
  BY MovesOne
<1>2. Grows(p)
  BY FinderGrows
<1>3. ASSUME NEW r \in Providers \ {p} PROVE Copies(r)'
  BY <1>1, <1>2, <1>3 DEF Copies, Grows
<1>4. Copies(p)'
  <2>1. CASE folder' = folder /\ g.mine = f.mine
    BY <1>1, <2>1 DEF Copies
  <2>2. CASE /\ f.pc \in {"attach", "links"}
             /\ \E pdf \in Pdfs : \E q \in Paths \ DOMAIN folder[p] : Added(p, f, g, pdf, q)
    <3>1. PICK pdf \in Pdfs : \E q \in Paths \ DOMAIN folder[p] : Added(p, f, g, pdf, q)
      BY <2>2
    <3>2. PICK q \in Paths \ DOMAIN folder[p] : Added(p, f, g, pdf, q)
      BY <3>1
    <3>3. /\ p = "gmail" => (At(folder[p], Indexed(folder[p])) \cup Range(dups[p])) \ hidden \subseteq f.hash
          /\ \A x \in f.mine : x \in DOMAIN folder[p] /\ folder[p][x] \in f.hash
      BY <2>2 DEF Knows, Scanning
    <3>4. p = "gmail" => /\ \A x \in Indexed(folder[p]) : folder[p][x] = pdf => pdf \in hidden
                         /\ \A x \in DOMAIN dups[p] : dups[p][x] = pdf => pdf \in hidden
      BY <3>2, <3>3 DEF At, Range, Added
    <3>5. \A x \in f.mine : folder[p][x] # pdf
      BY <3>2, <3>3 DEF Added
    <3>6. p = "outlook" => \A x, y \in DOMAIN folder'[p] :
            x # y /\ folder'[p][x] = folder'[p][y] => ~({x, y} \subseteq g.mine)
      <4> SUFFICES ASSUME NEW x \in DOMAIN folder'[p], NEW y \in DOMAIN folder'[p],
                          x # y, folder'[p][x] = folder'[p][y], p = "outlook"
                   PROVE  ~(x \in g.mine /\ y \in g.mine)
        OBVIOUS
      <4>1. CASE x = q
        BY <3>2, <3>5, <4>1 DEF Added
      <4>2. CASE y = q
        BY <3>2, <3>5, <4>2 DEF Added
      <4>3. CASE x # q /\ y # q
        <5>1. x \in DOMAIN folder[p] /\ y \in DOMAIN folder[p] /\ folder[p][x] = folder[p][y]
          BY <3>2, <4>3 DEF Added
        <5>2. ~({x, y} \subseteq f.mine)
          BY <5>1 DEF Copies
        <5> QED
          BY <3>2, <4>3, <5>2 DEF Added
      <4> QED
        BY <4>1, <4>2, <4>3
    <3>7. \A x \in Indexed(folder'[p]) : x = q \/ (x \in Indexed(folder[p]) /\ folder'[p][x] = folder[p][x])
      BY <3>2 DEF Added, Indexed
    <3>8. folder'[p][q] = pdf
      BY <3>2 DEF Added
    <3>9. p = "gmail" => \A x, y \in Indexed(folder'[p]) :
            x # y /\ folder'[p][x] = folder'[p][y] => folder'[p][x] \in hidden
      BY <3>4, <3>7, <3>8 DEF Copies
    <3>10. p = "gmail" =>
            /\ \A x \in Indexed(folder'[p]), y \in DOMAIN dups[p] :
                  folder'[p][x] = dups[p][y] => dups[p][y] \in hidden
            /\ \A x, y \in DOMAIN dups[p] : x # y /\ dups[p][x] = dups[p][y] => dups[p][x] \in hidden
      BY <3>4, <3>7, <3>8 DEF Copies
    <3> QED
      BY <1>1, <3>6, <3>9, <3>10 DEF Copies
  <2> QED
    BY <2>1, <2>2, ThreeWays DEF SameKnowledge
<1> QED
  BY <1>3, <1>4

\* A file more in the folder breaks no chain of twins.
LEMMA FinderChained ==
    ASSUME FoldersTyped, FindersTyped, NEW p \in Providers, NEW g,
           Moves(p, g), Kinds(p, fin[p], g), NEW r \in Providers, Chained(r)
    PROVE  Chained(r)'
<1>1. Grows(p)
  BY FinderGrows
<1>2. Moved(r)' = Moved(r)
  BY <1>1 DEF Moved, Grows
<1>3. InFolder(r) \subseteq InFolder(r)'
  BY <1>1, IndexGrows DEF InFolder, Grows
<1>4. SUFFICES ASSUME NEW aside \in (SUBSET (Moved(r)' \ InFolder(r)')) \ {{}}
               PROVE  \E a \in aside, b \in (Moved(r)' \cup InFolder(r)') \ aside : Twin(a, b)
  <2>1. \A a, b : Twin(a, b)' <=> Twin(a, b)
    BY DEF Twin, SameText, Texts
  <2> QED
    BY <2>1 DEF Chained
<1>5. aside \in (SUBSET (Moved(r) \ InFolder(r))) \ {{}}
  BY <1>2, <1>3
<1>6. PICK a \in aside, b \in (Moved(r) \cup InFolder(r)) \ aside : Twin(a, b)
  BY <1>5 DEF Chained
<1> QED
  BY <1>2, <1>3, <1>6

\* What is due depends on the mail alone.
LEMMA DueStays ==
    ASSUME NEW p, NEW m
    PROVE  Due(p, m)' <=> Due(p, m)
BY DEF Due, Considered, Reached

\* What a provider has got it keeps as long as no file is lost.
LEMMA KeepsCovered ==
    ASSUME NEW r, Have(r) \subseteq Have(r)'
    PROVE  /\ \A pdf : Got(r, pdf) => Got(r, pdf)'
           /\ \A m : Covered(r, m) => Covered(r, m)'
<1>1. Texts(Have(r)) \subseteq Texts(Have(r))'
  BY DEF Texts
<1>2. ASSUME NEW pdf, Got(r, pdf) PROVE Got(r, pdf)'
  BY <1>1, <1>2 DEF Got, SameText
<1>3. ASSUME NEW m, Covered(r, m) PROVE Covered(r, m)'
  BY <1>2, <1>3 DEF Covered, AttCount
<1> QED
  BY <1>2, <1>3

\* A finder loses no file.
LEMMA FinderHas ==
    ASSUME NEW p \in Providers, Grows(p), NEW r \in Providers
    PROVE  Have(r) \subseteq Have(r)'
BY DEF Grows, Have, Range

\* A PDF a run does not save is one it has got.
LEMMA RefusedIsGot ==
    ASSUME NEW p \in Providers, Knows(p), Scanning(p), NEW pdf, Refused(p, fin[p], pdf)
    PROVE  Got(p, pdf)
BY DEF Refused, Known, Knows, Got, SameText

\* The attachments a finder is told of can be counted.
LEMMA CountIsNat ==
    ASSUME NEW p, NEW m \in Msgs
    PROVE  AttCount(p, m) \in Nat /\ AttCount(p, m)' = AttCount(p, m)
<1>1. Mail[m].atts \in Seq(Item)
  BY MailIsKnown
<1>2. Len(Mail[m].atts) \in Nat
  BY <1>1
<1> QED
  BY <1>2, CapsAreNat DEF AttCount

\* What a run without a fault covers, one kind of step after the other.
LEMMA FinderCovers ==
    ASSUME FoldersTyped, FindersTyped, NEW p \in Providers, NEW g,
           Moves(p, g), Kinds(p, fin[p], g), Knows(p), Covers(p)
    PROVE  Covers(p)'
<1> DEFINE f == fin[p]
<1>1. fin'[p] = g /\ dups' = dups /\ g \in Runs
  BY MovesOne
<1>2. Grows(p)
  BY FinderGrows
<1>3. /\ \A pdf : Got(p, pdf) => Got(p, pdf)'
      /\ \A m : Covered(p, m) => Covered(p, m)'
  BY <1>2, FinderHas, KeepsCovered
<1>4. /\ f \in Runs /\ f.todo \subseteq Msgs
      /\ f.pc \in {"attach", "links"} => f.msg \in Msgs
      /\ f.pc = "scan" => f.msg = NoMsg /\ f.pos = 1
  BY DEF FindersTyped
<1>5. SUFFICES ASSUME g.pc \in {"scan", "attach", "links"}, ~g.bad
               PROVE  /\ \A m \in Msgs \ g.todo :
                            /\ Due(p, m) /\ m # g.msg
                            /\ p = "gmail" \/ clean'[p] >= 1 \/ \E r \in g.rows : r.id = m
                            => Covered(p, m)'
                      /\ \A m \in g.todo \cap g.skip :
                            Due(p, m) => p = "outlook" /\ (clean'[p] >= 1 => Covered(p, m)')
                      /\ g.pc = "attach" =>
                            \A i \in 1 .. AttCount(p, g.msg) :
                               i < g.pos => Got(p, Mail[g.msg].atts[i].pdf)'
                      /\ g.pc = "links" => Covered(p, g.msg)'
                      /\ g.msg \notin g.todo /\ \A r \in g.rows : r.id \notin g.todo
  BY <1>1, DueStays DEF Covers, Scanning
<1>6. /\ ~Spoils(p, f, g) /\ ~Stops(p, f, g)
      /\ Skips(p, f, g) \/ Opens(p, f, g) \/ Passes(p, f, g) \/ Saves(p, f, g)
         \/ Turns(p, f, g) \/ Closes(p, f, g)
  BY <1>5 DEF Kinds, Spoils, Stops
<1>7. f.pc \in {"scan", "attach", "links"} /\ g.bad = f.bad /\ clean' = clean
  BY <1>6 DEF Skips, Opens, Passes, Saves, Turns, Closes, Takes, Stays, Steady
<1>8. /\ \A m \in Msgs \ f.todo :
            /\ Due(p, m) /\ m # f.msg
            /\ p = "gmail" \/ clean[p] >= 1 \/ \E r \in f.rows : r.id = m
            => Covered(p, m)
      /\ \A m \in f.todo \cap f.skip :
            Due(p, m) => p = "outlook" /\ (clean[p] >= 1 => Covered(p, m))
      /\ f.pc = "attach" =>
            \A i \in 1 .. AttCount(p, f.msg) :
               i < f.pos => Got(p, Mail[f.msg].atts[i].pdf)
      /\ f.pc = "links" => Covered(p, f.msg)
      /\ f.msg \notin f.todo /\ \A r \in f.rows : r.id \notin f.todo
  BY <1>5, <1>7 DEF Covers, Scanning
<1>9. \A m : \A r \in Rows(m) : r.id = m
  BY DEF Rows
<1>10. \A pdf : Refused(p, f, pdf) => Got(p, pdf)
  BY <1>7, RefusedIsGot DEF Scanning
<1>11. NoMsg \notin Msgs
  BY MarkersAreFresh
<1>12. f.pos \in Nat /\ g.pos \in Nat
  BY <1>1, <1>4 DEF Runs
<1> HIDE DEF f
<1>13. CASE Skips(p, f, g)
  <2>1. PICK m \in Msgs : /\ Takes(f, g, m)
                          /\ \/ m \in f.skip /\ g.rows = f.rows
                             \/ ~Due(p, m) /\ g.rows \subseteq f.rows \cup Rows(m)
    BY <1>13 DEF Skips
  <2>2. g.pc = "scan" /\ g.msg = NoMsg /\ f.msg = NoMsg
    BY <1>4, <1>13, <2>1 DEF Skips, Takes
  <2>3. m \in f.todo /\ g.todo = f.todo \ {m} /\ g.skip = f.skip \cup {m}
    BY <2>1 DEF Takes
  <2>4. g.rows \subseteq f.rows \cup Rows(m)
    BY <2>1
  <2>5. \A n \in Msgs \ g.todo : Due(p, n) /\ n # m
          /\ (p = "gmail" \/ clean[p] >= 1 \/ \E r \in g.rows : r.id = n) => Covered(p, n)
    BY <1>8, <1>9, <1>11, <2>2, <2>3, <2>4
  <2>6. Due(p, m) /\ (p = "gmail" \/ clean[p] >= 1 \/ \E r \in g.rows : r.id = m) => Covered(p, m)
    BY <1>8, <2>1, <2>3
  <2>7. \A n \in g.todo \cap g.skip : n \in f.todo \cap f.skip
    BY <2>3
  <2>8. g.msg \notin g.todo /\ \A r \in g.rows : r.id \notin g.todo
    BY <1>4, <1>8, <1>9, <1>11, <2>2, <2>3, <2>4
  <2> QED
    BY <1>3, <1>7, <1>8, <2>2, <2>5, <2>6, <2>7, <2>8
<1>14. CASE Opens(p, f, g)
  <2>1. PICK m \in Msgs : Takes(f, g, m) /\ g.msg = m /\ m \notin f.skip
    BY <1>14 DEF Opens
  <2>2. g.pc = "attach" /\ g.rows = f.rows /\ g.pos = 1 /\ f.msg = NoMsg
    BY <1>4, <1>14, <2>1 DEF Opens, Takes
  <2>3. m \in f.todo /\ g.todo = f.todo \ {m} /\ g.skip = f.skip \cup {m}
    BY <2>1 DEF Takes
  <2>4. \A i \in 1 .. AttCount(p, g.msg) : ~(i < g.pos)
    BY <2>1, <2>2, CountIsNat
  <2> QED
    BY <1>3, <1>7, <1>8, <1>11, <2>1, <2>2, <2>3, <2>4
<1>15. CASE Passes(p, f, g) \/ Saves(p, f, g)
  <2>1. /\ f.pc \in {"attach", "links"} /\ Stays(f, g) /\ g.pos = f.pos + 1
    BY <1>15 DEF Passes, Saves
  <2>2. g.todo = f.todo /\ g.skip = f.skip /\ g.pc = f.pc /\ g.msg = f.msg
        /\ g.rows \subseteq f.rows \cup Rows(f.msg)
    BY <2>1 DEF Stays, SameList
  <2>3. f.pc = "attach" => \A x : x = Mail[f.msg].atts[f.pos].pdf => Got(p, x)'
    <3>1. CASE Passes(p, f, g)
      BY <1>3, <1>10, <3>1 DEF Passes
    <3>2. CASE Saves(p, f, g)
      <4>1. PICK pdf \in Pdfs : /\ Stored(p, f, g, pdf)
                                /\ f.pc = "attach" => pdf = Mail[f.msg].atts[f.pos].pdf
        BY <3>2 DEF Saves
      <4>2. PICK q \in Paths \ DOMAIN folder[p] : Added(p, f, g, pdf, q)
        BY <4>1, StoredGrows
      <4>3. pdf \in Have(p)'
        BY <4>2 DEF Added, Have
      <4>4. Got(p, pdf)'
        BY <4>3 DEF Got
      <4> QED
        BY <4>1, <4>4
    <3> QED
      BY <1>15, <3>1, <3>2
  <2>4. f.pc = "attach" => \A i \in 1 .. AttCount(p, f.msg) : i \in Nat
    BY <1>4, CountIsNat
  <2>5. g.pc = "attach" =>
          \A i \in 1 .. AttCount(p, g.msg) : i < g.pos => Got(p, Mail[g.msg].atts[i].pdf)'
    <3> SUFFICES ASSUME g.pc = "attach", NEW i \in 1 .. AttCount(p, g.msg), i < g.pos
                 PROVE  Got(p, Mail[g.msg].atts[i].pdf)'
      OBVIOUS
    <3>1. i < f.pos \/ i = f.pos
      BY <1>12, <2>1, <2>2, <2>4
    <3> QED
      BY <1>3, <1>8, <2>2, <2>3, <3>1
  <2>6. \A m \in Msgs \ g.todo :
            /\ Due(p, m) /\ m # g.msg
            /\ p = "gmail" \/ clean'[p] >= 1 \/ \E r \in g.rows : r.id = m
            => Covered(p, m)'
    BY <1>3, <1>7, <1>8, <1>9, <2>2
  <2>7. g.msg \notin g.todo /\ \A r \in g.rows : r.id \notin g.todo
    BY <1>8, <1>9, <2>2
  <2> QED
    BY <1>3, <1>7, <1>8, <2>2, <2>5, <2>6, <2>7
<1>16. CASE Turns(p, f, g)
  <2>1. /\ g.todo = f.todo /\ g.skip = f.skip /\ f.pc = "attach" /\ f.pos > AttCount(p, f.msg)
        /\ g.pc = "links" /\ g.msg = f.msg /\ g.rows = f.rows
    BY <1>16 DEF Turns, SameList
  <2>2. \A i \in 1 .. AttCount(p, f.msg) : i < f.pos
    <3>1. AttCount(p, f.msg) \in Nat
      BY <1>4, <2>1, CountIsNat
    <3> QED
      BY <1>12, <2>1, <3>1
  <2>3. Covered(p, f.msg)
    BY <1>8, <2>1, <2>2 DEF Covered
  <2> QED
    BY <1>3, <1>7, <1>8, <2>1, <2>3
<1>17. CASE Closes(p, f, g)
  <2>1. /\ g.todo = f.todo /\ g.skip = f.skip /\ f.pc = "links" /\ g.pc = "scan" /\ g.msg = NoMsg
        /\ g.rows \subseteq f.rows \cup Rows(f.msg)
    BY <1>17 DEF Closes, SameList
  <2>2. \A m \in Msgs \ g.todo :
            /\ Due(p, m) /\ m # g.msg
            /\ p = "gmail" \/ clean'[p] >= 1 \/ \E r \in g.rows : r.id = m
            => Covered(p, m)'
    BY <1>3, <1>7, <1>8, <1>9, <2>1
  <2>3. g.msg \notin g.todo /\ \A r \in g.rows : r.id \notin g.todo
    BY <1>4, <1>8, <1>9, <1>11, <2>1
  <2> QED
    BY <1>3, <1>7, <1>8, <2>1, <2>2, <2>3
<1> QED
  BY <1>6, <1>13, <1>14, <1>15, <1>16, <1>17

\* What the reports of runs without a fault stand for.
LEMMA FinderCleanCovers ==
    ASSUME FoldersTyped, FindersTyped, NEW p \in Providers, NEW g,
           Moves(p, g), Kinds(p, fin[p], g), Covers(p), CleanCovers(p)
    PROVE  CleanCovers(p)'
<1> DEFINE f == fin[p]
<1>1. \A m : Covered(p, m) => Covered(p, m)'
  BY FinderGrows, FinderHas, KeepsCovered
<1>2. CASE clean' = clean /\ report' \in {report, {}}
  <2>1. CachedIds(report)' \subseteq CachedIds(report)
    BY <1>2 DEF CachedIds
  <2> QED
    BY <1>1, <1>2, <2>1, DueStays DEF CleanCovers
<1>3. CASE /\ f.pc = "scan" /\ f.todo = {}
           /\ report' = IF p = "outlook" THEN f.rows ELSE report
           /\ clean' = [clean EXCEPT ![p] = IF f.bad THEN 0 ELSE IF @ = 2 THEN 2 ELSE @ + 1]
  <2>1. clean[p] \in 0 .. 2 /\ clean'[p] = IF f.bad THEN 0 ELSE IF clean[p] = 2 THEN 2 ELSE clean[p] + 1
    BY <1>3 DEF FindersTyped
  <2>2. f.msg \notin Msgs
    BY <1>3, MarkersAreFresh DEF FindersTyped
  <2>3. CASE f.bad
    <3>1. clean'[p] = 0
      BY <2>1, <2>3
    <3>2. ~(clean'[p] >= 1) /\ ~(clean'[p] >= 2)
      BY <3>1
    <3> QED
      BY <3>2 DEF CleanCovers
  <2>4. CASE ~f.bad
    <3>1. \A m \in Msgs : Due(p, m) /\ (p = "gmail" \/ clean[p] >= 1 \/ \E r \in f.rows : r.id = m)
            => Covered(p, m)
      BY <1>3, <2>2, <2>4 DEF Covers, Scanning
    <3>2. clean'[p] >= 2 => clean[p] >= 1
      BY <2>1, <2>4
    <3>3. p = "outlook" => \A m \in CachedIds(report)' : \E r \in f.rows : r.id = m
      BY <1>3 DEF CachedIds
    <3>4. \A m \in Msgs : Due(p, m) /\ (p = "gmail" \/ m \in CachedIds(report)') => Covered(p, m)'
      BY <1>1, <3>1, <3>3 DEF Providers
    <3>5. clean'[p] >= 2 => \A m \in Msgs : Due(p, m) => Covered(p, m)'
      BY <1>1, <3>1, <3>2
    <3> QED
      BY <3>4, <3>5, DueStays DEF CleanCovers
  <2> QED
    BY <2>3, <2>4
<1> QED
  BY <1>2, <1>3 DEF Kinds, Skips, Opens, Spoils, Passes, Saves, Turns, Closes, Stops, Steady

\* The other finder and what it has covered are left alone.
LEMMA OtherCovers ==
    ASSUME FoldersTyped, FindersTyped, NEW p \in Providers, NEW g,
           Moves(p, g), Kinds(p, fin[p], g), NEW r \in Providers \ {p}, Covers(r), CleanCovers(r)
    PROVE  Covers(r)' /\ CleanCovers(r)'
<1>1. fin'[r] = fin[r]
  BY MovesOne
<1>2. \A m : Covered(r, m) => Covered(r, m)'
  BY FinderGrows, FinderHas, KeepsCovered
<1>3. \A pdf : Got(r, pdf) => Got(r, pdf)'
  BY FinderGrows, FinderHas, KeepsCovered
<1>4. clean'[r] = clean[r]
  BY DEF FindersTyped, Kinds, Skips, Opens, Spoils, Passes, Saves, Turns, Closes, Stops, Steady
<1>5. r = "gmail" \/ report' = report
  BY DEF Providers, Kinds, Skips, Opens, Spoils, Passes, Saves, Turns, Closes, Stops, Steady
<1>6. CleanCovers(r)'
  <2>1. CachedIds(report)' = CachedIds(report) \/ r = "gmail"
    BY <1>5
  <2> QED
    BY <1>2, <1>4, <2>1, DueStays DEF CleanCovers
<1>7. Covers(r)'
  <2> SUFFICES ASSUME Scanning(r)', ~fin'[r].bad
               PROVE  /\ \A m \in Msgs \ fin'[r].todo :
                            /\ Due(r, m) /\ m # fin'[r].msg
                            /\ r = "gmail" \/ clean'[r] >= 1 \/ \E x \in fin'[r].rows : x.id = m
                            => Covered(r, m)'
                      /\ \A m \in fin'[r].todo \cap fin'[r].skip :
                            Due(r, m) => r = "outlook" /\ (clean'[r] >= 1 => Covered(r, m)')
                      /\ fin'[r].pc = "attach" =>
                            \A i \in 1 .. AttCount(r, fin'[r].msg) :
                               i < fin'[r].pos => \A x : x = Mail[fin'[r].msg].atts[i].pdf => Got(r, x)'
                      /\ fin'[r].pc = "links" => \A m : m = fin'[r].msg => Covered(r, m)'
                      /\ fin'[r].msg \notin fin'[r].todo
                      /\ \A x \in fin'[r].rows : x.id \notin fin'[r].todo
    BY DueStays DEF Covers
  <2>1. Scanning(r) /\ ~fin[r].bad
    BY <1>1 DEF Scanning
  <2>2. /\ \A m \in Msgs \ fin[r].todo :
              /\ Due(r, m) /\ m # fin[r].msg
              /\ r = "gmail" \/ clean[r] >= 1 \/ \E x \in fin[r].rows : x.id = m
              => Covered(r, m)
        /\ \A m \in fin[r].todo \cap fin[r].skip :
              Due(r, m) => r = "outlook" /\ (clean[r] >= 1 => Covered(r, m))
        /\ fin[r].pc = "attach" =>
              \A i \in 1 .. AttCount(r, fin[r].msg) :
                 i < fin[r].pos => Got(r, Mail[fin[r].msg].atts[i].pdf)
        /\ fin[r].pc = "links" => Covered(r, fin[r].msg)
        /\ fin[r].msg \notin fin[r].todo
        /\ \A x \in fin[r].rows : x.id \notin fin[r].todo
    BY <2>1 DEF Covers
  <2> QED
    BY <1>1, <1>2, <1>3, <1>4, <2>2
<1> QED
  BY <1>6, <1>7

\* A step of a finder keeps the whole invariant.
LEMMA FinderPreserves ==
    ASSUME IInv, NEW p \in Providers, RunFinder(p)
    PROVE  IInv'
<1>1. stage = "providers" /\ FinderStep(p) /\ UNCHANGED monthVars
  BY DEF RunFinder
<1>2. PICK g : Moves(p, g) /\ Kinds(p, fin[p], g)
  BY <1>1, FinderKinds DEF IInv
<1>3. FoldersTyped' /\ Grows(p)
  BY <1>2, FinderGrows DEF IInv
<1>4. /\ stage' = stage /\ dirs' = dirs /\ left' = left /\ seen' = seen /\ merged' = merged
      /\ unread' = unread /\ delivered' = delivered /\ runs' = runs
      /\ hidden' = hidden /\ skipped' = skipped
  BY <1>1 DEF monthVars, history
<1>5. FindersTyped'
  BY <1>1, <1>2, <1>4, FinderTyped DEF IInv
<1>6. dirs = <<>> /\ delivered = {} /\ MonthTyped
  BY <1>1 DEF IInv, MonthTyped
<1>7. MonthTyped'
  BY <1>4, <1>6 DEF MonthTyped
<1>8. KeptInFolder' /\ MergedHoldsOnce' /\ Merges'
  BY <1>1, <1>4, <1>6 DEF IInv, KeptInFolder, MergedHoldsOnce, Merges
<1>9. \A r \in Providers : Knows(r)' /\ Copies(r)'
  BY <1>2, <1>4, FinderKnows, FinderCopies DEF IInv
<1>10. \A r \in Providers : Chained(r)'
  BY <1>2, FinderChained DEF IInv
<1>11. \A r \in Providers : Covers(r)' /\ CleanCovers(r)'
  <2>1. Covers(p)' /\ CleanCovers(p)'
    BY <1>2, FinderCovers, FinderCleanCovers DEF IInv
  <2>2. \A r \in Providers \ {p} : Covers(r)' /\ CleanCovers(r)'
    BY <1>2, OtherCovers DEF IInv
  <2> QED
    BY <2>1, <2>2
<1> QED
  BY <1>3, <1>5, <1>7, <1>8, <1>9, <1>10, <1>11 DEF IInv

-----------------------------------------------------------------------------
(* What the steps of the monthly run preserve. *)

\* The folders that are used, and the rest of them.
LEMMA DirFacts ==
    ASSUME NEW ps \in DirLists
    PROVE  /\ ps # <<>> => Head(ps) \in Providers
           /\ Len(ps) > 1 => /\ ps = <<"gmail", "outlook">> /\ Head(ps) = "gmail" /\ Len(ps) = 2
                             /\ Tail(ps) = <<"outlook">> /\ Tail(ps) # <<>> /\ Len(Tail(ps)) = 1
                             /\ Head(Tail(ps)) = "outlook" /\ Tail(ps) \in DirLists
           /\ Len(ps) \in Nat
<1>1. CASE ps = <<>>
  BY <1>1
<1>2. CASE ps = <<"gmail">>
  BY <1>2 DEF Providers
<1>3. CASE ps = <<"outlook">>
  BY <1>3 DEF Providers
<1>4. CASE ps = <<"gmail", "outlook">>
  <2>1. Tail(ps) = <<"outlook">> /\ Len(ps) = 2 /\ Head(ps) = "gmail"
    BY <1>4
  <2> DEFINE t == <<"outlook">>
  <2>2. Len(t) = 1 /\ Head(t) = "outlook" /\ t # <<>>
    OBVIOUS
  <2>3. Len(Tail(ps)) = 1 /\ Head(Tail(ps)) = "outlook" /\ Tail(ps) # <<>>
    <3> HIDE DEF t
    <3> QED
      BY <2>1, <2>2 DEF t
  <2> QED
    BY <1>4, <2>1, <2>3 DEF DirLists, Providers
<1> QED
  BY <1>1, <1>2, <1>3, <1>4 DEF DirLists

\* The providers whose finders succeeded, the first of them at the head.
LEMMA SuccessFacts ==
    /\ Successful \in DirLists
    /\ Range(Successful) \subseteq {p \in Providers : fin[p].pc = "ok"}
    /\ \A p \in Providers : fin[p].pc = "ok" =>
          /\ Successful # <<>>
          /\ p = Head(Successful) \/ (Len(Successful) = 2 /\ p = Successful[2] /\ p # Head(Successful))
<1>1. CASE fin["gmail"].pc = "ok" /\ fin["outlook"].pc = "ok"
  <2>1. Successful = <<"gmail", "outlook">>
    <3>1. IfOk("gmail") = <<"gmail">> /\ IfOk("outlook") = <<"outlook">>
      BY <1>1 DEF IfOk
    <3>2. <<"gmail">> \o <<"outlook">> = <<"gmail", "outlook">>
      <4> DEFINE a == <<"gmail">>
                 b == <<"outlook">>
                 c == <<"gmail", "outlook">>
      <4>1. a \in Seq(Providers) /\ b \in Seq(Providers) /\ Len(a) = 1 /\ Len(b) = 1 /\ a[1] = "gmail" /\ b[1] = "outlook"
        BY DEF Providers
      <4>2. c \in Seq(Providers) /\ Len(c) = 2 /\ c[1] = "gmail" /\ c[2] = "outlook"
        BY DEF Providers
      <4> HIDE DEF a, b, c
      <4>3. (a \o b) \in Seq(Providers) /\ Len(a \o b) = 2 /\ (a \o b)[1] = "gmail" /\ (a \o b)[2] = "outlook"
        <5> DEFINE d == a \o b
        <5>0. /\ d \in Seq(Providers) /\ Len(d) = Len(a) + Len(b)
              /\ \A i \in 1 .. Len(a) + Len(b) :
                    d[i] = IF i <= Len(a) THEN a[i] ELSE b[i - Len(a)]
          BY <4>1, ConcatProperties
        <5> HIDE DEF d
        <5>1. d \in Seq(Providers) /\ Len(d) = 2
          BY <4>1, <5>0
        <5>2. d[1] = a[1]
          BY <4>1, <5>0
        <5>3. d[2] = b[1]
          BY <4>1, <5>0
        <5>4. d \in Seq(Providers) /\ Len(d) = 2 /\ d[1] = "gmail" /\ d[2] = "outlook"
          BY <4>1, <5>1, <5>2, <5>3
        <5> QED
          BY <5>4 DEF d
      <4>4. a \o b = c
        <5>1. DOMAIN c = 1 .. 2 /\ DOMAIN (a \o b) = 1 .. 2
          BY <4>2, <4>3
        <5>2. \A i \in 1 .. 2 : (a \o b)[i] = c[i]
          BY <4>2, <4>3
        <5> QED
          BY <4>2, <4>3, <5>1, <5>2
      <4> QED
        BY <4>4 DEF a, b, c
    <3> QED
      BY <3>1, <3>2 DEF Successful
  <2> QED
    BY <1>1, <2>1 DEF DirLists, Providers, Range
<1>2. CASE fin["gmail"].pc = "ok" /\ fin["outlook"].pc # "ok"
  <2>1. Successful = <<"gmail">>
    BY <1>2 DEF Successful, IfOk
  <2> QED
    BY <1>2, <2>1 DEF DirLists, Providers, Range
<1>3. CASE fin["gmail"].pc # "ok" /\ fin["outlook"].pc = "ok"
  <2>1. Successful = <<"outlook">>
    BY <1>3 DEF Successful, IfOk
  <2> QED
    BY <1>3, <2>1 DEF DirLists, Providers, Range
<1>4. CASE fin["gmail"].pc # "ok" /\ fin["outlook"].pc # "ok"
  <2>1. Successful = <<>>
    BY <1>4 DEF Successful, IfOk
  <2> QED
    BY <1>4, <2>1 DEF DirLists, Providers, Range
<1> QED
  BY <1>1, <1>2, <1>3, <1>4

\* A run that does nothing yet.
LEMMA IdleRun ==
    Idle \in Runs /\ Idle.pc = "idle" /\ Idle.mine = {} /\ Idle.todo = {}
BY DEF Idle, Runs

\* When the files stay where they are, so does what they stand for.
LEMMA FilesStay ==
    ASSUME IInv, UNCHANGED <<folder, dups, report, clean>>, hidden \subseteq hidden',
           \A r \in Providers : fin'[r].mine \in {fin[r].mine, {}}
    PROVE  /\ FoldersTyped'
           /\ \A r \in Providers : Copies(r)' /\ Chained(r)' /\ CleanCovers(r)'
           /\ \A r \in Providers : \A m : Covered(r, m) => Covered(r, m)'
<1>1. FoldersTyped'
  BY DEF IInv, FoldersTyped
<1>2. ASSUME NEW r \in Providers PROVE Copies(r)'
  BY <1>2 DEF IInv, Copies
<1>3. ASSUME NEW r \in Providers PROVE Chained(r)'
  <2>1. Moved(r)' = Moved(r) /\ InFolder(r)' = InFolder(r) /\ Chained(r)
    BY DEF IInv, Moved, InFolder
  <2>2. \A a, b : Twin(a, b)' <=> Twin(a, b)
    BY DEF Twin, SameText, Texts
  <2> QED
    BY <2>1, <2>2 DEF Chained
<1>4. ASSUME NEW r \in Providers PROVE Have(r)' = Have(r)
  BY DEF Have
<1>5. \A r \in Providers : \A m : Covered(r, m) => Covered(r, m)'
  BY <1>4, KeepsCovered
<1>6. ASSUME NEW r \in Providers PROVE CleanCovers(r)'
  <2>1. CachedIds(report)' = CachedIds(report) /\ CleanCovers(r)
    BY DEF IInv
  <2> QED
    BY <1>5, <2>1, DueStays DEF CleanCovers
<1> QED
  BY <1>1, <1>2, <1>3, <1>5, <1>6

\* While no finder runs, there is nothing to know or to cover.
LEMMA NobodyRuns ==
    ASSUME \A r \in Providers : fin'[r].pc \in {"idle", "ok", "failed"}
    PROVE  \A r \in Providers : Knows(r)' /\ Covers(r)' /\ ~Scanning(r)'
BY DEF Knows, Covers, Scanning

\* FindersTyped while no finder runs.
LEMMA RestTyped ==
    ASSUME FindersTyped, report' = report, clean' = clean, faults' \in 0 .. MaxFaults,
           \/ fin' = fin /\ \A r \in Providers : fin[r].pc \in {"idle", "ok", "failed"}
           \/ fin' = [r \in Providers |-> Idle]
    PROVE  /\ FindersTyped' /\ \A r \in Providers : fin'[r].pc \in {"idle", "ok", "failed"}
           /\ \A r \in Providers : fin'[r].mine \in {fin[r].mine, {}}
<1>1. CASE fin' = fin /\ \A r \in Providers : fin[r].pc \in {"idle", "ok", "failed"}
  BY <1>1 DEF FindersTyped, Scanning
<1>2. CASE fin' = [r \in Providers |-> Idle]
  <2>1. \A r \in Providers : fin'[r] = Idle
    BY <1>2
  <2>2. fin' \in [Providers -> Runs]
    BY <1>2, IdleRun
  <2>3. \A r \in Providers : fin'[r].pc = "idle" /\ fin'[r].mine = {} /\ fin'[r].todo = {}
    BY <2>1, IdleRun
  <2> QED
    BY <2>2, <2>3 DEF FindersTyped, Scanning
<1> QED
  BY <1>1, <1>2

\* A step of the monthly run that leaves the files where they are keeps the
\* invariant if it keeps what is about the monthly run itself.
LEMMA QuietStep ==
    ASSUME IInv, UNCHANGED <<folder, dups, report, clean, hidden>>, faults' \in 0 .. MaxFaults,
           \/ fin' = fin /\ \A r \in Providers : fin[r].pc \in {"idle", "ok", "failed"}
           \/ fin' = [r \in Providers |-> Idle],
           MonthTyped', KeptInFolder', MergedHoldsOnce', Merges'
    PROVE  IInv'
<1>1. /\ FindersTyped' /\ \A r \in Providers : fin'[r].pc \in {"idle", "ok", "failed"}
      /\ \A r \in Providers : fin'[r].mine \in {fin[r].mine, {}}
  BY RestTyped DEF IInv
<1>2. \A r \in Providers : Knows(r)' /\ Covers(r)'
  BY <1>1, NobodyRuns
<1> QED
  BY <1>1, <1>2, FilesStay DEF IInv

\* The finders rest in every other stage.
LEMMA FindersRest ==
    ASSUME IInv, stage # "providers"
    PROVE  \A r \in Providers : fin[r].pc \in {"idle", "ok", "failed"}
BY DEF IInv, FindersTyped, Scanning, Runs

\* The invariant as the lemmas on the steps use it.
LEMMA MonthFacts ==
    ASSUME IInv
    PROVE  /\ MonthTyped /\ FindersTyped /\ FoldersTyped /\ KeptInFolder /\ MergedHoldsOnce /\ Merges
           /\ faults \in 0 .. MaxFaults
           /\ left # {} => /\ dirs # <<>> /\ Head(dirs) \in Providers
                           /\ left \subseteq Listed(folder[Head(dirs)])
                           /\ left \subseteq DOMAIN folder[Head(dirs)]
           /\ left # {} => \A path \in left : folder[Head(dirs)][path] \in Pdfs
<1>1. left # {} => /\ dirs # <<>> /\ Head(dirs) \in Providers
                   /\ left \subseteq Listed(folder[Head(dirs)]) /\ left \subseteq DOMAIN folder[Head(dirs)]
  BY DirFacts DEF IInv, MonthTyped, Listed
<1>2. \A p \in Providers : Range(folder[p]) \subseteq Pdfs
  BY DEF IInv, FoldersTyped
<1>3. left # {} => \A path \in left : folder[Head(dirs)][path] \in Pdfs
  BY <1>1, <1>2 DEF Range
<1> QED
  BY <1>1, <1>3 DEF IInv, FindersTyped

\* A fault within the bound.
LEMMA FaultBound ==
    ASSUME faults \in 0 .. MaxFaults, Fault
    PROVE  faults' \in 0 .. MaxFaults
BY MaxFaultsIsNat DEF Fault

\* Files that cannot be read stay within it, too.
LEMMA OverlooksBound ==
    ASSUME faults \in 0 .. MaxFaults, NEW blind, Overlooks(blind)
    PROVE  faults' \in 0 .. MaxFaults
BY FaultBound DEF Overlooks

\* The start: a finder knows its files and is to cover what is due.
LEMMA StartPreserves ==
    ASSUME IInv, NEW blind \in SUBSET Have("gmail"), StartMonth(blind)
    PROVE  IInv'
<1> DEFINE here(p) == At(folder[p], Indexed(folder[p]))
<1>1. /\ stage = "idle" /\ stage' = "providers" /\ runs < MaxRuns /\ runs' = runs + 1
      /\ fin' = [p \in Providers |-> Started(p, blind)] /\ delivered' = {}
      /\ hidden' = hidden \cup blind /\ Overlooks(blind)
      /\ UNCHANGED <<folder, dups, report, clean, dirs, left, seen, merged, unread, skipped>>
  BY DEF StartMonth
<1>0. faults' \in 0 .. MaxFaults /\ blind \subseteq Pdfs
  <2>1. "gmail" \in Providers
    BY DEF Providers
  <2> QED
    BY <1>1, <2>1, MonthFacts, OverlooksBound DEF FoldersTyped, Have
<1>2. ASSUME NEW p \in Providers
      PROVE  /\ Started(p, blind) \in Runs /\ Started(p, blind).mine = {} /\ Started(p, blind).rows = {}
             /\ Started(p, blind).pc = "scan" /\ Started(p, blind).msg = NoMsg /\ Started(p, blind).pos = 1
             /\ Started(p, blind).todo = Reached(p)
             /\ Started(p, blind).hash = IF p = "gmail" THEN (here(p) \cup Range(dups[p])) \ blind ELSE {}
             /\ Started(p, blind).text = IF p = "gmail" THEN Texts(here(p) \ blind) ELSE {}
             /\ Started(p, blind).skip = IF p = "gmail" THEN {} ELSE CachedIds(report)
  <2> DEFINE todo == Reached(p)
             hash == IF p = "gmail" THEN (here(p) \cup Range(dups[p])) \ blind ELSE {}
             text == IF p = "gmail" THEN Texts(here(p) \ blind) ELSE {}
             stem == IF p = "gmail" THEN Stems(Indexed(folder[p])) ELSE {}
             skip == IF p = "gmail" THEN {} ELSE CachedIds(report)
             a == [Idle EXCEPT !.pc = "scan", !.todo = todo]
             b == [a EXCEPT !.hash = hash, !.text = text]
             g == [b EXCEPT !.stem = stem, !.skip = skip]
  <2>1. Started(p, blind) = g
    BY IdleRun DEF Started, Runs
  <2>0. here(p) \subseteq Pdfs
    BY DEF IInv, FoldersTyped, At, Indexed, Range
  <2>2. hash \in SUBSET Pdfs
    <3> HIDE DEF here
    <3> QED
      BY <2>0 DEF IInv, FoldersTyped
  <2>3. text \in SUBSET Range(Text)
    <3> HIDE DEF here
    <3> QED
      BY <2>0, TextIsTotal DEF Texts, Range
  <2>4. stem \in SUBSET StemKeys
    BY DEF IInv, FoldersTyped, Stems, StemKeys, Indexed
  <2>5. skip \in SUBSET Msgs
    BY DEF IInv, FindersTyped, CachedIds, Row
  <2>6. todo \in SUBSET Msgs
    BY DEF Reached
  <2> HIDE DEF hash, text, stem, skip, todo
  <2>7. Idle.rows = {} /\ Idle.msg = NoMsg /\ Idle.pos = 1
    BY DEF Idle
  <2>8. /\ a \in Runs /\ a.pc = "scan" /\ a.todo = todo /\ a.mine = {} /\ a.rows = {} /\ a.msg = NoMsg
        /\ a.pos = 1
    BY <2>6, <2>7, IdleRun DEF Runs
  <2> HIDE DEF a
  <2>9. /\ b \in Runs /\ b.pc = "scan" /\ b.todo = todo /\ b.mine = {} /\ b.rows = {} /\ b.msg = NoMsg
        /\ b.pos = 1 /\ b.hash = hash /\ b.text = text
    BY <2>2, <2>3, <2>8 DEF Runs
  <2> HIDE DEF b
  <2>10. /\ g \in Runs /\ g.pc = "scan" /\ g.todo = todo /\ g.mine = {} /\ g.rows = {} /\ g.msg = NoMsg
         /\ g.pos = 1 /\ g.hash = hash /\ g.text = text /\ g.skip = skip
    BY <2>4, <2>5, <2>9 DEF Runs
  <2> HIDE DEF g
  <2> QED
    BY <2>1, <2>10 DEF hash, text, skip, todo
<1>3. \A p \in Providers : fin'[p] = Started(p, blind)
  BY <1>1
<1>4. FindersTyped'
  <2>1. fin' \in [Providers -> Runs]
    BY <1>1, <1>2
  <2>2. \A p \in Providers :
          /\ fin'[p].todo \subseteq {m \in Msgs : Mail[m].box = p}
          /\ fin'[p].pc = "scan" /\ fin'[p].msg = NoMsg /\ fin'[p].pos = 1
    <3>1. \A p : Reached(p) \subseteq {m \in Msgs : Mail[m].box = p}
      BY DEF Reached
    <3>2. \A p \in Providers :
            /\ fin'[p].todo = Reached(p) /\ fin'[p].pc = "scan" /\ fin'[p].msg = NoMsg /\ fin'[p].pos = 1
      BY <1>2, <1>3
    <3> QED
      BY <3>1, <3>2
  <2> QED
    BY <1>0, <1>1, <2>1, <2>2 DEF IInv, FindersTyped
<1>5. MonthTyped'
  <2>1. dirs = <<>> /\ runs' \in 0 .. MaxRuns
    BY <1>1, MaxRunsIsNat DEF IInv, MonthTyped
  <2> QED
    BY <1>0, <1>1, <2>1 DEF IInv, MonthTyped
<1>6. KeptInFolder' /\ MergedHoldsOnce' /\ Merges'
  BY <1>1 DEF IInv, KeptInFolder, MergedHoldsOnce, Merges
<1>7. /\ FoldersTyped'
      /\ \A r \in Providers : Copies(r)' /\ Chained(r)' /\ CleanCovers(r)'
      /\ \A r \in Providers : \A m : Covered(r, m) => Covered(r, m)'
  <2>1. \A r \in Providers : fin'[r].mine \in {fin[r].mine, {}}
    BY <1>2, <1>3
  <2> QED
    BY <1>1, <2>1, FilesStay
<1>8. ASSUME NEW p \in Providers PROVE Knows(p)'
  <2>1. Have(p)' = Have(p)
    BY <1>1 DEF Have
  <2>2. here(p) \subseteq Have(p) /\ Range(dups[p]) \subseteq Have(p)
    BY DEF At, Indexed, Have, Range
  <2> HIDE DEF here
  <2>3. Texts(here(p) \ blind) \subseteq Texts(Have(p))
    BY <2>2 DEF Texts
  <2>4. /\ p = "gmail" => (here(p) \cup Range(dups[p])) \ hidden' \subseteq fin'[p].hash
        /\ fin'[p].mine = {} /\ fin'[p].hash \subseteq Have(p) /\ fin'[p].text \subseteq Texts(Have(p))
    BY <1>1, <1>2, <1>3, <2>2, <2>3
  <2>5. Texts(Have(p))' = Texts(Have(p)) /\ here(p)' = here(p) /\ dups' = dups
    BY <1>1, <2>1 DEF Texts, here, At, Indexed
  <2> QED
    BY <2>1, <2>4, <2>5 DEF Knows, here
<1>9. ASSUME NEW p \in Providers PROVE Covers(p)'
  <2> DEFINE g == Started(p, blind)
  <2>1. fin'[p] = g /\ clean' = clean
    BY <1>1, <1>3
  <2>2. /\ g.todo = Reached(p) /\ g.msg = NoMsg /\ g.rows = {} /\ g.pc = "scan"
        /\ g.skip = IF p = "gmail" THEN {} ELSE CachedIds(report)
    BY <1>2
  <2> HIDE DEF g
  <2>3. \A m \in Msgs \ g.todo : ~Due(p, m)
    BY <2>2 DEF Due
  <2>4. \A m \in g.todo \cap g.skip :
            Due(p, m) => p = "outlook" /\ (clean[p] >= 1 => Covered(p, m)')
    <3>1. CleanCovers(p)
      BY DEF IInv
    <3>2. g.todo \subseteq Msgs
      BY <2>2 DEF Reached
    <3> QED
      BY <1>7, <2>2, <3>1, <3>2 DEF CleanCovers, Providers
  <2>5. g.msg \notin g.todo
    BY <2>2, MarkersAreFresh DEF Reached
  <2> QED
    BY <2>1, <2>2, <2>3, <2>4, <2>5, DueStays DEF Covers
<1> QED
  BY <1>4, <1>5, <1>6, <1>7, <1>8, <1>9 DEF IInv

\* The pass over the folders begins with nothing seen.
LEMMA FindersDonePreserves ==
    ASSUME IInv, FindersDone
    PROVE  IInv'
<1>1. /\ stage = "providers" /\ stage' = "dedupe" /\ seen' = Nothing
      /\ \A p \in Providers : fin[p].pc \in {"ok", "failed"}
      /\ dirs' = Successful
      /\ left' = IF Successful = <<>> THEN {} ELSE Listed(folder[Head(Successful)])
      /\ UNCHANGED <<folder, dups, report, fin, clean, faults, merged, unread, delivered, runs, hidden, skipped>>
  BY DEF FindersDone, OpenDirs, finderVars, history
<1>2. Successful \in DirLists
  BY SuccessFacts
<1>3. MonthTyped'
  BY <1>1, <1>2 DEF IInv, MonthTyped, Nothing
<1>4. KeptInFolder'
  BY <1>1 DEF KeptInFolder, Nothing
<1>5. MergedHoldsOnce' /\ Merges'
  BY <1>1 DEF IInv, MonthTyped, MergedHoldsOnce, Merges
<1>6. faults' \in 0 .. MaxFaults
  BY <1>1, MonthFacts
<1> QED
  BY <1>1, <1>3, <1>4, <1>5, <1>6, QuietStep

\* Dedupe: a file that is kept, or that cannot be read, is behind the pass.
LEMMA KeepPreserves ==
    ASSUME IInv, NEW path \in left, KeepFile(path) \/ DedupeFails(path)
    PROVE  IInv'
<1> DEFINE p == Head(dirs)
           pdf == folder[p][path]
<1>1. /\ stage = "dedupe" /\ left' = left \ {path}
      /\ UNCHANGED <<folder, dups, report, fin, clean, stage, dirs, merged, unread, delivered, runs, hidden, skipped>>
  BY DEF KeepFile, DedupeFails, finderVars, history
<1>2. dirs # <<>> /\ p \in Providers /\ path \in Listed(folder[p]) /\ faults \in 0 .. MaxFaults
  BY MonthFacts
<1>3. faults' \in 0 .. MaxFaults
  BY <1>2, FaultBound DEF KeepFile, DedupeFails, finderVars
<1>4. \/ seen' = seen
      \/ seen' = [hash |-> seen.hash \cup {pdf},
                  text |-> seen.text \cup Texts({pdf}),
                  stem |-> seen.stem \cup {Stem(path)}]
  BY DEF KeepFile, DedupeFails
<1>5. MonthTyped'
  BY <1>1, <1>4 DEF IInv, MonthTyped
<1>6. KeptInFolder'
  <2> DEFINE kept == {folder[p][q] : q \in Kept}
  <2>1. seen.hash \subseteq kept /\ seen.text \subseteq Texts(kept) /\ seen.stem \subseteq {Stem(q) : q \in Kept}
    BY <1>1, <1>2 DEF IInv, KeptInFolder
  <2>2. Kept' = Kept \cup {path}
    BY <1>1, <1>2 DEF Kept
  <2>3. {folder[p][q] : q \in Kept}' = kept \cup {pdf}
    BY <1>1, <2>2
  <2>4. Texts(kept \cup {pdf}) = Texts(kept) \cup Texts({pdf})
    BY DEF Texts
  <2>5. {Stem(q) : q \in Kept}' = {Stem(q) : q \in Kept} \cup {Stem(path)}
    BY <2>2 DEF Stem
  <2>6. /\ seen'.hash \subseteq kept \cup {pdf} /\ seen'.text \subseteq Texts(kept) \cup Texts({pdf})
        /\ seen'.stem \subseteq {Stem(q) : q \in Kept} \cup {Stem(path)}
    <3> DEFINE stems == {Stem(q) : q \in Kept}
               texts == Texts(kept)
               own == Texts({pdf})
               key == Stem(path)
    <3>1. seen.hash \subseteq kept /\ seen.text \subseteq texts /\ seen.stem \subseteq stems
      BY <2>1
    <3>2. \/ seen' = seen
          \/ seen' = [hash |-> seen.hash \cup {pdf}, text |-> seen.text \cup own,
                      stem |-> seen.stem \cup {key}]
      BY <1>4
    <3> HIDE DEF kept, stems, texts, own, key, pdf
    <3>3. /\ seen'.hash \subseteq kept \cup {pdf} /\ seen'.text \subseteq texts \cup own
          /\ seen'.stem \subseteq stems \cup {key}
      BY <3>1, <3>2
    <3> QED
      BY <3>3 DEF stems, texts, own, key
  <2>7. Texts({folder[p][q] : q \in Kept})' = Texts(kept) \cup Texts({pdf})
    BY <2>3, <2>4 DEF Texts
  <2> QED
    BY <2>3, <2>5, <2>6, <2>7 DEF KeptInFolder
<1>7. MergedHoldsOnce' /\ Merges'
  BY <1>1 DEF IInv, MonthTyped, MergedHoldsOnce, Merges
<1>8. \A r \in Providers : fin[r].pc \in {"idle", "ok", "failed"}
  BY <1>1, FindersRest
<1> QED
  BY <1>1, <1>3, <1>5, <1>6, <1>7, <1>8, QuietStep

\* A file that is moved aside has a twin among the files kept.
LEMMA TwinIsKept ==
    ASSUME IInv, stage = "dedupe", NEW path \in left, NEW pdf, IsDuplicate(path, pdf)
    PROVE  \E q \in Kept : Twin([stem |-> Stem(path), pdf |-> pdf],
                                [stem |-> Stem(q), pdf |-> folder[Head(dirs)][q]])
<1> DEFINE p == Head(dirs)
           kept == {folder[p][q] : q \in Kept}
           e == [stem |-> Stem(path), pdf |-> pdf]
           k(q) == [stem |-> Stem(q), pdf |-> folder[p][q]]
<1>1. seen.hash \subseteq kept /\ seen.text \subseteq Texts(kept) /\ seen.stem \subseteq {Stem(q) : q \in Kept}
  BY MonthFacts DEF KeptInFolder
<1>2. e.pdf = pdf /\ e.stem = Stem(path) /\ \A q : k(q).pdf = folder[p][q] /\ k(q).stem = Stem(q)
  OBVIOUS
<1> HIDE DEF e, k
<1>3. CASE pdf \in seen.hash
  <2>1. PICK q \in Kept : pdf = folder[p][q]
    BY <1>1, <1>3
  <2>2. Twin(e, k(q))
    BY <1>2, <2>1 DEF Twin
  <2> QED
    BY <2>2 DEF e, k
<1>4. CASE Stem(path) \in seen.stem
  <2>1. PICK q \in Kept : Stem(path) = Stem(q)
    BY <1>1, <1>4
  <2>2. Twin(e, k(q))
    BY <1>2, <2>1 DEF Twin
  <2> QED
    BY <2>2 DEF e, k
<1>5. CASE SameText(pdf, seen.text)
  <2>1. Text[pdf] # NoText /\ Text[pdf] \in Texts(kept)
    BY <1>1, <1>5 DEF SameText
  <2>2. PICK q \in Kept : Text[pdf] = Text[folder[p][q]]
    BY <2>1 DEF Texts
  <2>3. Twin(e, k(q))
    BY <1>2, <2>1, <2>2 DEF Twin, SameText, Texts
  <2> QED
    BY <2>3 DEF e, k
<1> QED
  BY <1>3, <1>4, <1>5 DEF IsDuplicate

\* A duplicate leaves the folder for a free name among the duplicates.
LEMMA MoveFacts ==
    ASSUME IInv, NEW path \in left, MoveAside(path)
    PROVE  LET p == Head(dirs)
               pdf == folder[p][path]
               d == UniquePath(dups[p], path)
           IN  /\ /\ stage = "dedupe" /\ left' = left \ {path} /\ IsDuplicate(path, pdf)
                  /\ UNCHANGED <<report, fin, clean, faults, stage, dirs, seen, merged, unread, delivered, runs, hidden, skipped>>
               /\ /\ folder' = [folder EXCEPT ![p] = Remove(folder[p], path)]
                  /\ dups' = [dups EXCEPT ![p] = Put(dups[p], d, pdf)]
                  /\ p \in Providers /\ path \in Listed(folder[p]) /\ d.wanted = path
                  /\ \A r \in Providers \ {p} : folder'[r] = folder[r] /\ dups'[r] = dups[r]
               /\ /\ DOMAIN folder'[p] = DOMAIN folder[p] \ {path}
                  /\ \A x \in DOMAIN folder[p] \ {path} : folder'[p][x] = folder[p][x]
                  /\ Range(folder[p]) = Range(folder'[p]) \cup {pdf}
                  /\ IsFiniteSet(DOMAIN folder[p]) => IsFiniteSet(DOMAIN folder'[p])
               /\ /\ DOMAIN dups'[p] = DOMAIN dups[p] \cup {d} /\ dups'[p][d] = pdf
                  /\ \A x \in DOMAIN dups[p] : dups'[p][x] = dups[p][x]
                  /\ Range(dups'[p]) = Range(dups[p]) \cup {pdf}
                  /\ IsFiniteSet(DOMAIN dups[p]) => IsFiniteSet(DOMAIN dups'[p])
<1> DEFINE p == Head(dirs)
           pdf == folder[p][path]
           d == UniquePath(dups[p], path)
<1>1. /\ stage = "dedupe" /\ left' = left \ {path} /\ IsDuplicate(path, pdf)
      /\ folder' = [folder EXCEPT ![p] = Remove(folder[p], path)]
      /\ dups' = [dups EXCEPT ![p] = Put(dups[p], d, pdf)]
      /\ UNCHANGED <<report, fin, clean, faults, stage, dirs, seen, merged, unread, delivered, runs, hidden, skipped>>
  BY DEF MoveAside, history
<1>2. /\ dirs # <<>> /\ p \in Providers /\ path \in DOMAIN folder[p] /\ faults \in 0 .. MaxFaults
      /\ MonthTyped /\ FoldersTyped /\ FindersTyped
  BY MonthFacts
<1>3. DOMAIN folder = Providers /\ DOMAIN dups = Providers
  BY <1>2 DEF FoldersTyped
<1>4. /\ folder'[p] = Remove(folder[p], path) /\ dups'[p] = Put(dups[p], d, pdf)
      /\ \A r \in Providers \ {p} : folder'[r] = folder[r] /\ dups'[r] = dups[r]
  BY <1>1, <1>2, <1>3
<1>5. d \notin DOMAIN dups[p] /\ d.wanted = path
  <2>1. IsFiniteSet(DOMAIN dups[p])
    BY <1>2 DEF FoldersTyped
  <2> QED
    BY <2>1, PathIsFree
<1>6. /\ DOMAIN folder'[p] = DOMAIN folder[p] \ {path}
      /\ \A x \in DOMAIN folder[p] \ {path} : folder'[p][x] = folder[p][x]
      /\ Range(folder[p]) = Range(folder'[p]) \cup {pdf}
      /\ IsFiniteSet(DOMAIN folder[p]) => IsFiniteSet(DOMAIN folder'[p])
  <2> DEFINE F == folder[p]
             G == folder'[p]
  <2>1. path \in DOMAIN F /\ G = Remove(F, path)
    BY <1>2, <1>4
  <2> HIDE DEF F, G
  <2>2. /\ DOMAIN G = DOMAIN F \ {path} /\ \A x \in DOMAIN F \ {path} : G[x] = F[x]
        /\ Range(F) = Range(G) \cup {F[path]}
        /\ IsFiniteSet(DOMAIN F) => IsFiniteSet(DOMAIN G)
    BY <2>1, Removing
  <2> QED
    BY <2>2 DEF F, G
<1>7. /\ DOMAIN dups'[p] = DOMAIN dups[p] \cup {d} /\ dups'[p][d] = pdf
      /\ \A x \in DOMAIN dups[p] : dups'[p][x] = dups[p][x]
      /\ Range(dups'[p]) = Range(dups[p]) \cup {pdf}
      /\ IsFiniteSet(DOMAIN dups[p]) => IsFiniteSet(DOMAIN dups'[p])
  <2> DEFINE F == dups[p]
             G == dups'[p]
  <2>1. d \notin DOMAIN F /\ G = Put(F, d, pdf)
    BY <1>4, <1>5
  <2> HIDE DEF F, G, d, pdf
  <2>2. /\ DOMAIN G = DOMAIN F \cup {d} /\ G[d] = pdf
        /\ \A x \in DOMAIN F : G[x] = F[x]
        /\ Range(G) = Range(F) \cup {pdf}
        /\ IsFiniteSet(DOMAIN F) => IsFiniteSet(DOMAIN G)
    <3>1. /\ DOMAIN Put(F, d, pdf) = DOMAIN F \cup {d}
          /\ Put(F, d, pdf)[d] = pdf
          /\ \A x \in DOMAIN F : Put(F, d, pdf)[x] = F[x]
          /\ Range(Put(F, d, pdf)) = Range(F) \cup {pdf}
          /\ IsFiniteSet(DOMAIN F) => IsFiniteSet(DOMAIN Put(F, d, pdf))
      BY <2>1, Putting
    <3> QED
      BY <2>1, <3>1
  <2> QED
    BY <2>2 DEF F, G
<1> HIDE DEF p, pdf, d
<1>8. p \in Providers /\ path \in Listed(folder[p]) /\ d.wanted = path
  BY <1>2, <1>5, MonthFacts DEF p, d
<1> QED
  BY <1>1, <1>4, <1>6, <1>7, <1>8 DEF p, pdf, d

\* A PDF that is moved aside is still there.
LEMMA MoveKeeps ==
    ASSUME IInv, NEW path \in left, MoveAside(path)
    PROVE  \A r \in Providers : Have(r) \subseteq Have(r)'
<1> DEFINE p == Head(dirs)
           pdf == folder[p][path]
<1>1. /\ \A r \in Providers \ {p} : folder'[r] = folder[r] /\ dups'[r] = dups[r]
      /\ Range(folder[p]) = Range(folder'[p]) \cup {pdf}
      /\ Range(dups'[p]) = Range(dups[p]) \cup {pdf}
  BY MoveFacts
<1> HIDE DEF p, pdf
<1> QED
  BY <1>1 DEF Have

\* Dedupe: a duplicate goes to the other folder, and nothing is lost.
LEMMA MovePreserves ==
    ASSUME IInv, NEW path \in left, MoveAside(path)
    PROVE  IInv'
<1> DEFINE p == Head(dirs)
           pdf == folder[p][path]
           d == UniquePath(dups[p], path)
<1>1. /\ stage = "dedupe" /\ left' = left \ {path} /\ IsDuplicate(path, pdf)
      /\ folder' = [folder EXCEPT ![p] = Remove(folder[p], path)]
      /\ dups' = [dups EXCEPT ![p] = Put(dups[p], d, pdf)]
      /\ UNCHANGED <<report, fin, clean, faults, stage, dirs, seen, merged, unread, delivered, runs, hidden, skipped>>
  BY DEF MoveAside, history
<1>2. /\ dirs # <<>> /\ p \in Providers /\ path \in DOMAIN folder[p] /\ faults \in 0 .. MaxFaults
      /\ MonthTyped /\ FoldersTyped /\ FindersTyped
  BY <1>1, MonthFacts
<1>3. DOMAIN folder = Providers /\ DOMAIN dups = Providers
  BY <1>2 DEF FoldersTyped
<1>4. \A r \in Providers \ {p} : folder'[r] = folder[r] /\ dups'[r] = dups[r]
  BY MoveFacts
<1>5. d.wanted = path
  BY MoveFacts
<1>6. /\ DOMAIN folder'[p] = DOMAIN folder[p] \ {path}
      /\ \A x \in DOMAIN folder[p] \ {path} : folder'[p][x] = folder[p][x]
      /\ Range(folder[p]) = Range(folder'[p]) \cup {pdf}
      /\ IsFiniteSet(DOMAIN folder[p]) => IsFiniteSet(DOMAIN folder'[p])
  BY MoveFacts
<1>7. /\ DOMAIN dups'[p] = DOMAIN dups[p] \cup {d} /\ dups'[p][d] = pdf
      /\ \A x \in DOMAIN dups[p] : dups'[p][x] = dups[p][x]
      /\ Range(dups'[p]) = Range(dups[p]) \cup {pdf}
      /\ IsFiniteSet(DOMAIN dups[p]) => IsFiniteSet(DOMAIN dups'[p])
  BY MoveFacts
<1>8. pdf \in Pdfs
  BY <1>2, <1>6 DEF FoldersTyped
<1>0. /\ path \in Listed(folder[p]) /\ Listed(folder[p]) \subseteq DOMAIN folder[p]
      /\ Listed(folder'[p]) = Listed(folder[p]) \ {path}
      /\ Indexed(folder'[p]) = Indexed(folder[p]) \ {path} /\ path \in Indexed(folder[p])
      /\ Indexed(folder[p]) \subseteq DOMAIN folder[p]
  <2>1. path \in Listed(folder[p])
    BY MoveFacts
  <2>2. path \in Indexed(folder[p])
    BY <2>1, Suffixes
  <2>3. \A F : Listed(F) = {q \in DOMAIN F : q.wanted.ext = ".pdf"}
              /\ Indexed(F) = {q \in DOMAIN F : q.wanted.ext \in PdfSuffixes}
    BY DEF Listed, Indexed
  <2> HIDE DEF p
  <2> QED
    BY <1>6, <2>1, <2>2, <2>3
<1> HIDE DEF d
<1>9. FoldersTyped'
  <2>1. /\ folder' = [r \in Providers |-> folder'[r]] /\ dups' = [r \in Providers |-> dups'[r]]
    BY <1>1, <1>3
  <2>2. /\ DOMAIN folder'[p] \subseteq Paths /\ IsFiniteSet(DOMAIN folder'[p])
        /\ Range(folder'[p]) \subseteq Pdfs
        /\ IsFiniteSet(DOMAIN dups'[p]) /\ Range(dups'[p]) \subseteq Pdfs
    BY <1>2, <1>6, <1>7, <1>8 DEF FoldersTyped
  <2>3. \A r \in Providers :
          /\ DOMAIN folder'[r] \subseteq Paths /\ IsFiniteSet(DOMAIN folder'[r])
          /\ Range(folder'[r]) \subseteq Pdfs
          /\ IsFiniteSet(DOMAIN dups'[r]) /\ Range(dups'[r]) \subseteq Pdfs
    BY <1>2, <1>4, <2>2 DEF FoldersTyped
  <2> QED
    BY <2>1, <2>3 DEF FoldersTyped
<1>10. \A r \in Providers : fin[r].pc \in {"idle", "ok", "failed"}
  BY <1>1, FindersRest
<1>11. FindersTyped' /\ \A r \in Providers : Knows(r)' /\ Covers(r)'
  <2>1. fin' = fin /\ report' = report /\ clean' = clean /\ faults' \in 0 .. MaxFaults
    BY <1>1, <1>2
  <2>2. FindersTyped' /\ \A r \in Providers : fin'[r].pc \in {"idle", "ok", "failed"}
    BY <1>2, <1>10, <2>1, RestTyped
  <2> QED
    BY <2>2, NobodyRuns
<1>12. \A r \in Providers : Have(r) \subseteq Have(r)'
  BY MoveKeeps
<1>13. ASSUME NEW r \in Providers PROVE CleanCovers(r)'
  <2>1. \A m : Covered(r, m) => Covered(r, m)'
    BY <1>12, KeepsCovered
  <2>2. CachedIds(report)' = CachedIds(report) /\ clean' = clean /\ CleanCovers(r)
    BY <1>1 DEF IInv
  <2> QED
    BY <2>1, <2>2, DueStays DEF CleanCovers
<1>14. ASSUME NEW r \in Providers PROVE Copies(r)'
  <2>1. Copies(r) /\ fin' = fin /\ hidden' = hidden
    BY <1>1 DEF IInv
  <2>2. CASE r # p
    BY <1>4, <2>1, <2>2 DEF Copies
  <2>3. CASE r = p
    <3>1. p = "outlook" => \A x, y \in DOMAIN folder'[p] :
            x # y /\ folder'[p][x] = folder'[p][y] => ~({x, y} \subseteq fin[p].mine)
      BY <1>6, <2>1, <2>3 DEF Copies
    <3>2. ASSUME p = "gmail"
          PROVE  /\ \A x, y \in Indexed(folder'[p]) :
                      x # y /\ folder'[p][x] = folder'[p][y] => folder'[p][x] \in hidden
                 /\ \A x \in Indexed(folder'[p]), y \in DOMAIN dups'[p] :
                      folder'[p][x] = dups'[p][y] => dups'[p][y] \in hidden
                 /\ \A x, y \in DOMAIN dups'[p] :
                      x # y /\ dups'[p][x] = dups'[p][y] => dups'[p][x] \in hidden
      <4>1. /\ \A x \in Indexed(folder[p]), y \in DOMAIN dups[p] :
                  folder[p][x] = dups[p][y] => dups[p][y] \in hidden
            /\ \A x, y \in DOMAIN dups[p] : x # y /\ dups[p][x] = dups[p][y] => dups[p][x] \in hidden
            /\ \A x, y \in Indexed(folder[p]) :
                  x # y /\ folder[p][x] = folder[p][y] => folder[p][x] \in hidden
        BY <2>1, <2>3, <3>2 DEF Copies
      <4>2. \A x \in Indexed(folder'[p]) : x \in Indexed(folder[p]) /\ x # path /\ folder'[p][x] = folder[p][x]
        BY <1>0, <1>6
      <4>3. \A x \in Indexed(folder'[p]) : folder'[p][x] = pdf => pdf \in hidden
        BY <1>0, <4>1, <4>2
      <4>4. \A y \in DOMAIN dups[p] : dups[p][y] = pdf => pdf \in hidden
        BY <1>0, <4>1
      <4> HIDE DEF pdf, p
      <4> QED
        BY <1>7, <4>1, <4>2, <4>3, <4>4
    <3>3. fin'[r].mine = fin[p].mine /\ hidden' = hidden
      BY <1>1, <2>1, <2>3
    <3> HIDE DEF p
    <3> QED
      BY <2>3, <3>1, <3>2, <3>3 DEF Copies
  <2> QED
    BY <2>2, <2>3
<1>15. ASSUME NEW r \in Providers PROVE Chained(r)'
  <2>1. \A a, b : Twin(a, b)' <=> Twin(a, b)
    BY DEF Twin, SameText, Texts
  <2>2. Chained(r)
    BY DEF IInv
  <2>3. CASE r # p
    <3>1. Moved(r)' = Moved(r) /\ InFolder(r)' = InFolder(r)
      BY <1>4, <2>3 DEF Moved, InFolder
    <3> QED
      BY <2>1, <2>2, <3>1 DEF Chained
  <2>4. CASE r = p
    <3> DEFINE e == [stem |-> Stem(path), pdf |-> pdf]
    <3>1. Moved(r)' = Moved(r) \cup {e}
      BY <1>5, <1>7, <2>4 DEF Moved
    <3>2. InFolder(r) = InFolder(r)' \cup {e}
      BY <1>0, <1>6, <2>4 DEF InFolder
    <3>3. \E b \in InFolder(r)' : Twin(e, b)
      <4>1. PICK q \in Kept : Twin(e, [stem |-> Stem(q), pdf |-> folder[p][q]])
        BY <1>1, TwinIsKept
      <4>2. q \in Listed(folder'[p]) /\ folder'[p][q] = folder[p][q]
        BY <1>0, <1>6, <4>1 DEF Kept
      <4>3. [stem |-> Stem(q), pdf |-> folder[p][q]] \in InFolder(r)'
        BY <2>4, <4>2 DEF InFolder
      <4> QED
        BY <4>1, <4>3
    <3> DEFINE M == Moved(r)
               I == InFolder(r)
               MM == Moved(r)'
               II == InFolder(r)'
    <3>4. \A aside \in (SUBSET (M \ I)) \ {{}} : \E a \in aside, b \in (M \cup I) \ aside : Twin(a, b)
      BY <2>2 DEF Chained
    <3>5. MM = M \cup {e} /\ I = II \cup {e} /\ \E b \in II : Twin(e, b)
      BY <3>1, <3>2, <3>3
    <3> HIDE DEF e, M, I, MM, II
    <3>6. ASSUME NEW aside \in (SUBSET (MM \ II)) \ {{}}
          PROVE  \E a \in aside, b \in (MM \cup II) \ aside : Twin(a, b)
      <4>1. CASE e \in aside
        <5>1. PICK b \in II : Twin(e, b)
          BY <3>5
        <5>2. b \notin aside
          BY <3>6, <5>1
        <5> QED
          BY <4>1, <5>1, <5>2
      <4>2. CASE e \notin aside
        <5>1. aside \in (SUBSET (M \ I)) \ {{}}
          BY <3>5, <3>6, <4>2
        <5>2. PICK a \in aside, b \in (M \cup I) \ aside : Twin(a, b)
          BY <3>4, <5>1
        <5>3. b \in (MM \cup II) \ aside
          BY <3>5, <5>2
        <5> QED
          BY <5>2, <5>3
      <4> QED
        BY <4>1, <4>2
    <3>7. \A aside \in (SUBSET (Moved(r)' \ InFolder(r)')) \ {{}} :
            \E a \in aside, b \in (Moved(r)' \cup InFolder(r)') \ aside : Twin(a, b)
      BY <3>6 DEF MM, II
    <3> QED
      BY <2>1, <3>7 DEF Chained
  <2> QED
    BY <2>3, <2>4
<1>16. MonthTyped'
  BY <1>0, <1>1, <1>2 DEF MonthTyped
<1>17. KeptInFolder'
  <2>1. Kept' = Kept
    BY <1>0, <1>1 DEF Kept
  <2>2. \A q \in Kept : folder'[p][q] = folder[p][q]
    BY <1>0, <1>6 DEF Kept
  <2>3. /\ seen.hash \subseteq {folder[p][q] : q \in Kept}
        /\ seen.text \subseteq Texts({folder[p][q] : q \in Kept})
        /\ seen.stem \subseteq {Stem(q) : q \in Kept}
    BY <1>1, <1>2 DEF IInv, KeptInFolder
  <2>4. {folder[p][q] : q \in Kept}' = {folder[p][q] : q \in Kept}
    BY <1>1, <2>1, <2>2
  <2>5. Texts({folder[p][q] : q \in Kept})' = Texts({folder[p][q] : q \in Kept})
    BY <2>4 DEF Texts
  <2>6. {Stem(q) : q \in Kept}' = {Stem(q) : q \in Kept}
    BY <2>1 DEF Stem
  <2> QED
    BY <1>1, <2>3, <2>4, <2>5, <2>6 DEF KeptInFolder
<1>18. MergedHoldsOnce' /\ Merges'
  BY <1>1, <1>2 DEF IInv, MonthTyped, MergedHoldsOnce, Merges
<1> QED
  BY <1>9, <1>11, <1>13, <1>14, <1>15, <1>16, <1>17, <1>18 DEF IInv

\* The end of one folder's pass: the next folder.
LEMMA DirDedupedPreserves ==
    ASSUME IInv, DirDeduped
    PROVE  IInv'
<1>1. /\ stage = "dedupe" /\ left = {} /\ Len(dirs) > 1 /\ stage' = stage /\ seen' = Nothing
      /\ UNCHANGED <<folder, dups, report, fin, clean, faults, merged, unread, delivered, runs, hidden, skipped>>
  BY DEF DirDeduped, finderVars, history
<1>2. MonthTyped /\ faults' \in 0 .. MaxFaults /\ delivered = {}
  BY <1>1, MonthFacts DEF MonthTyped
<1>3. \A r \in Providers : fin[r].pc \in {"idle", "ok", "failed"}
  BY <1>1, FindersRest
<1>4. MergedHoldsOnce'
  BY <1>1, MonthFacts DEF MergedHoldsOnce
<1>5. Tail(dirs) # <<>> /\ Tail(dirs) \in DirLists
  BY <1>1, <1>2, DirFacts DEF MonthTyped
<1>6. dirs' = Tail(dirs) /\ left' = Listed(folder[Head(Tail(dirs))])
  BY <1>5 DEF DirDeduped, OpenDirs
<1>7. MonthTyped'
  BY <1>1, <1>2, <1>5, <1>6 DEF MonthTyped, Nothing
<1>8. KeptInFolder' /\ Merges'
  BY <1>1, <1>2 DEF KeptInFolder, Nothing, Merges
<1> QED
  BY <1>1, <1>2, <1>3, <1>4, <1>7, <1>8, QuietStep

\* The consolidation begins with what it can read of the merged folder.
LEMMA StartMergePreserves ==
    ASSUME IInv, NEW blind \in SUBSET Range(merged), StartMerge(blind)
    PROVE  IInv'
<1>1. /\ stage = "dedupe" /\ stage' = "merge" /\ dirs' = Successful /\ unread' = {}
      /\ left' = IF Successful = <<>> THEN {} ELSE Listed(folder[Head(Successful)])
      /\ seen' = [Nothing EXCEPT !.hash = Range(merged) \ blind]
      /\ skipped' = skipped \cup blind /\ Overlooks(blind)
      /\ UNCHANGED <<folder, dups, report, fin, clean, merged, delivered, runs, hidden>>
  BY DEF StartMerge, OpenDirs, Preloaded
<1>2. MonthTyped /\ MergedHoldsOnce /\ delivered = {} /\ faults' \in 0 .. MaxFaults
  BY <1>1, MonthFacts, OverlooksBound DEF MonthTyped
<1>3. seen' = [hash |-> Range(merged) \ blind, text |-> {}, stem |-> {}]
  BY <1>1 DEF Nothing
<1>4. MonthTyped'
  <2>1. skipped' \subseteq Pdfs \cup {Torn}
    BY <1>1, <1>2 DEF MonthTyped
  <2> QED
    BY <1>1, <1>2, <1>3, <2>1, SuccessFacts DEF MonthTyped
<1>5. KeptInFolder' /\ MergedHoldsOnce'
  BY <1>1, <1>2 DEF KeptInFolder, MergedHoldsOnce
<1>6. \A p \in Providers : fin[p].pc = "ok" => Pending(p)' = Listed(folder[p])
  <2> SUFFICES ASSUME NEW p \in Providers, fin[p].pc = "ok" PROVE Pending(p)' = Listed(folder[p])
    OBVIOUS
  <2>1. /\ Successful # <<>>
        /\ p = Head(Successful) \/ (Len(Successful) = 2 /\ p = Successful[2] /\ p # Head(Successful))
    BY SuccessFacts
  <2> QED
    BY <1>1, <2>1 DEF Pending
<1>7. Merges'
  <2>1. /\ seen'.hash \subseteq Range(merged') /\ Range(merged') \ skipped' \subseteq seen'.hash
        /\ delivered' = {}
    BY <1>1, <1>2, <1>3
  <2>2. \A p \in Providers : fin'[p].pc = "ok" => Listed(folder'[p]) \ Pending(p)' = {}
    BY <1>1, <1>6
  <2> QED
    BY <2>1, <2>2 DEF Merges
<1>8. \A r \in Providers : fin[r].pc \in {"idle", "ok", "failed"}
  BY <1>1, FindersRest
<1> QED
  BY <1>1, <1>2, <1>4, <1>5, <1>7, <1>8, QuietStep

\* What is put into the merged folder under a free path.
LEMMA MergedGrows ==
    ASSUME IInv, NEW path, NEW v \in Pdfs \cup {Torn},
           v \in Range(merged) => v \in {Torn} \cup skipped, skipped' = skipped,
           merged' = Put(merged, UniquePath(merged, path), v)
    PROVE  /\ Range(merged') = Range(merged) \cup {v} /\ MergedHoldsOnce'
           /\ IsFiniteSet(DOMAIN merged') /\ Range(merged') \subseteq Pdfs \cup {Torn}
<1> DEFINE d == UniquePath(merged, path)
<1>1. IsFiniteSet(DOMAIN merged) /\ Range(merged) \subseteq Pdfs \cup {Torn} /\ MergedHoldsOnce
  BY MonthFacts DEF MonthTyped
<1>2. d \notin DOMAIN merged
  BY <1>1, PathIsFree
<1> HIDE DEF d
<1>3. /\ DOMAIN Put(merged, d, v) = DOMAIN merged \cup {d}
      /\ Put(merged, d, v)[d] = v
      /\ \A x \in DOMAIN merged : Put(merged, d, v)[x] = merged[x]
      /\ Range(Put(merged, d, v)) = Range(merged) \cup {v}
      /\ IsFiniteSet(DOMAIN merged) => IsFiniteSet(DOMAIN Put(merged, d, v))
  BY <1>2, Putting
<1>4. merged' = Put(merged, d, v)
  BY DEF d
<1>5. /\ DOMAIN merged' = DOMAIN merged \cup {d} /\ merged'[d] = v
      /\ \A x \in DOMAIN merged : merged'[x] = merged[x]
      /\ Range(merged') = Range(merged) \cup {v} /\ IsFiniteSet(DOMAIN merged')
  BY <1>1, <1>3, <1>4
<1>6. \A x \in DOMAIN merged : merged[x] = v => v \in {Torn} \cup skipped
  BY DEF Range
<1>7. \A a, b \in DOMAIN merged' :
        merged'[a] = merged'[b] /\ a # b => merged'[a] \in {Torn} \cup skipped'
  BY <1>1, <1>5, <1>6 DEF MergedHoldsOnce
<1>8. MergedHoldsOnce'
  BY <1>7 DEF MergedHoldsOnce
<1> QED
  BY <1>1, <1>5, <1>8

\* Merge: a file is copied, known already, or cannot be read.
LEMMA CopyPreserves ==
    ASSUME IInv, NEW path \in left, CopyOrSkip(path) \/ Unreadable(path)
    PROVE  IInv'
<1> DEFINE p == Head(dirs)
           pdf == folder[p][path]
<1>1. /\ stage = "merge" /\ left' = left \ {path}
      /\ UNCHANGED <<folder, dups, report, fin, clean, stage, dirs, delivered, runs, hidden, skipped>>
  BY DEF CopyOrSkip, Unreadable, finderVars, history
<1>2. /\ dirs # <<>> /\ p \in Providers /\ path \in DOMAIN folder[p] /\ faults \in 0 .. MaxFaults
      /\ MonthTyped /\ MergedHoldsOnce /\ Merges /\ pdf \in Pdfs
  BY MonthFacts
<1>3. faults' \in 0 .. MaxFaults
  BY <1>2, FaultBound DEF CopyOrSkip, Unreadable, finderVars
<1>4. \A r \in Providers : fin[r].pc \in {"idle", "ok", "failed"}
  BY <1>1, FindersRest
<1>5. KeptInFolder'
  BY <1>1 DEF KeptInFolder
<1>6. /\ delivered = {} /\ Range(merged) \ skipped \subseteq seen.hash /\ seen.hash \subseteq Range(merged)
      /\ \A r \in Providers : fin[r].pc = "ok" /\ r \notin unread =>
            \A q \in Listed(folder[r]) \ Pending(r) : folder[r][q] \in Range(merged)
  BY <1>1, <1>2 DEF MonthTyped, Merges
<1>7. \A r \in Providers : Pending(r) \subseteq Pending(r)' \cup (IF r = p THEN {path} ELSE {})
  BY <1>1, <1>2 DEF Pending
<1>8. CASE CopyOrSkip(path)
  <2>1. unread' = unread
    BY <1>8 DEF CopyOrSkip
  <2>2. /\ Range(merged') \ skipped' \subseteq seen'.hash /\ seen'.hash \subseteq Range(merged')
        /\ Range(merged') = Range(merged) \cup {pdf}
        /\ MergedHoldsOnce' /\ IsFiniteSet(DOMAIN merged') /\ Range(merged') \subseteq Pdfs \cup {Torn}
        /\ seen' = [hash |-> seen'.hash, text |-> seen'.text, stem |-> seen'.stem]
    <3>1. CASE pdf \in seen.hash
      <4>1. merged' = merged /\ seen' = seen
        BY <1>8, <3>1 DEF CopyOrSkip
      <4> QED
        BY <1>1, <1>2, <1>6, <3>1, <4>1 DEF MonthTyped, MergedHoldsOnce
    <3>2. CASE pdf \notin seen.hash
      <4>1. merged' = Put(merged, UniquePath(merged, path), pdf) /\ seen' = [seen EXCEPT !.hash = seen.hash \cup {pdf}]
        BY <1>8, <3>2 DEF CopyOrSkip
      <4>2. /\ Range(merged') = Range(merged) \cup {pdf} /\ MergedHoldsOnce'
            /\ IsFiniteSet(DOMAIN merged') /\ Range(merged') \subseteq Pdfs \cup {Torn}
        <5>1. pdf \in Pdfs \cup {Torn} /\ (pdf \in Range(merged) => pdf \in {Torn} \cup skipped)
          BY <1>2, <1>6, <3>2
        <5> HIDE DEF pdf
        <5> QED
          BY <1>1, <4>1, <5>1, MergedGrows
      <4>3. seen = [hash |-> seen.hash, text |-> seen.text, stem |-> seen.stem]
        BY <1>2 DEF MonthTyped
      <4>4. seen' = [hash |-> seen.hash \cup {pdf}, text |-> seen.text, stem |-> seen.stem]
        BY <4>1, <4>3
      <4> HIDE DEF pdf
      <4>5. seen'.hash = seen.hash \cup {pdf} /\ seen' = [hash |-> seen'.hash, text |-> seen'.text, stem |-> seen'.stem]
        BY <4>4
      <4> QED
        BY <1>1, <1>6, <4>2, <4>5
    <3> QED
      BY <3>1, <3>2
  <2>3. MonthTyped'
    BY <1>1, <1>2, <2>1, <2>2 DEF MonthTyped
  <2>4. ASSUME NEW r \in Providers, fin[r].pc = "ok", r \notin unread,
               NEW q \in Listed(folder[r]) \ Pending(r)'
        PROVE  folder[r][q] \in Range(merged')
    <3>1. CASE q \in Pending(r)
      BY <1>7, <2>2, <2>4, <3>1
    <3>2. CASE q \notin Pending(r)
      BY <1>6, <2>2, <2>4, <3>2
    <3> QED
      BY <3>1, <3>2
  <2>5. Merges'
    BY <1>1, <1>6, <2>1, <2>2, <2>4 DEF Merges
  <2> QED
    BY <1>1, <1>3, <1>4, <1>5, <2>2, <2>3, <2>5, QuietStep
<1>9. CASE Unreadable(path)
  <2>1. unread' = unread \cup {p} /\ merged' = merged /\ seen' = seen
    BY <1>9 DEF Unreadable
  <2>2. MonthTyped' /\ MergedHoldsOnce'
    BY <1>1, <1>2, <2>1 DEF MonthTyped, MergedHoldsOnce
  <2>3. ASSUME NEW r \in Providers, fin[r].pc = "ok", r \notin unread',
               NEW q \in Listed(folder[r]) \ Pending(r)'
        PROVE  folder[r][q] \in Range(merged)
    <3>1. r \notin unread /\ r # p
      BY <2>1, <2>3
    <3> HIDE DEF p
    <3>2. q \notin Pending(r)
      BY <1>7, <2>3, <3>1
    <3> QED
      BY <1>6, <2>3, <3>1, <3>2
  <2>4. Merges'
    BY <1>1, <1>6, <2>1, <2>3 DEF Merges
  <2> QED
    BY <1>1, <1>3, <1>4, <1>5, <2>2, <2>4, QuietStep
<1> QED
  BY <1>8, <1>9

\* The next folder is consolidated.
LEMMA DirMergedPreserves ==
    ASSUME IInv, DirMerged
    PROVE  IInv'
<1>1. /\ stage = "merge" /\ left = {} /\ Len(dirs) > 1
      /\ UNCHANGED <<folder, dups, report, fin, clean, faults, stage, seen, merged, unread, delivered, runs, hidden, skipped>>
  BY DEF DirMerged, finderVars, history
<1>2. MonthTyped /\ faults' \in 0 .. MaxFaults /\ Merges /\ MergedHoldsOnce
  BY <1>1, MonthFacts
<1>3. /\ dirs = <<"gmail", "outlook">> /\ Head(dirs) = "gmail" /\ Len(dirs) = 2
      /\ Tail(dirs) # <<>> /\ Len(Tail(dirs)) = 1
      /\ Head(Tail(dirs)) = "outlook" /\ Tail(dirs) \in DirLists
  BY <1>1, <1>2, DirFacts DEF MonthTyped
<1>4. dirs' = Tail(dirs) /\ left' = Listed(folder["outlook"])
  BY <1>3 DEF DirMerged, OpenDirs
<1>5. \A r \in Providers : fin[r].pc \in {"idle", "ok", "failed"}
  BY <1>1, FindersRest
<1>6. MonthTyped'
  BY <1>1, <1>2, <1>3, <1>4 DEF MonthTyped
<1>7. \A r \in Providers : Pending(r) \subseteq Pending(r)'
  <2>1. Pending("gmail") = {}
    BY <1>1, <1>3 DEF Pending
  <2>2. Pending("outlook") = Listed(folder["outlook"])
    BY <1>3 DEF Pending
  <2>3. Pending("outlook")' = Listed(folder["outlook"])
    BY <1>3, <1>4 DEF Pending
  <2> QED
    BY <2>1, <2>2, <2>3 DEF Providers
<1>8. Merges' /\ MergedHoldsOnce' /\ KeptInFolder'
  BY <1>1, <1>2, <1>7 DEF Merges, MergedHoldsOnce, KeptInFolder
<1> QED
  BY <1>1, <1>2, <1>5, <1>6, <1>8, QuietStep

\* The end: whatever was not unreadable has been consolidated.
LEMMA EndPreserves ==
    ASSUME IInv, EndMonth
    PROVE  IInv'
<1>1. /\ stage = "merge" /\ left = {} /\ Len(dirs) <= 1 /\ stage' = "idle" /\ dirs' = <<>>
      /\ seen' = Nothing /\ delivered' = Range(Successful) \ unread /\ unread' = {}
      /\ fin' = [p \in Providers |-> Idle]
      /\ UNCHANGED <<folder, dups, report, clean, faults, left, merged, runs, hidden, skipped>>
  BY DEF EndMonth, history
<1>2. MonthTyped /\ faults' \in 0 .. MaxFaults /\ Merges /\ MergedHoldsOnce
  BY <1>1, MonthFacts
<1>3. Range(Successful) \subseteq {p \in Providers : fin[p].pc = "ok"}
  BY SuccessFacts
<1>4. MonthTyped'
  BY <1>1, <1>2, <1>3 DEF MonthTyped, Nothing, DirLists
<1>5. KeptInFolder' /\ MergedHoldsOnce'
  BY <1>1, <1>2 DEF KeptInFolder, MergedHoldsOnce
<1>6. \A r \in Providers : Pending(r) = {}
  <2>1. ~(Len(dirs) = 2)
    BY <1>1
  <2> QED
    BY <1>1, <2>1 DEF Pending
<1>7. ASSUME NEW p \in delivered' PROVE At(folder[p], Listed(folder[p])) \subseteq Range(merged)
  <2>1. p \in Providers /\ fin[p].pc = "ok" /\ p \notin unread
    BY <1>1, <1>3, <1>7
  <2>2. \A q \in Listed(folder[p]) : folder[p][q] \in Range(merged)
    BY <1>1, <1>2, <1>6, <2>1 DEF Merges
  <2> QED
    BY <2>2 DEF At
<1>8. Merges'
  BY <1>1, <1>7 DEF Merges
<1> QED
  BY <1>1, <1>2, <1>4, <1>5, <1>8, QuietStep

\* A crash may leave a torn copy, and no run that was delivered.
LEMMA CrashPreserves ==
    ASSUME IInv, Crash
    PROVE  IInv'
<1>1. /\ stage # "idle" /\ Fault /\ stage' = "idle" /\ dirs' = <<>> /\ left' = {}
      /\ seen' = Nothing /\ unread' = {} /\ fin' = [p \in Providers |-> Idle]
      /\ UNCHANGED <<folder, dups, report, clean, delivered, runs, hidden, skipped>>
  BY DEF Crash, history
<1>2. MonthTyped /\ MergedHoldsOnce /\ delivered = {} /\ faults' \in 0 .. MaxFaults
  BY <1>1, MonthFacts, FaultBound DEF MonthTyped
<1>3. MergedHoldsOnce' /\ IsFiniteSet(DOMAIN merged') /\ Range(merged') \subseteq Pdfs \cup {Torn}
  <2>1. CASE merged' = merged
    BY <1>1, <1>2, <2>1 DEF MergedHoldsOnce, MonthTyped
  <2>2. CASE \E path \in left : merged' = Put(merged, UniquePath(merged, path), Torn)
    BY <1>1, <2>2, MergedGrows
  <2> QED
    BY <2>1, <2>2 DEF Crash
<1>4. MonthTyped'
  BY <1>1, <1>2, <1>3 DEF MonthTyped, Nothing, DirLists
<1>5. KeptInFolder' /\ Merges'
  BY <1>1, <1>2 DEF KeptInFolder, Merges
<1> QED
  BY <1>1, <1>2, <1>3, <1>4, <1>5, QuietStep

-----------------------------------------------------------------------------
(* The invariant, and what follows from it. *)

\* There are no files and no runs at first.
LEMMA InitIInv == Init => IInv
<1> SUFFICES ASSUME Init PROVE IInv
  OBVIOUS
<1>1. /\ folder = [p \in Providers |-> EmptyFolder] /\ dups = [p \in Providers |-> EmptyFolder]
      /\ report = {} /\ fin = [p \in Providers |-> Idle] /\ clean = [p \in Providers |-> 0] /\ faults = 0
  BY DEF Init, FinderInit
<1>2. /\ stage = "idle" /\ dirs = <<>> /\ left = {} /\ seen = Nothing /\ merged = EmptyFolder
      /\ unread = {} /\ delivered = {} /\ runs = 0 /\ hidden = {} /\ skipped = {}
  BY DEF Init
<1>3. DOMAIN EmptyFolder = {} /\ IsFiniteSet(DOMAIN EmptyFolder) /\ Range(EmptyFolder) = {}
  BY FS_EmptySet DEF EmptyFolder, Range
<1>4. \A p \in Providers : folder[p] = EmptyFolder /\ dups[p] = EmptyFolder /\ fin[p] = Idle /\ clean[p] = 0
  BY <1>1
<1>5. FoldersTyped
  BY <1>1, <1>3, <1>4 DEF FoldersTyped
<1>6. FindersTyped
  <2>1. fin \in [Providers -> Runs]
    BY <1>1, IdleRun
  <2>2. clean \in [Providers -> 0 .. 2] /\ faults \in 0 .. MaxFaults
    BY <1>1, MaxFaultsIsNat
  <2>3. \A p \in Providers : fin[p].pc = "idle" /\ fin[p].todo = {}
    BY <1>4, IdleRun
  <2> QED
    BY <1>1, <2>1, <2>2, <2>3 DEF FindersTyped, Scanning
<1>7. MonthTyped
  <2>1. runs \in 0 .. MaxRuns
    BY <1>2, MaxRunsIsNat
  <2> QED
    BY <1>2, <1>3, <2>1 DEF MonthTyped, Nothing, DirLists
<1>8. KeptInFolder /\ MergedHoldsOnce /\ Merges
  BY <1>2, <1>3 DEF KeptInFolder, MergedHoldsOnce, Merges
<1>9. ASSUME NEW p \in Providers PROVE Copies(p) /\ Knows(p) /\ Covers(p)
  BY <1>3, <1>4, IdleRun DEF Copies, Knows, Covers, Scanning, Indexed
<1>10. ASSUME NEW p \in Providers PROVE Chained(p)
  <2>1. Moved(p) = {}
    BY <1>3, <1>4 DEF Moved
  <2> QED
    BY <2>1 DEF Chained
<1>11. ASSUME NEW p \in Providers PROVE CleanCovers(p)
  BY <1>4 DEF CleanCovers
<1> QED
  BY <1>5, <1>6, <1>7, <1>8, <1>9, <1>10, <1>11 DEF IInv

\* Every step keeps the invariant.
LEMMA StepIInv == IInv /\ [Next]_vars => IInv'
<1> SUFFICES ASSUME IInv, [Next]_vars PROVE IInv'
  OBVIOUS
<1>1. ASSUME NEW blind \in SUBSET Have("gmail"), StartMonth(blind) PROVE IInv'
  BY <1>1, StartPreserves
<1>2. ASSUME NEW p \in Providers, RunFinder(p) PROVE IInv'
  BY <1>2, FinderPreserves
<1>3. CASE FindersDone
  BY <1>3, FindersDonePreserves
<1>4. ASSUME NEW path \in left, KeepFile(path) \/ DedupeFails(path) PROVE IInv'
  BY <1>4, KeepPreserves
<1>5. ASSUME NEW path \in left, MoveAside(path) PROVE IInv'
  BY <1>5, MovePreserves
<1>6. ASSUME NEW path \in left, CopyOrSkip(path) \/ Unreadable(path) PROVE IInv'
  BY <1>6, CopyPreserves
<1>7. CASE DirDeduped \/ DirMerged
  BY <1>7, DirDedupedPreserves, DirMergedPreserves
<1>8. CASE EndMonth \/ Crash
  BY <1>8, EndPreserves, CrashPreserves
<1>9. ASSUME NEW blind \in SUBSET Range(merged), StartMerge(blind) PROVE IInv'
  BY <1>9, StartMergePreserves
<1>10. CASE UNCHANGED vars
  <2>1. /\ UNCHANGED <<folder, dups, report, fin, clean, faults>>
        /\ UNCHANGED <<stage, dirs, left, seen, merged, unread, delivered, runs, hidden, skipped>>
    BY <1>10 DEF vars, finderVars, monthVars, history
  <2>2. FoldersTyped' /\ FindersTyped' /\ MonthTyped'
    BY <2>1 DEF IInv, FoldersTyped, FindersTyped, MonthTyped, Scanning
  <2>3. KeptInFolder'
    BY <2>1 DEF IInv, KeptInFolder, Kept, Listed, Texts, Stem
  <2>4. MergedHoldsOnce' /\ Merges'
    BY <2>1 DEF IInv, MergedHoldsOnce, Merges, Pending
  <2>5. \A r \in Providers : Copies(r)' /\ Chained(r)' /\ CleanCovers(r)'
    BY <2>1, FilesStay
  <2>6. ASSUME NEW r \in Providers PROVE Knows(r)' /\ Covers(r)'
    <3>1. Knows(r) /\ Covers(r)
      BY DEF IInv
    <3>2. Knows(r)'
      BY <2>1, <3>1 DEF Knows, Scanning, Have, Texts
    <3>3. Covers(r)'
      BY <2>1, <3>1 DEF Covers, Scanning, Covered, Got, Have, SameText, Texts, Due, Considered, Reached, AttCount
    <3> QED
      BY <3>2, <3>3
  <2> QED
    BY <2>2, <2>3, <2>4, <2>5, <2>6 DEF IInv
<1> QED
  BY <1>1, <1>2, <1>3, <1>4, <1>5, <1>6, <1>7, <1>8, <1>9, <1>10 DEF Next

\* The invariant holds in every state of the monthly runs.
LEMMA Invariance == Spec => []IInv
BY InitIInv, StepIInv, PTL DEF Spec

\* Whatever runs are interrupted and whatever calls fail, Gmail has a PDF twice
\* only where its index passed over or could not read a copy, and a run of the
\* Outlook finder never saves one twice.
THEOREM FoldersStayConsistent == Spec => []FoldersConsistent
<1>1. IInv => FoldersConsistent
  <2> SUFFICES ASSUME IInv PROVE TypeOK /\ OneCopyPerPdf
    BY DEF FoldersConsistent
  <2>1. TypeOK
    BY DEF IInv, FoldersTyped, FindersTyped, MonthTyped, Runs, TypeOK
  <2>2. OneCopyPerPdf
    <3> SUFFICES ASSUME NEW p \in Providers,
                        NEW x \in ({0} \X DOMAIN folder[p]) \cup ({1} \X DOMAIN dups[p]),
                        NEW y \in ({0} \X DOMAIN folder[p]) \cup ({1} \X DOMAIN dups[p]), x # y,
                        (IF x[1] = 0 THEN folder[p][x[2]] ELSE dups[p][x[2]])
                            = (IF y[1] = 0 THEN folder[p][y[2]] ELSE dups[p][y[2]])
                 PROVE  IF p = "gmail"
                        THEN \/ (IF x[1] = 0 THEN folder[p][x[2]] ELSE dups[p][x[2]]) \in hidden
                             \/ {x, y} \cap ({0} \X (DOMAIN folder[p] \ Indexed(folder[p]))) # {}
                        ELSE ~({x, y} \subseteq {0} \X fin[p].mine)
      BY DEF OneCopyPerPdf
    <3>1. Copies(p)
      BY DEF IInv
    <3>2. /\ x[1] # 0 => x[2] \in DOMAIN dups[p]
          /\ y[1] # 0 => y[2] \in DOMAIN dups[p]
          /\ x[1] = 0 => x[2] \in DOMAIN folder[p] /\ x = <<0, x[2]>>
          /\ y[1] = 0 => y[2] \in DOMAIN folder[p] /\ y = <<0, y[2]>>
          /\ (x[1] = 0 <=> y[1] = 0) => x[2] # y[2]
      OBVIOUS
    <3>3. CASE p = "gmail"
      <4> SUFFICES ASSUME x[1] = 0 => x[2] \in Indexed(folder[p]), y[1] = 0 => y[2] \in Indexed(folder[p])
                   PROVE  (IF x[1] = 0 THEN folder[p][x[2]] ELSE dups[p][x[2]]) \in hidden
        BY <3>2, <3>3
      <4> QED
        BY <3>1, <3>2, <3>3 DEF Copies
    <3>4. CASE p # "gmail"
      <4>1. p = "outlook"
        BY <3>4 DEF Providers
      <4>2. CASE x[1] = 0 /\ y[1] = 0
        <5>1. ~({x[2], y[2]} \subseteq fin[p].mine)
          BY <3>1, <3>2, <4>1, <4>2 DEF Copies
        <5> QED
          BY <3>4, <5>1
      <4> QED
        BY <3>4, <4>2
    <3> QED
      BY <3>3, <3>4
  <2> QED
    BY <2>1, <2>2
<1> QED
  BY <1>1, Invariance, PTL

\* Neither the finders nor the monthly run ever lose a PDF, whatever the names
\* of the files are and wherever a run stops.
THEOREM NothingGetsLost == Spec => NothingIsLost
<1> DEFINE NoLoss == /\ \A p \in Providers : Have(p) \subseteq Have(p)'
                    /\ Range(merged) \subseteq Range(merged)'
<1>1. IInv /\ [Next]_vars => [NoLoss]_vars
  <2> SUFFICES ASSUME IInv, Next PROVE NoLoss
    OBVIOUS
  <2>1. CASE folder' = folder /\ dups' = dups /\ merged' = merged
    BY <2>1 DEF Have
  <2>2. ASSUME NEW p \in Providers, RunFinder(p) PROVE NoLoss
    <3>1. FoldersTyped /\ FindersTyped /\ FinderStep(p) /\ merged' = merged
      BY <2>2 DEF RunFinder, monthVars, IInv
    <3>2. PICK g : Moves(p, g) /\ Kinds(p, fin[p], g)
      BY <3>1, FinderKinds
    <3>3. Grows(p)
      BY <3>1, <3>2, FinderGrows
    <3> QED
      BY <3>1, <3>3, FinderHas
  <2>3. ASSUME NEW path \in left, MoveAside(path) PROVE NoLoss
    BY <2>3, MoveKeeps DEF MoveAside
  <2>4. ASSUME NEW path \in left, CopyOrSkip(path) PROVE NoLoss
    <3> DEFINE pdf == folder[Head(dirs)][path]
    <3>1. folder' = folder /\ dups' = dups
      BY <2>4 DEF CopyOrSkip, finderVars
    <3>2. CASE pdf \in seen.hash
      BY <2>1, <2>4, <3>1, <3>2 DEF CopyOrSkip
    <3>3. CASE pdf \notin seen.hash
      <4>1. merged' = Put(merged, UniquePath(merged, path), pdf) /\ stage = "merge"
        BY <2>4, <3>3 DEF CopyOrSkip
      <4>2. pdf \in Pdfs \cup {Torn} /\ (pdf \in Range(merged) => pdf \in {Torn} \cup skipped)
        BY <3>3, <4>1, MonthFacts DEF Merges
      <4>0. skipped' = skipped
        BY <2>4 DEF CopyOrSkip, history
      <4> HIDE DEF pdf
      <4>3. Range(merged') = Range(merged) \cup {pdf}
        BY <4>0, <4>1, <4>2, MergedGrows
      <4> QED
        BY <3>1, <4>3 DEF Have
    <3> QED
      BY <3>2, <3>3
  <2>5. CASE Crash
    <3>1. folder' = folder /\ dups' = dups
      BY <2>5 DEF Crash
    <3>2. CASE merged' = merged
      BY <2>1, <3>1, <3>2
    <3>3. CASE \E path \in left : merged' = Put(merged, UniquePath(merged, path), Torn)
      <4>0. skipped' = skipped
        BY <2>5 DEF Crash, history
      <4>1. Range(merged') = Range(merged) \cup {Torn}
        BY <3>3, <4>0, MergedGrows
      <4> QED
        BY <3>1, <4>1 DEF Have
    <3> QED
      BY <2>5, <3>2, <3>3 DEF Crash
  <2> HIDE DEF NoLoss
  <2> QED
    BY <2>1, <2>2, <2>3, <2>4, <2>5
       DEF Next, StartMonth, FindersDone, KeepFile, DedupeFails, Unreadable, DirDeduped, StartMerge,
           DirMerged, EndMonth, finderVars
<1> QED
  BY <1>1, Invariance, PTL DEF Spec, NothingIsLost

\* A run that consolidated a provider brought everything named .pdf over: what
\* is in its folder is merged, and what was moved aside has a chain of twins to
\* it; and only what could not be read when it was looked for is merged twice.
THEOREM MergedStaysComplete == Spec => []MergedIsComplete
<1>1. IInv => MergedIsComplete
  <2> SUFFICES ASSUME IInv PROVE MergedHoldsOnce /\ MergedUpToTwins
    BY DEF MergedIsComplete
  <2>1. \A p \in delivered : At(folder[p], Listed(folder[p])) \subseteq Range(merged) /\ Chained(p)
    BY DEF IInv, MonthTyped, Merges
  <2>2. MergedUpToTwins
    BY <2>1 DEF MergedUpToTwins, Chained, Moved, InFolder
  <2> QED
    BY <2>2 DEF IInv
<1> QED
  BY <1>1, Invariance, PTL

\* After one report of a Gmail run without a fault, or two in a row of the
\* Outlook finder, no attachment that is due and within the caps is missing.
THEOREM CleanRunsAreEnough == Spec => []CleanRunsSuffice
<1>1. IInv => CleanRunsSuffice
  <2> SUFFICES ASSUME IInv, NEW p \in Providers, NEW m \in Reached(p),
                      clean[p] >= (IF p = "gmail" THEN 1 ELSE 2),
                      Considered(p, m) /\ ~(p = "outlook" /\ Mail[m].negative)
               PROVE  Covered(p, m)
    BY DEF CleanRunsSuffice, Covered, Got
  <2>1. CleanCovers(p) /\ Due(p, m) /\ m \in Msgs
    BY DEF IInv, Due, Reached
  <2> QED
    BY <2>1 DEF CleanCovers
<1> QED
  BY <1>1, Invariance, PTL
=============================================================================
