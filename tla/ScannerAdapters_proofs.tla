----------------------- MODULE ScannerAdapters_proofs -----------------------
(***************************************************************************)
(* Proofs about ScannerAdapters: its types, and what a result says of the  *)
(* documents or files that were looked at, for any number of them, any     *)
(* checklist and any order the threads end in.  While documents are        *)
(* validated, the findings and the flags are those of the documents done   *)
(* so far (FolderInv), so their order and the pool leave no trace; what    *)
(* the verdict is made of then follows from the documents alone.           *)
(***************************************************************************)
EXTENDS ScannerAdapters, NumberSets

(***************************************************************************)
(* What the findings and the flags are made of.                            *)
(***************************************************************************)
Lookup ==
  CASE folders = 0 -> {Entry("FOLDER_MISSING", "CRITICAL", None)}
    [] folders = 1 -> {}
    [] OTHER -> {Entry("FOLDER_DUPLICATE", "HIGH", None)}

Checked == {d \in Listed(docs) : d \notin todo}

OwnFindings(d) ==
  IF seen[d] \in {"crash", "outage"} THEN {Entry("CORRUPT", "HIGH", d)}
  ELSE NameFindings(docs[d].name, d) \union BodyFindings(seen[d], d)

OwnFlags(d) ==
  BodyFlags(seen[d]) \union (IF docs[d].name = "good" THEN {} ELSE {"misnamed"})

\* What the lookup and the listing of the folder are reported with.
FolderFinding(f) ==
  \/ f \in Lookup
  \/ folders # 0 /\ Listed(docs) = {} /\ f = Entry("FOLDER_EMPTY", "HIGH", None)
  \/ folders # 0 /\ \E k \in Keys \ Matched(docs) :
                      f = Entry("MISSING", IF weight[k] >= 10 THEN "HIGH" ELSE "MEDIUM", k)

\* A folder whose documents are being validated, or have been.
FolderScanned ==
  /\ folders = 0 => Listed(docs) = {}
  /\ todo \subseteq Listed(docs)
  /\ \A d \in Checked : seen[d] \in Bodies
  /\ \A f \in findings : FolderFinding(f) \/ \E d \in Checked : f \in OwnFindings(d)
  /\ \A f : FolderFinding(f) => f \in findings
  /\ \A d \in Checked : OwnFindings(d) \subseteq findings
  /\ \A k \in Keys : \A x \in flags[k] : \E d \in Checked : docs[d].key = k /\ x \in OwnFlags(d)
  /\ \A d \in Checked : \A k \in Keys : docs[d].key = k => OwnFlags(d) \subseteq flags[k]

\* The result of the ERIDOC adapter.
Verdict ==
  LET kept    == {f \in findings : f.cat # "UNSUPPORTED_ZIP"}
      missing == {f \in kept : f.cat \in MissingCats}
      blank   == {f \in kept : f.cat \in BlankCats}
      rest    == kept \ (missing \union blank)
      bad     == Score < PassScore \/ (\E f \in findings : AtLeast(f, "HIGH"))
                 \/ missing \union blank # {}
  IN  [status |-> IF bad THEN "FAILED" ELSE "PASSED",
       missing |-> missing, blank |-> blank,
       failed |-> {f \in rest : AtLeast(f, "HIGH")},
       warnings |-> {f \in rest : ~AtLeast(f, "HIGH")},
       present |-> Present, score |-> Score]

\* A request, until it is served.
Unserved ==
  /\ folders = 0 /\ docs = [d \in Docs |-> None] /\ findings = {} /\ todo = {}
  /\ flags = [k \in Keys |-> {}] /\ files = {}

FolderInv ==
  /\ pc \in {"lookup", "listing"} => ask.scanner = "ERIDOC" /\ ~ask.demo
  /\ pc \in {"start", "lookup"} => Unserved
  /\ pc = "listing" => /\ docs = [d \in Docs |-> None] /\ flags = [k \in Keys |-> {}]
                       /\ folders # 0 /\ findings = Lookup
  /\ pc = "scanning" => ~ask.demo
  /\ pc = "scanning" /\ ask.scanner = "ERIDOC" => FolderScanned
  /\ Judged("ERIDOC") => FolderScanned /\ todo = {} /\ result = Verdict

\* A repository whose files are being scanned, or have been.
FilesScanned ==
  /\ todo \subseteq files
  /\ \A f \in files \ todo :
       /\ seen[f] \in Severities => Entry("CODE", seen[f], f) \in findings
       /\ seen[f] = "crash" => Entry("SCAN_ERROR", "INFO", f) \in findings

FilesInv ==
  /\ pc = "scanning" /\ ask.scanner = "BITBUCKET" => FilesScanned
  /\ Judged("BITBUCKET") =>
       /\ FilesScanned /\ todo = {}
       /\ LET failed == {f \in findings : AtLeast(f, FailThreshold)}
          IN  /\ result.status = IF failed # {} THEN "FAILED" ELSE "PASSED"
              /\ result.failed = failed /\ result.warnings = findings \ failed

(***************************************************************************)
(* Arithmetic of the score.                                                *)
(***************************************************************************)
LEMMA Division ==
  ASSUME NEW n \in Nat, NEW t \in Nat \ {0}
  PROVE  /\ n \div t \in Nat /\ n % t \in Nat
         /\ n % t < t
         /\ n = t * (n \div t) + (n % t)
  OBVIOUS

LEMMA Multiples ==
  ASSUME NEW t \in Nat \ {0}, NEW x \in Nat, NEW y \in Nat, x <= y
  PROVE  t * x <= t * y
  OBVIOUS

\* A share of the points, rounded: 100 for all of them, and less as soon as more
\* than half a per cent is missing.
LEMMA RoundedShare ==
  ASSUME NEW t \in Nat \ {0}, NEW a \in 0 .. t
  PROVE  /\ Rounded(100 * a, t) \in 0 .. 100
         /\ a = t => Rounded(100 * a, t) = 100
         /\ 200 * (t - a) > t => Rounded(100 * a, t) < 100
<1> DEFINE q == (100 * a) \div t
           r == (100 * a) % t
<1>1. /\ q \in Nat /\ r \in Nat /\ r < t
      /\ 100 * a = t * q + r
  <2>1. 100 * a \in Nat
    OBVIOUS
  <2> QED BY <2>1, Division
<1>2. Rounded(100 * a, t) = IF 2 * r > t \/ (2 * r = t /\ q % 2 = 1) THEN q + 1 ELSE q
  BY DEF Rounded
<1> HIDE DEF q, r
<1>3. q <= 100
  <2> SUFFICES ASSUME 101 <= q
               PROVE  FALSE
    BY <1>1
  <2>1. t * 101 <= t * q
    BY <1>1, Multiples
  <2>2. t * q \in Nat
    BY <1>1
  <2> DEFINE p == t * q
  <2> HIDE DEF p
  <2>3. 100 * a = p + r /\ 101 * t <= p
    BY <1>1, <2>1 DEF p
  <2> QED BY <1>1, <2>2, <2>3
<1>4. CASE q = 100
  <2>1. 100 * a = 100 * t + r
    BY <1>1, <1>4
  <2>2. a = t /\ r = 0
    BY <1>1, <2>1
  <2> QED BY <1>1, <1>2, <1>4, <2>2
<1>5. CASE q = 99
  <2>1. 100 * a = 99 * t + r
    BY <1>1, <1>5
  <2>2. a # t
    BY <1>1, <2>1
  <2>3. Rounded(100 * a, t) \in {99, 100}
    BY <1>2, <1>5
  <2>4. ASSUME 200 * (t - a) > t
        PROVE  Rounded(100 * a, t) < 100
    <3>1. 2 * r < t
      BY <1>1, <2>1, <2>4
    <3> QED BY <1>1, <1>2, <1>5, <3>1
  <2> QED BY <2>2, <2>3, <2>4
<1>6. CASE q < 99
  <2>1. a # t
    <3> SUFFICES ASSUME a = t
                 PROVE  FALSE
      OBVIOUS
    <3>1. t * q <= t * 98
      BY <1>1, <1>6, Multiples
    <3> DEFINE p == t * q
    <3> HIDE DEF p
    <3>2. 100 * t = p + r /\ p <= 98 * t /\ p \in Nat
      BY <1>1, <3>1 DEF p
    <3> QED BY <1>1, <3>2
  <2>2. Rounded(100 * a, t) \in {q, q + 1}
    BY <1>2
  <2> QED BY <1>1, <1>6, <2>1, <2>2
<1> QED BY <1>1, <1>3, <1>4, <1>5, <1>6

\* The points of documents, and of more documents.
LEMMA PointsCounted ==
  ASSUME weight \in Checklists, NEW S, S \subseteq Keys
  PROVE  /\ IsFiniteSet(Points(S)) /\ Sum(S) \in Nat
         /\ Points(S) \subseteq Points(Keys) /\ Sum(S) <= Sum(Keys)
         /\ \A k \in Keys : {k} \X (1 .. weight[k]) \subseteq Points(Keys)
         /\ \A k \in Keys : weight[k] \in Nat \ {0}
         /\ \A k \in Keys : /\ IsFiniteSet({k} \X (1 .. weight[k]))
                            /\ Cardinality({k} \X (1 .. weight[k])) = weight[k]
<1> DEFINE Of(k) == {k} \X (1 .. weight[k])
<1>1. \A k \in Keys : weight[k] \in Nat \ {0}
  BY ChecklistAssumption
<1>2. ASSUME NEW k \in Keys
      PROVE  IsFiniteSet(Of(k)) /\ Cardinality(Of(k)) = weight[k]
  <2>1. IsFiniteSet({k}) /\ Cardinality({k}) = 1
    BY FS_Singleton
  <2>2. IsFiniteSet(1 .. weight[k]) /\ Cardinality(1 .. weight[k]) = weight[k]
    <3>1. ASSUME NEW w \in Nat \ {0}
          PROVE  IsFiniteSet(1 .. w) /\ Cardinality(1 .. w) = w
      <4>1. IsFiniteSet(1 .. w) /\ Cardinality(1 .. w) = IF 1 > w THEN 0 ELSE w - 1 + 1
        BY FS_Interval
      <4> QED BY <4>1
    <3> QED BY <1>1, <3>1
  <2>3. /\ IsFiniteSet({k} \X (1 .. weight[k]))
        /\ Cardinality({k} \X (1 .. weight[k])) = Cardinality({k}) * Cardinality(1 .. weight[k])
    BY <2>1, <2>2, FS_Product
  <2> QED BY <1>1, <2>1, <2>2, <2>3
<1>3. ASSUME NEW R, R \subseteq Keys
      PROVE  IsFiniteSet(Points(R)) /\ Sum(R) \in Nat
  <2>1. IsFiniteSet(R)
    BY <1>3, ChecklistAssumption, FS_Subset
  <2>2. IsFiniteSet({Of(k) : k \in R})
    <3> DEFINE f == [k \in R |-> Of(k)]
    <3> HIDE DEF Of
    <3>1. f \in Surjection(R, {Of(k) : k \in R})
      BY DEF Surjection
    <3> QED BY <2>1, <3>1, FS_Surjection
  <2>3. \A T \in {Of(k) : k \in R} : IsFiniteSet(T)
    BY <1>2, <1>3
  <2>4. IsFiniteSet(UNION {Of(k) : k \in R})
    <3> HIDE DEF Of
    <3> QED BY <2>2, <2>3, FS_UNION
  <2>5. IsFiniteSet(Points(R))
    BY <2>4 DEF Points
  <2> QED BY <2>5, FS_CardinalityType DEF Sum
<1>4. Points(S) \subseteq Points(Keys)
  BY DEF Points
<1>5. Sum(S) <= Sum(Keys)
  BY <1>3, <1>4, FS_Subset DEF Sum
<1>6. \A k \in Keys : Of(k) \subseteq Points(Keys)
  BY DEF Points
<1> QED BY <1>1, <1>2, <1>3, <1>4, <1>5, <1>6

\* What is earned without a mandatory document lacks at least its weight.
LEMMA PointsLost ==
  ASSUME weight \in Checklists, NEW S, S \subseteq Keys, NEW k \in Keys, k \notin S
  PROVE  Sum(S) + weight[k] <= Sum(Keys)
<1> DEFINE own == {k} \X (1 .. weight[k])
<1>1. /\ IsFiniteSet(Points(S)) /\ IsFiniteSet(Points(Keys)) /\ Sum(Keys) \in Nat
      /\ IsFiniteSet(own) /\ Cardinality(own) = weight[k] /\ own \subseteq Points(Keys)
      /\ Points(S) \subseteq Points(Keys) /\ weight[k] \in Nat \ {0} /\ Sum(S) \in Nat
  BY PointsCounted
<1>2. Points(S) \cap own = {}
  BY DEF Points
<1> HIDE DEF own
<1>3. /\ IsFiniteSet(Points(S) \union own)
      /\ Cardinality(Points(S) \union own) = Sum(S) + weight[k] - Cardinality(Points(S) \cap own)
  BY <1>1, FS_Union DEF Sum
<1>4. Cardinality(Points(S) \cap own) = 0
  BY <1>2, FS_EmptySet
<1>5. Cardinality(Points(S) \union own) <= Sum(Keys)
  BY <1>1, FS_Subset DEF Sum
<1> QED BY <1>1, <1>3, <1>4, <1>5

LEMMA PointsToEarn ==
  ASSUME weight \in Checklists
  PROVE  Sum(Keys) \in Nat \ {0}
<1>1. PICK k \in Keys : TRUE
  BY ChecklistAssumption
<1>2. Sum({}) + weight[k] <= Sum(Keys) /\ Sum({}) \in Nat /\ Sum(Keys) \in Nat
      /\ weight[k] \in Nat \ {0}
  BY PointsLost, PointsCounted
<1> QED BY <1>2

(***************************************************************************)
(* compute_score.                                                          *)
(***************************************************************************)
Earned == {k \in Matched(docs) : flags[k] \cap {"blank", "corrupt", "protected"} = {}}
Share  == Rounded(100 * Sum(Earned), Sum(Keys))

LEMMA MinimumOf ==
  ASSUME NEW S, S \subseteq Nat, S # {}
  PROVE  Min(S) \in S /\ \A x \in S : Min(S) <= x
BY HasLeast DEF Min

LEMMA MatchedKeys == docs \in [Docs -> Document \union {None}] => Matched(docs) \subseteq Keys
BY DEF Matched, Listed, Document

\* The score of a folder is the least of its share and its caps.
LEMMA ScoreIsLeast ==
  ASSUME weight \in Checklists, docs \in [Docs -> Document \union {None}], folders # 0
  PROVE  /\ Caps \subseteq {40, 70, 85, 95} /\ Share \in 0 .. 100
         /\ Earned = Keys => Share = 100
         /\ \A k \in Keys \ Earned : 200 * weight[k] > Sum(Keys) => Share < 100
         /\ Score \in {Share} \union Caps
         /\ \A c \in {Share} \union Caps : Score <= c
<1>1. Caps \subseteq {40, 70, 85, 95}
  BY DEF Caps
<1>2. Earned \subseteq Keys
  BY MatchedKeys DEF Earned
<1>3. Sum(Keys) \in Nat \ {0} /\ Sum(Earned) \in 0 .. Sum(Keys)
  BY <1>2, PointsToEarn, PointsCounted
<1>4. /\ Share \in 0 .. 100
      /\ Sum(Earned) = Sum(Keys) => Share = 100
      /\ 200 * (Sum(Keys) - Sum(Earned)) > Sum(Keys) => Share < 100
  BY <1>3, RoundedShare DEF Share
<1>5. ASSUME NEW k \in Keys \ Earned, 200 * weight[k] > Sum(Keys)
      PROVE  Share < 100
  <2>1. Sum(Earned) + weight[k] <= Sum(Keys) /\ weight[k] \in Nat
    BY <1>2, PointsLost, PointsCounted
  <2> QED BY <1>3, <1>4, <1>5, <2>1
<1>6. Score = Min({Share} \union Caps)
  BY DEF Score, Earned, Share
<1>7. {Share} \union Caps \subseteq Nat
  BY <1>1, <1>4
<1>8. Score \in {Share} \union Caps /\ \A c \in {Share} \union Caps : Score <= c
  BY <1>6, <1>7, MinimumOf
<1>9. Earned = Keys => Share = 100
  BY <1>4
<1> QED BY <1>1, <1>4, <1>5, <1>8, <1>9

LEMMA ScoreTypes ==
  ASSUME weight \in Checklists, docs \in [Docs -> Document \union {None}]
  PROVE  Score \in 0 .. 100
<1>1. CASE folders = 0
  BY <1>1 DEF Score
<1>2. CASE folders # 0
  BY <1>2, ScoreIsLeast
<1> QED BY <1>1, <1>2

(***************************************************************************)
(* Types.                                                                  *)
(***************************************************************************)
\* Entries of the categories and severities in use are findings.
LEMMA EntryTypes ==
  ASSUME NEW c, NEW s \in Severities, NEW x \in Docs \union Keys \union Files \union {None},
         c \in {"FOLDER_MISSING", "FOLDER_DUPLICATE", "FOLDER_EMPTY", "MISSING", "BLANK",
                "TITLE_PAGE_ONLY", "IMAGE_ONLY", "SUSPECT_SMALL", "OVERSIZE", "UNSUPPORTED",
                "UNSUPPORTED_ZIP", "PROTECTED", "CORRUPT", "WRONG_JIRA", "NAMING", "CODE",
                "SCAN_ERROR"}
  PROVE  /\ Entry(c, s, x) \in Finding
         /\ Entry(c, s, x).cat = c /\ Entry(c, s, x).sev = s /\ Entry(c, s, x).of = x
BY DEF Entry, Finding

LEMMA SeveritiesAre == Severities = {"INFO", "LOW", "MEDIUM", "HIGH", "CRITICAL"}
BY DEF Severities, Rank

LEMMA HighAre ==
  ASSUME NEW f, f.sev \in Severities
  PROVE  AtLeast(f, "HIGH") <=> f.sev \in {"HIGH", "CRITICAL"}
<1>1. f.sev \in {"INFO", "LOW", "MEDIUM", "HIGH", "CRITICAL"}
  BY SeveritiesAre
<1>2. /\ Rank["INFO"] = 0 /\ Rank["LOW"] = 1 /\ Rank["MEDIUM"] = 2
      /\ Rank["HIGH"] = 3 /\ Rank["CRITICAL"] = 4
  BY DEF Rank
<1> QED BY <1>1, <1>2 DEF AtLeast

\* Which findings of a document are of high severity, missing or blank: exactly
\* those that fail the folder.
Harmless == {"good", "small", "oversize", "zip", "unsupported"}

Fails(f) == AtLeast(f, "HIGH") \/ f.cat \in MissingCats \union BlankCats

\* The findings a document may have, each with its severity.
Kinds == {<<"CORRUPT", "HIGH">>, <<"WRONG_JIRA", "HIGH">>, <<"NAMING", "MEDIUM">>,
          <<"NAMING", "LOW">>, <<"BLANK", "CRITICAL">>, <<"TITLE_PAGE_ONLY", "HIGH">>,
          <<"IMAGE_ONLY", "HIGH">>, <<"SUSPECT_SMALL", "MEDIUM">>, <<"OVERSIZE", "INFO">>,
          <<"UNSUPPORTED_ZIP", "INFO">>, <<"UNSUPPORTED", "INFO">>, <<"PROTECTED", "HIGH">>}

LEMMA KindOfFinding ==
  ASSUME NEW c, NEW s, <<c, s>> \in Kinds, NEW d \in Docs
  PROVE  /\ Entry(c, s, d) \in Finding
         /\ Entry(c, s, d).cat \notin MissingCats
         /\ Fails(Entry(c, s, d)) <=> s \in {"HIGH", "CRITICAL"}
         /\ Entry(c, s, d).cat # "UNSUPPORTED_ZIP" \/ ~Fails(Entry(c, s, d))
<1>1. s \in Severities
  BY SeveritiesAre DEF Kinds
<1>2. /\ Entry(c, s, d) \in Finding
      /\ Entry(c, s, d).cat = c /\ Entry(c, s, d).sev = s
  <2>1. c \in {"CORRUPT", "WRONG_JIRA", "NAMING", "BLANK", "TITLE_PAGE_ONLY", "IMAGE_ONLY",
               "SUSPECT_SMALL", "OVERSIZE", "UNSUPPORTED_ZIP", "UNSUPPORTED", "PROTECTED"}
    BY DEF Kinds
  <2> QED BY <1>1, <2>1, EntryTypes
<1>3. AtLeast(Entry(c, s, d), "HIGH") <=> s \in {"HIGH", "CRITICAL"}
  BY <1>1, <1>2, HighAre
<1>4. c \in BlankCats => s \in {"HIGH", "CRITICAL"}
  BY DEF Kinds, BlankCats
<1>5. c \notin MissingCats /\ (c = "UNSUPPORTED_ZIP" => s = "INFO")
  BY DEF Kinds, MissingCats
<1> QED BY <1>2, <1>3, <1>4, <1>5 DEF Fails

LEMMA NameKinds ==
  ASSUME NEW d, NEW name \in Names
  PROVE  \/ name = "good" /\ NameFindings(name, d) = {}
         \/ \E c, s : /\ <<c, s>> \in Kinds /\ NameFindings(name, d) = {Entry(c, s, d)}
                      /\ s \in {"HIGH", "CRITICAL"} <=> name = "wrong jira"
<1>1. CASE name = "good"
  BY <1>1 DEF NameFindings
<1>2. CASE name = "wrong jira"
  <2>1. NameFindings(name, d) = {Entry("WRONG_JIRA", "HIGH", d)}
    BY <1>2 DEF NameFindings
  <2>2. <<"WRONG_JIRA", "HIGH">> \in Kinds
    BY DEF Kinds
  <2> QED BY <1>2, <2>1, <2>2
<1>3. CASE name = "no jira"
  <2>1. NameFindings(name, d) = {Entry("NAMING", "MEDIUM", d)}
    BY <1>3 DEF NameFindings
  <2>2. <<"NAMING", "MEDIUM">> \in Kinds
    BY DEF Kinds
  <2>3. "MEDIUM" \notin {"HIGH", "CRITICAL"} /\ name # "wrong jira"
    BY <1>3
  <2> QED BY <2>1, <2>2, <2>3, Zenon
<1>4. CASE name = "not ascii"
  <2>1. NameFindings(name, d) = {Entry("NAMING", "LOW", d)}
    BY <1>4 DEF NameFindings
  <2>2. <<"NAMING", "LOW">> \in Kinds
    BY DEF Kinds
  <2>3. "LOW" \notin {"HIGH", "CRITICAL"} /\ name # "wrong jira"
    BY <1>4
  <2> QED BY <2>1, <2>2, <2>3, Zenon
<1> QED BY <1>1, <1>2, <1>3, <1>4 DEF Names

LEMMA BodyKinds ==
  ASSUME NEW d, NEW b \in Bodies \ {"crash", "outage"}
  PROVE  \/ b \in Harmless /\ BodyFindings(b, d) = {}
         \/ \E c, s : /\ <<c, s>> \in Kinds /\ BodyFindings(b, d) = {Entry(c, s, d)}
                      /\ s \in {"HIGH", "CRITICAL"} <=> b \notin Harmless
<1>1. CASE b = "good"
  BY <1>1 DEF BodyFindings, Harmless
<1>2. CASE b = "blank"
  <2>1. BodyFindings(b, d) = {Entry("BLANK", "CRITICAL", d)}
    BY <1>2 DEF BodyFindings
  <2>2. <<"BLANK", "CRITICAL">> \in Kinds
    BY DEF Kinds
  <2> QED BY <1>2, <2>1, <2>2 DEF Harmless
<1>3. CASE b = "title page"
  <2>1. BodyFindings(b, d) = {Entry("TITLE_PAGE_ONLY", "HIGH", d)}
    BY <1>3 DEF BodyFindings
  <2>2. <<"TITLE_PAGE_ONLY", "HIGH">> \in Kinds
    BY DEF Kinds
  <2> QED BY <1>3, <2>1, <2>2 DEF Harmless
<1>4. CASE b = "image only"
  <2>1. BodyFindings(b, d) = {Entry("IMAGE_ONLY", "HIGH", d)}
    BY <1>4 DEF BodyFindings
  <2>2. <<"IMAGE_ONLY", "HIGH">> \in Kinds
    BY DEF Kinds
  <2> QED BY <1>4, <2>1, <2>2 DEF Harmless
<1>5. CASE b = "small"
  <2>1. BodyFindings(b, d) = {Entry("SUSPECT_SMALL", "MEDIUM", d)}
    BY <1>5 DEF BodyFindings
  <2>2. <<"SUSPECT_SMALL", "MEDIUM">> \in Kinds
    BY DEF Kinds
  <2> QED BY <1>5, <2>1, <2>2 DEF Harmless
<1>6. CASE b = "oversize"
  <2>1. BodyFindings(b, d) = {Entry("OVERSIZE", "INFO", d)}
    BY <1>6 DEF BodyFindings
  <2>2. <<"OVERSIZE", "INFO">> \in Kinds
    BY DEF Kinds
  <2> QED BY <1>6, <2>1, <2>2 DEF Harmless
<1>7. CASE b = "zip"
  <2>1. BodyFindings(b, d) = {Entry("UNSUPPORTED_ZIP", "INFO", d)}
    BY <1>7 DEF BodyFindings
  <2>2. <<"UNSUPPORTED_ZIP", "INFO">> \in Kinds
    BY DEF Kinds
  <2> QED BY <1>7, <2>1, <2>2 DEF Harmless
<1>8. CASE b = "unsupported"
  <2>1. BodyFindings(b, d) = {Entry("UNSUPPORTED", "INFO", d)}
    BY <1>8 DEF BodyFindings
  <2>2. <<"UNSUPPORTED", "INFO">> \in Kinds
    BY DEF Kinds
  <2> QED BY <1>8, <2>1, <2>2 DEF Harmless
<1>9. CASE b = "protected"
  <2>1. BodyFindings(b, d) = {Entry("PROTECTED", "HIGH", d)}
    BY <1>9 DEF BodyFindings
  <2>2. <<"PROTECTED", "HIGH">> \in Kinds
    BY DEF Kinds
  <2> QED BY <1>9, <2>1, <2>2 DEF Harmless
<1>10. CASE b = "corrupt"
  <2>1. BodyFindings(b, d) = {Entry("CORRUPT", "HIGH", d)}
    BY <1>10 DEF BodyFindings
  <2>2. <<"CORRUPT", "HIGH">> \in Kinds
    BY DEF Kinds
  <2> QED BY <1>10, <2>1, <2>2 DEF Harmless
<1> QED BY <1>1, <1>2, <1>3, <1>4, <1>5, <1>6, <1>7, <1>8, <1>9, <1>10 DEF Bodies

LEMMA DocumentFindings ==
  ASSUME NEW d \in Docs, docs[d] \in Document, seen[d] \in Bodies
  PROVE  /\ OwnFindings(d) \subseteq Finding
         /\ \A f \in OwnFindings(d) : f.cat \notin MissingCats
         /\ (\E f \in OwnFindings(d) : Fails(f))
              <=> docs[d].name = "wrong jira" \/ seen[d] \notin Harmless
         /\ \A f \in OwnFindings(d) : f.cat # "UNSUPPORTED_ZIP" \/ ~Fails(f)
<1> DEFINE N == NameFindings(docs[d].name, d)
           B == BodyFindings(seen[d], d)
<1>1. docs[d].name \in Names
  BY DEF Document
<1>2. \/ docs[d].name = "good" /\ N = {}
      \/ \E c, s : /\ <<c, s>> \in Kinds /\ N = {Entry(c, s, d)}
                   /\ s \in {"HIGH", "CRITICAL"} <=> docs[d].name = "wrong jira"
  <2> DEFINE name == docs[d].name
  <2>1. name \in Names
    BY <1>1
  <2> HIDE DEF name
  <2>2. \/ name = "good" /\ NameFindings(name, d) = {}
        \/ \E c, s : /\ <<c, s>> \in Kinds /\ NameFindings(name, d) = {Entry(c, s, d)}
                     /\ s \in {"HIGH", "CRITICAL"} <=> name = "wrong jira"
    BY <2>1, NameKinds
  <2> QED BY <2>2 DEF name
<1>3. ASSUME seen[d] \notin {"crash", "outage"}
      PROVE  \/ seen[d] \in Harmless /\ B = {}
             \/ \E c, s : /\ <<c, s>> \in Kinds /\ B = {Entry(c, s, d)}
                          /\ s \in {"HIGH", "CRITICAL"} <=> seen[d] \notin Harmless
  BY <1>3, BodyKinds
<1> HIDE DEF N, B
<1>4. CASE seen[d] \in {"crash", "outage"}
  <2>1. OwnFindings(d) = {Entry("CORRUPT", "HIGH", d)} /\ <<"CORRUPT", "HIGH">> \in Kinds
        /\ seen[d] \notin Harmless
    BY <1>4 DEF OwnFindings, Kinds, Harmless
  <2> QED BY <2>1, KindOfFinding
<1>5. CASE seen[d] \notin {"crash", "outage"}
  <2>1. OwnFindings(d) = N \union B
    BY <1>5 DEF OwnFindings, N, B
  <2>2. /\ N \subseteq Finding
        /\ \A f \in N : f.cat \notin MissingCats /\ (f.cat # "UNSUPPORTED_ZIP" \/ ~Fails(f))
        /\ (\E f \in N : Fails(f)) <=> docs[d].name = "wrong jira"
    BY <1>2, KindOfFinding
  <2>3. /\ B \subseteq Finding
        /\ \A f \in B : f.cat \notin MissingCats /\ (f.cat # "UNSUPPORTED_ZIP" \/ ~Fails(f))
        /\ (\E f \in B : Fails(f)) <=> seen[d] \notin Harmless
    <3>1. CASE seen[d] \in Harmless /\ B = {}
      BY <3>1
    <3>2. ASSUME NEW c, NEW s, <<c, s>> \in Kinds, B = {Entry(c, s, d)},
                 s \in {"HIGH", "CRITICAL"} <=> seen[d] \notin Harmless
          PROVE  /\ B \subseteq Finding
                 /\ \A f \in B : f.cat \notin MissingCats
                                 /\ (f.cat # "UNSUPPORTED_ZIP" \/ ~Fails(f))
                 /\ (\E f \in B : Fails(f)) <=> seen[d] \notin Harmless
      BY <3>2, KindOfFinding
    <3> QED BY <1>3, <1>5, <3>1, <3>2
  <2> QED BY <2>1, <2>2, <2>3
<1> QED BY <1>4, <1>5

\* What is found about the folder itself always fails it, and is found exactly
\* if it is not the only one or lacks a mandatory document.
LEMMA FolderFindings ==
  ASSUME weight \in Checklists, folders \in 0 .. 2
  PROVE  /\ \A f : FolderFinding(f) =>
                     f \in Finding /\ Fails(f) /\ f.cat # "UNSUPPORTED_ZIP"
         /\ (\E f : FolderFinding(f)) <=> folders # 1 \/ ~(Keys \subseteq Matched(docs))
<1>1. ASSUME NEW f, FolderFinding(f)
      PROVE  f \in Finding /\ Fails(f) /\ f.cat # "UNSUPPORTED_ZIP"
  <2>1. CASE f = Entry("FOLDER_MISSING", "CRITICAL", None)
    <3>1. f \in Finding /\ f.cat = "FOLDER_MISSING"
      BY <2>1, EntryTypes, SeveritiesAre
    <3> QED BY <3>1 DEF Fails, MissingCats
  <2>2. CASE f = Entry("FOLDER_DUPLICATE", "HIGH", None)
    <3>1. f \in Finding /\ f.cat = "FOLDER_DUPLICATE" /\ f.sev = "HIGH"
      BY <2>2, EntryTypes, SeveritiesAre
    <3>2. f.sev \in Severities
      BY <3>1, SeveritiesAre
    <3> QED BY <3>1, <3>2, HighAre DEF Fails
  <2>3. CASE f = Entry("FOLDER_EMPTY", "HIGH", None)
    <3>1. f \in Finding /\ f.cat = "FOLDER_EMPTY"
      <4>1. "HIGH" \in Severities
        BY SeveritiesAre
      <4> QED BY <2>3, <4>1, EntryTypes
    <3> QED BY <3>1 DEF Fails, MissingCats
  <2>4. ASSUME NEW k \in Keys, NEW s \in {"HIGH", "MEDIUM"}, f = Entry("MISSING", s, k)
        PROVE  f \in Finding /\ Fails(f) /\ f.cat # "UNSUPPORTED_ZIP"
    <3>1. f \in Finding /\ f.cat = "MISSING"
      BY <2>4, EntryTypes, SeveritiesAre
    <3> QED BY <3>1 DEF Fails, MissingCats
  <2>5. \/ f \in Lookup
        \/ f = Entry("FOLDER_EMPTY", "HIGH", None)
        \/ \E k \in Keys : f = Entry("MISSING", IF weight[k] >= 10 THEN "HIGH" ELSE "MEDIUM", k)
    BY <1>1 DEF FolderFinding
  <2>6. f \in Lookup => f \in {Entry("FOLDER_MISSING", "CRITICAL", None),
                               Entry("FOLDER_DUPLICATE", "HIGH", None)}
    BY DEF Lookup
  <2>7. ASSUME NEW k \in Keys,
               f = Entry("MISSING", IF weight[k] >= 10 THEN "HIGH" ELSE "MEDIUM", k)
        PROVE  f \in Finding /\ Fails(f) /\ f.cat # "UNSUPPORTED_ZIP"
    BY <2>4, <2>7
  <2> QED BY <2>1, <2>2, <2>3, <2>5, <2>6, <2>7
<1>2. ASSUME folders # 1
      PROVE  \E f : FolderFinding(f)
  <2>1. Lookup # {}
    BY <1>2 DEF Lookup
  <2> QED BY <2>1 DEF FolderFinding
<1>3. ASSUME folders = 1, NEW k \in Keys, k \notin Matched(docs)
      PROVE  \E f : FolderFinding(f)
  BY <1>3 DEF FolderFinding
<1>4. ASSUME folders = 1, Keys \subseteq Matched(docs), NEW f, FolderFinding(f)
      PROVE  FALSE
  <2>1. Lookup = {}
    BY <1>4 DEF Lookup
  <2>2. Listed(docs) # {}
    BY <1>4, ChecklistAssumption DEF Matched
  <2> QED BY <1>4, <2>1, <2>2 DEF FolderFinding
<1> QED BY <1>1, <1>2, <1>3, <1>4

(***************************************************************************)
(* What the verdict depends on.                                            *)
(***************************************************************************)
\* A folder as it should be: the right hand side of FolderIsJudged.
GoodFolder ==
  /\ folders = 1
  /\ Keys \subseteq Matched(docs)
  /\ \A d \in Listed(docs) : docs[d].name # "wrong jira" /\ seen[d] \in Harmless

Folder ==
  /\ weight \in Checklists /\ folders \in 0 .. 2
  /\ docs \in [Docs -> Document \union {None}] /\ flags \in [Keys -> SUBSET Flags]
  /\ FolderScanned /\ todo = {}

LEMMA AllChecked ==
  ASSUME Folder
  PROVE  \A d \in Listed(docs) : d \in Docs /\ docs[d] \in Document /\ seen[d] \in Bodies
                                 /\ d \in Checked
BY DEF Folder, FolderScanned, Checked, Listed

LEMMA FailingFinding ==
  ASSUME Folder
  PROVE  /\ (\E f \in findings : Fails(f)) <=> ~GoodFolder
         /\ \A f \in findings : f \in Finding /\ (Fails(f) => f.cat # "UNSUPPORTED_ZIP")
<1>1. \A f \in findings : FolderFinding(f) \/ \E d \in Listed(docs) : f \in OwnFindings(d)
  BY DEF Folder, FolderScanned, Checked
<1>2. /\ \A f : FolderFinding(f) => f \in findings
      /\ \A d \in Listed(docs) : OwnFindings(d) \subseteq findings
  BY AllChecked DEF Folder, FolderScanned
<1>3. /\ \A f : FolderFinding(f) => f \in Finding /\ Fails(f) /\ f.cat # "UNSUPPORTED_ZIP"
      /\ (\E f : FolderFinding(f)) <=> folders # 1 \/ ~(Keys \subseteq Matched(docs))
  BY FolderFindings DEF Folder
<1>4. \A d \in Listed(docs) :
        /\ OwnFindings(d) \subseteq Finding
        /\ (\E f \in OwnFindings(d) : Fails(f))
              <=> docs[d].name = "wrong jira" \/ seen[d] \notin Harmless
        /\ \A f \in OwnFindings(d) : f.cat # "UNSUPPORTED_ZIP" \/ ~Fails(f)
  BY AllChecked, DocumentFindings
<1> QED BY <1>1, <1>2, <1>3, <1>4 DEF GoodFolder

LEMMA CapsAre ==
  /\ \A k \in Matched(docs) : flags[k] \cap {"blank", "corrupt"} # {} => 40 \in Caps
  /\ \A k \in Keys \ Matched(docs) : (IF weight[k] >= 10 THEN 70 ELSE 85) \in Caps
  /\ \A k \in Keys : "misnamed" \in flags[k] => Caps # {}
  /\ Keys \subseteq Matched(docs)
       /\ (\A k \in Matched(docs) : flags[k] \cap {"blank", "corrupt"} = {}) =>
     Caps \subseteq {95} /\ ((\A k \in Keys : "misnamed" \notin flags[k]) => Caps = {})
<1> DEFINE low     == {40 : k \in {k \in Matched(docs) : flags[k] \cap {"blank", "corrupt"} # {}}}
           missing == {IF weight[k] >= 10 THEN 70 ELSE 85 : k \in Keys \ Matched(docs)}
<1>1. Caps = IF low \union missing = {} /\ \E k \in Keys : "misnamed" \in flags[k]
             THEN {95} ELSE low \union missing
  BY DEF Caps
<1>2. \A k \in Matched(docs) : flags[k] \cap {"blank", "corrupt"} # {} => 40 \in low
  OBVIOUS
<1>3. \A k \in Keys \ Matched(docs) : (IF weight[k] >= 10 THEN 70 ELSE 85) \in missing
  OBVIOUS
<1>4. ASSUME Keys \subseteq Matched(docs),
             \A k \in Matched(docs) : flags[k] \cap {"blank", "corrupt"} = {}
      PROVE  low \union missing = {}
  BY <1>4
<1> HIDE DEF low, missing
<1> QED BY <1>1, <1>2, <1>3, <1>4

\* The flags of a document of a folder as it should be.
LEMMA GoodScore ==
  ASSUME Folder, GoodFolder
  PROVE  Score >= 95
<1>1. ASSUME NEW k \in Keys
      PROVE  flags[k] \subseteq {"misnamed"}
  <2>1. \A x \in flags[k] : \E d \in Listed(docs) : x \in OwnFlags(d)
    BY DEF Folder, FolderScanned, Checked
  <2>2. \A d \in Listed(docs) : seen[d] \in Harmless
    BY DEF GoodFolder
  <2>3. \A d \in Listed(docs) : OwnFlags(d) \subseteq {"misnamed"}
    BY <2>2 DEF OwnFlags, BodyFlags, Harmless
  <2> QED BY <2>1, <2>3
<1>2. Matched(docs) = Keys
  BY MatchedKeys DEF Folder, GoodFolder
<1>3. Earned = Keys
  BY <1>1, <1>2 DEF Earned
<1>4. Caps \subseteq {95}
  BY <1>1, <1>2, CapsAre
<1>5. folders # 0
  <2>1. folders = 1
    BY DEF GoodFolder
  <2> QED BY <2>1
<1>6. Share = 100 /\ Score \in {Share} \union Caps
  BY <1>3, <1>5, ScoreIsLeast DEF Folder
<1> QED BY <1>4, <1>6

\* The verdict on a folder that was scanned is the one the documents deserve, a
\* failed one shows why, and its entries are findings.
LEMMA VerdictOnFolder ==
  ASSUME Folder
  PROVE  /\ Verdict.status = IF GoodFolder THEN "PASSED" ELSE "FAILED"
         /\ ~GoodFolder => Verdict.missing \union Verdict.blank \union Verdict.failed # {}
         /\ Verdict.score = Score /\ Verdict.present = Present
         /\ Verdict.missing = {f \in findings : f.cat \in MissingCats}
         /\ \A b \in {"missing", "blank", "failed", "warnings"} : Verdict[b] \subseteq findings
<1> DEFINE kept    == {f \in findings : f.cat # "UNSUPPORTED_ZIP"}
           missing == {f \in kept : f.cat \in MissingCats}
           blank   == {f \in kept : f.cat \in BlankCats}
           rest    == kept \ (missing \union blank)
           bad     == Score < PassScore \/ (\E f \in findings : AtLeast(f, "HIGH"))
                      \/ missing \union blank # {}
<1>1. /\ Verdict.status = IF bad THEN "FAILED" ELSE "PASSED"
      /\ Verdict.missing = missing /\ Verdict.blank = blank
      /\ Verdict.failed = {f \in rest : AtLeast(f, "HIGH")}
      /\ Verdict.warnings = {f \in rest : ~AtLeast(f, "HIGH")}
      /\ Verdict.score = Score /\ Verdict.present = Present
  BY DEF Verdict
<1>2. missing = {f \in findings : f.cat \in MissingCats}
  BY DEF MissingCats
<1>3. blank = {f \in findings : f.cat \in BlankCats}
  BY DEF BlankCats
<1>4. \A f \in findings : Fails(f) <=> AtLeast(f, "HIGH") \/ f \in missing \/ f \in blank
  BY <1>2, <1>3 DEF Fails
<1>5. \A f \in findings : Fails(f) => f \in kept
  BY FailingFinding
<1>6. missing \subseteq kept /\ blank \subseteq kept /\ rest \subseteq kept /\ kept \subseteq findings
  OBVIOUS
<1>7. rest = kept \ (missing \union blank)
  OBVIOUS
<1> HIDE DEF kept, missing, blank, rest
<1>8. (\E f \in findings : Fails(f))
        <=> (\E f \in findings : AtLeast(f, "HIGH")) \/ missing \union blank # {}
  BY <1>4, <1>6
<1>9. CASE GoodFolder
  <2>1. Score >= 95 /\ Score \in 0 .. 100
    BY <1>9, GoodScore, ScoreTypes DEF Folder
  <2>2. ~bad
    BY <1>8, <1>9, <2>1, FailingFinding, SettingsAssumption
  <2> QED BY <1>1, <1>2, <1>6, <1>9, <2>2
<1>10. CASE ~GoodFolder
  <2>1. PICK f \in findings : Fails(f)
    BY <1>10, FailingFinding
  <2>2. bad
    BY <1>8, <2>1
  <2>3. f \in missing \/ f \in blank \/ (f \in rest /\ AtLeast(f, "HIGH"))
    BY <1>4, <1>5, <1>7, <2>1
  <2>4. Verdict.missing \union Verdict.blank \union Verdict.failed # {}
    BY <1>1, <2>3
  <2> QED BY <1>1, <1>2, <1>6, <1>10, <2>2, <2>4
<1> QED BY <1>9, <1>10

\* compute_score: every cap with a reason holds.  A checklist without a flaw is
\* given 100; one with a flaw is not, provided that no document weighs so little
\* beside the others that its share is lost in the rounding.
Flagged(k, bodies) == \E d \in Listed(docs) : docs[d].key = k /\ seen[d] \in bodies
Misnamed(k)        == \E d \in Listed(docs) : docs[d].key = k /\ docs[d].name # "good"
Flawed(k) == \/ k \notin Matched(docs) \/ Misnamed(k)
             \/ Flagged(k, {"blank", "title page", "corrupt", "protected"})

Capped(k, score) ==
  /\ Flagged(k, {"blank", "title page", "corrupt"}) => score <= 40
  /\ k \notin Matched(docs) => score <= IF weight[k] >= 10 THEN 70 ELSE 85
  /\ Misnamed(k) => score <= 95

LEMMA FlagsOfDocuments ==
  ASSUME Folder, NEW k \in Keys
  PROVE  /\ flags[k] \cap {"blank", "corrupt"} # {}
              <=> Flagged(k, {"blank", "title page", "corrupt"})
         /\ "protected" \in flags[k] <=> Flagged(k, {"protected"})
         /\ "misnamed" \in flags[k] <=> Misnamed(k)
         /\ \A bodies : Flagged(k, bodies) => k \in Matched(docs)
<1>1. \A x : x \in flags[k] <=> \E d \in Listed(docs) : docs[d].key = k /\ x \in OwnFlags(d)
  BY AllChecked DEF Folder, FolderScanned, Checked
<1>2. ASSUME NEW d \in Listed(docs)
      PROVE  /\ "blank" \in OwnFlags(d) <=> seen[d] \in {"blank", "title page"}
             /\ "corrupt" \in OwnFlags(d) <=> seen[d] = "corrupt"
             /\ "protected" \in OwnFlags(d) <=> seen[d] = "protected"
             /\ "misnamed" \in OwnFlags(d) <=> docs[d].name # "good"
  BY DEF OwnFlags, BodyFlags
<1>3. k # None
  BY NoneAssumption
<1> QED BY <1>1, <1>2, <1>3 DEF Flagged, Misnamed, Matched

LEMMA ScoreOfFolder ==
  ASSUME Folder, NEW k \in Keys
  PROVE  /\ Flagged(k, {"blank", "title page", "corrupt"}) => Score <= 40
         /\ k \notin Matched(docs) => Score <= IF weight[k] >= 10 THEN 70 ELSE 85
         /\ Misnamed(k) => Score <= 95
         /\ Flawed(k) /\ 200 * weight[k] > Sum(Keys) => Score < 100
<1>1. CASE folders = 0
  <2>1. Score = 0
    BY <1>1 DEF Score
  <2> QED BY <2>1
<1>2. CASE folders # 0
  <2>1. /\ Caps \subseteq {40, 70, 85, 95} /\ Share \in 0 .. 100
        /\ k \notin Earned /\ 200 * weight[k] > Sum(Keys) => Share < 100
        /\ \A c \in {Share} \union Caps : Score <= c
        /\ Score \in {Share} \union Caps
    BY <1>2, ScoreIsLeast DEF Folder
  <2>2. Score \in Nat
    BY <2>1
  <2>10. /\ flags[k] \cap {"blank", "corrupt"} # {}
              <=> Flagged(k, {"blank", "title page", "corrupt"})
         /\ "protected" \in flags[k] <=> Flagged(k, {"protected"})
         /\ "misnamed" \in flags[k] <=> Misnamed(k)
    BY FlagsOfDocuments
  <2>11. Flagged(k, {"blank", "title page", "corrupt"}) => k \in Matched(docs)
    BY FlagsOfDocuments
  <2>3. Flagged(k, {"blank", "title page", "corrupt"}) => 40 \in Caps
    BY <2>10, <2>11, CapsAre
  <2>4. k \notin Matched(docs) => (IF weight[k] >= 10 THEN 70 ELSE 85) \in Caps
    BY CapsAre
  <2>5. Misnamed(k) => Caps # {}
    BY <2>10, CapsAre
  <2>6. ASSUME Caps # {}
        PROVE  Score <= 95
    <3>1. PICK c \in Caps : c \in {40, 70, 85, 95} /\ Score <= c
      BY <2>1, <2>6
    <3> QED BY <2>2, <3>1
  <2>7. Flagged(k, {"protected"}) => k \notin Earned
    BY <2>10 DEF Earned
  <2>8. Flawed(k) => \/ k \notin Matched(docs) \/ Misnamed(k) \/ Flagged(k, {"protected"})
                     \/ Flagged(k, {"blank", "title page", "corrupt"})
    BY DEF Flawed, Flagged
  <2>9. Flagged(k, {"protected"}) /\ 200 * weight[k] > Sum(Keys) => Score < 100
    BY <2>1, <2>2, <2>7
  <2>12. Flagged(k, {"blank", "title page", "corrupt"}) => Score <= 40
    BY <2>1, <2>3
  <2>13. ASSUME k \notin Matched(docs)
         PROVE  Score <= (IF weight[k] >= 10 THEN 70 ELSE 85) /\ Score <= 85
    <3> DEFINE c == IF weight[k] >= 10 THEN 70 ELSE 85
    <3>1. c \in Caps
      BY <2>4, <2>13
    <3>2. c \in {70, 85}
      OBVIOUS
    <3> HIDE DEF c
    <3>3. Score <= c
      BY <2>1, <3>1
    <3>4. Score <= 85
      BY <2>2, <3>2, <3>3
    <3> QED BY <3>3, <3>4 DEF c
  <2>14. ASSUME Flawed(k), 200 * weight[k] > Sum(Keys)
         PROVE  Score < 100
    <3>1. CASE Flagged(k, {"protected"})
      BY <2>9, <2>14, <3>1
    <3>2. CASE k \notin Matched(docs)
      BY <2>2, <2>13, <3>2
    <3>3. CASE Misnamed(k)
      BY <2>2, <2>5, <2>6, <3>3
    <3>4. CASE Flagged(k, {"blank", "title page", "corrupt"})
      <4>1. Score <= 40
        BY <2>12, <3>4
      <4> QED BY <2>2, <4>1
    <3> QED BY <2>8, <2>14, <3>1, <3>2, <3>3, <3>4
  <2> QED BY <2>5, <2>6, <2>12, <2>13, <2>14
<1> QED BY <1>1, <1>2

LEMMA ScoreWithoutFlaw ==
  ASSUME Folder, folders # 0, \A k \in Keys : ~Flawed(k)
  PROVE  Score = 100
<1>1. ASSUME NEW k \in Keys
      PROVE  /\ k \in Matched(docs)
             /\ flags[k] \cap {"blank", "corrupt", "protected"} = {} /\ "misnamed" \notin flags[k]
  <2>1. /\ flags[k] \cap {"blank", "corrupt"} # {}
             <=> Flagged(k, {"blank", "title page", "corrupt"})
        /\ "protected" \in flags[k] <=> Flagged(k, {"protected"})
        /\ "misnamed" \in flags[k] <=> Misnamed(k)
    BY FlagsOfDocuments
  <2>2. k \in Matched(docs) /\ ~Misnamed(k) /\ ~Flagged(k, {"protected"})
        /\ ~Flagged(k, {"blank", "title page", "corrupt"})
    BY DEF Flawed, Flagged
  <2> QED BY <2>1, <2>2
<1>2. Matched(docs) = Keys
  BY <1>1, MatchedKeys DEF Folder
<1>3. Earned = Keys
  BY <1>1, <1>2 DEF Earned
<1>4. Caps = {}
  BY <1>1, <1>2, CapsAre
<1> QED BY <1>3, <1>4, ScoreIsLeast DEF Folder

(***************************************************************************)
(* The steps.                                                              *)
(***************************************************************************)
\* The types of what a scan works on, once it is asked for.
ScanTypes ==
  /\ ask \in Request /\ weight \in Checklists
  /\ folders \in 0 .. 2
  /\ docs \in [Docs -> Document \union {None}]
  /\ flags \in [Keys -> SUBSET Flags]
  /\ findings \subseteq Finding
  /\ files \subseteq Files
  /\ todo \subseteq Docs \union Files
  /\ seen \in [Docs \union Files -> Bodies \union Severities \union {None}]
  /\ down \in BOOLEAN

ResultOK ==
  /\ pc \in {"start", "lookup", "listing", "scanning", "done"}
  /\ IF pc = "done"
     THEN /\ result.status \in {"PASSED", "FAILED", "RETRY", "ERROR"}
          /\ result.score \in 0 .. 100 /\ result.present \subseteq Keys
          /\ \A b \in {"missing", "blank", "failed", "warnings"} :
               \A f \in result[b] : f \in Finding
     ELSE result = None

LEMMA TypesAre == TypeOK <=> ScanTypes /\ ResultOK
BY DEF TypeOK, ScanTypes, ResultOK

\* FailureIsExplained, for a result.
Explained(r) ==
  r.status = "FAILED" => r.missing \union r.blank \union r.failed # {}

ExplainedInv == pc = "done" => Explained(result)

Inv == ScanTypes /\ ResultOK /\ FolderInv /\ FilesInv /\ ExplainedInv

LEMMA InitInv == Init => Inv
<1> SUFFICES ASSUME Init PROVE Inv
  OBVIOUS
<1>1. ScanTypes
  <2>1. ask \in Request /\ weight \in Checklists /\ folders \in 0 .. 2 /\ down \in BOOLEAN
    <3>1. folders = 0 /\ down = FALSE
      BY DEF Init
    <3>2. ask \in Request /\ weight \in Checklists
      BY DEF Init
    <3>3. down \in BOOLEAN
      BY <3>1
    <3>4. folders \in 0 .. 2
      BY <3>1
    <3> QED BY <3>2, <3>3, <3>4
  <2>2. docs \in [Docs -> Document \union {None}] /\ flags \in [Keys -> SUBSET Flags]
    BY DEF Init
  <2>3. findings \subseteq Finding /\ files \subseteq Files /\ todo \subseteq Docs \union Files
    BY DEF Init
  <2>4. seen \in [Docs \union Files -> Bodies \union Severities \union {None}]
    BY DEF Init
  <2> QED BY <2>1, <2>2, <2>3, <2>4 DEF ScanTypes
<1>2. ResultOK /\ ExplainedInv
  BY DEF Init, ResultOK, ExplainedInv
<1>3. FolderInv /\ FilesInv
  BY DEF Init, FolderInv, FilesInv, Unserved, Judged
<1> QED BY <1>1, <1>2, <1>3 DEF Inv

LEMMA NoResultIs ==
  ASSUME NEW outcome
  PROVE  LET r == [NoResult EXCEPT !.status = outcome]
         IN  /\ r.status = outcome /\ r.score = 0 /\ r.present = {}
             /\ \A b \in {"missing", "blank", "failed", "warnings"} : r[b] = {}
BY DEF NoResult

\* A call that raises leaves a result that judges nothing.
LEMMA RaiseStep ==
  ASSUME Inv, NEW outcome \in {"RETRY", "ERROR"}, Raise(outcome), ScanTypes', ask' = ask
  PROVE  Inv'
<1> DEFINE r == [NoResult EXCEPT !.status = outcome]
<1>1. pc' = "done" /\ result' = r
  BY DEF Raise, Return
<1>2. /\ r.status = outcome /\ r.score = 0 /\ r.present = {}
      /\ \A b \in {"missing", "blank", "failed", "warnings"} : r[b] = {}
  BY NoResultIs
<1> HIDE DEF r
<1>3. ResultOK'
  BY <1>1, <1>2 DEF ResultOK
<1>4. ExplainedInv'
  BY <1>1, <1>2 DEF ExplainedInv, Explained
<1>5. FolderInv' /\ FilesInv'
  BY <1>1, <1>2 DEF FolderInv, FilesInv, Judged
<1> QED BY <1>3, <1>4, <1>5 DEF Inv

\* A demo result judges nothing, and explains its failure.
LEMMA DemoStep ==
  ASSUME Inv, EridocDemo \/ BitbucketDemo
  PROVE  Inv'
<1>1. /\ pc' = "done" /\ ask.demo /\ UNCHANGED <<ask, weight, scanVars, down>>
  BY DEF EridocDemo, BitbucketDemo, Return
<1>2. ScanTypes'
  BY <1>1 DEF Inv, ScanTypes, scanVars
<1>3. "HIGH" \in Severities /\ "MEDIUM" \in Severities /\ "CRITICAL" \in Severities
  BY SeveritiesAre
<1>4. /\ result'.status \in {"PASSED", "FAILED"}
      /\ result'.score \in 0 .. 100 /\ result'.present = {}
      /\ result'.missing \subseteq Finding /\ result'.blank \subseteq Finding
      /\ result'.failed \subseteq Finding /\ result'.warnings \subseteq Finding
      /\ Explained(result')
  <2>1. CASE EridocDemo
    <3> DEFINE m == IF ask.fails THEN {Entry("MISSING", "HIGH", None)} ELSE {}
               w == {Entry("SUSPECT_SMALL", "MEDIUM", None)}
    <3>1. m \subseteq Finding /\ w \subseteq Finding
      BY <1>3, EntryTypes
    <3>2. result' = Finalized([NoResult EXCEPT !.missing = m, !.warnings = w,
                                               !.score = IF ask.fails THEN 65 ELSE 96])
      BY <2>1 DEF EridocDemo, Return
    <3> HIDE DEF m, w
    <3>3. /\ result'.missing = m /\ result'.warnings = w /\ result'.blank = {}
          /\ result'.failed = {} /\ result'.present = {} /\ result'.score \in {65, 96}
          /\ result'.status = IF m # {} THEN "FAILED" ELSE "PASSED"
      BY <3>2 DEF Finalized, NoResult
    <3> QED BY <3>1, <3>3 DEF Explained
  <2>2. CASE BitbucketDemo
    <3> DEFINE f == IF ask.fails
                    THEN {Entry("CODE", "CRITICAL", None), Entry("CODE", "HIGH", None)} ELSE {}
    <3>1. f \subseteq Finding
      BY <1>3, EntryTypes
    <3>2. result' = Finalized([NoResult EXCEPT !.failed = f])
      BY <2>2 DEF BitbucketDemo, Return
    <3> HIDE DEF f
    <3>3. /\ result'.missing = {} /\ result'.warnings = {} /\ result'.blank = {}
          /\ result'.failed = f /\ result'.present = {} /\ result'.score = 0
          /\ result'.status = IF f # {} THEN "FAILED" ELSE "PASSED"
      BY <3>2 DEF Finalized, NoResult
    <3> QED BY <3>1, <3>3 DEF Explained
  <2> QED BY <2>1, <2>2
<1>5. ResultOK' /\ ExplainedInv'
  BY <1>1, <1>4 DEF ResultOK, ExplainedInv
<1>6. FolderInv' /\ FilesInv'
  BY <1>1 DEF FolderInv, FilesInv, Judged
<1> QED BY <1>2, <1>5, <1>6 DEF Inv

\* EridocReal and the lookup of the folder.
LEMMA LookupStep ==
  ASSUME Inv, EridocReal \/ \E n \in 0 .. 2 : FindFolders(n)
  PROVE  Inv'
<1>1. CASE EridocReal
  <2>1. /\ pc = "start" /\ pc' = "lookup" /\ ask.scanner = "ERIDOC" /\ ~ask.demo
        /\ UNCHANGED <<ask, weight, scanVars, down, result>>
    BY <1>1 DEF EridocReal
  <2>2. ScanTypes' /\ ResultOK' /\ ExplainedInv'
    BY <2>1 DEF Inv, ScanTypes, ResultOK, ExplainedInv, scanVars
  <2>3. FolderInv' /\ FilesInv'
    BY <2>1 DEF Inv, FolderInv, FilesInv, Judged, Unserved, scanVars
  <2> QED BY <2>2, <2>3 DEF Inv
<1>2. ASSUME NEW n \in 0 .. 2, FindFolders(n)
      PROVE  Inv'
  <2>1. /\ pc = "lookup" /\ ask.scanner = "ERIDOC" /\ ~ask.demo /\ Unserved
    BY <1>2 DEF FindFolders, Inv, FolderInv
  <2>2. /\ folders' = n /\ pc' = (IF n = 0 THEN "scanning" ELSE "listing")
        /\ findings' = Lookup'
        /\ UNCHANGED <<ask, weight, docs, flags, files, todo, seen, down, result>>
    BY <1>2 DEF FindFolders, Lookup
  <2>3. findings' \subseteq Finding
    <3>1. "HIGH" \in Severities /\ "CRITICAL" \in Severities
      BY SeveritiesAre
    <3>2. /\ Entry("FOLDER_MISSING", "CRITICAL", None) \in Finding
          /\ Entry("FOLDER_DUPLICATE", "HIGH", None) \in Finding
      BY <3>1, EntryTypes
    <3> QED BY <2>2, <3>2 DEF Lookup
  <2>4. ScanTypes' /\ ResultOK' /\ ExplainedInv'
    BY <2>1, <2>2, <2>3 DEF Inv, ScanTypes, ResultOK, ExplainedInv
  <2>5. Listed(docs) = {} /\ Listed(docs)' = {} /\ todo = {}
    BY <2>1, <2>2 DEF Unserved, Listed
  <2>6. n = 0 => FolderScanned'
    <3> SUFFICES ASSUME n = 0 PROVE FolderScanned'
      OBVIOUS
    <3>1. Checked' = {}
      BY <2>5 DEF Checked
    <3>2. \A f : FolderFinding(f)' <=> f \in findings'
      BY <2>2 DEF FolderFinding
    <3>3. \A k \in Keys : flags'[k] = {}
      BY <2>1, <2>2 DEF Unserved
    <3> QED BY <2>2, <2>5, <3>1, <3>2, <3>3 DEF FolderScanned
  <2>7. FolderInv' /\ FilesInv'
    BY <2>1, <2>2, <2>6 DEF FolderInv, FilesInv, Judged, Unserved
  <2> QED BY <2>4, <2>7 DEF Inv
<1> QED BY <1>1, <1>2

FindingsTyped ==
  /\ weight \in Checklists /\ folders \in 0 .. 2 => \A f : FolderFinding(f) => f \in Finding
  /\ \A d \in Docs : docs[d] \in Document /\ seen[d] \in Bodies =>
                       OwnFindings(d) \subseteq Finding

\* The findings of the next state are findings, too.
LEMMA FindingsLater == FindingsTyped'
<1>1. FindingsTyped
  BY FolderFindings, DocumentFindings DEF FindingsTyped
<1> QED BY <1>1, PTL

LEMMA ListStep ==
  ASSUME Inv, NEW ds \in [Docs -> Document \union {None}], ListDocuments(ds)
  PROVE  Inv'
<1>1. /\ pc = "listing" /\ ask.scanner = "ERIDOC" /\ ~ask.demo
      /\ flags = [k \in Keys |-> {}] /\ folders # 0 /\ findings = Lookup
  BY DEF ListDocuments, Inv, FolderInv
<1>2. /\ pc' = "scanning" /\ docs' = ds /\ todo' = Listed(ds)
      /\ UNCHANGED <<ask, weight, folders, flags, files, seen, down, result>>
  BY DEF ListDocuments
<1>3. Listed(docs)' = Listed(ds) /\ Matched(docs)' = Matched(ds) /\ Checked' = {} /\ Lookup' = Lookup
  BY <1>2 DEF Listed, Matched, Checked, Lookup
<1>4. \A f : f \in findings' <=> FolderFinding(f)'
  <2> DEFINE empty   == IF Listed(ds) = {} THEN {Entry("FOLDER_EMPTY", "HIGH", None)} ELSE {}
             missing == {Entry("MISSING", IF weight[k] >= 10 THEN "HIGH" ELSE "MEDIUM", k) :
                           k \in Keys \ Matched(ds)}
  <2>1. findings' = (findings \union empty) \union missing
    BY DEF ListDocuments
  <2>2. \A f : f \in empty <=> Listed(ds) = {} /\ f = Entry("FOLDER_EMPTY", "HIGH", None)
    OBVIOUS
  <2>3. \A f : f \in missing <=> \E k \in Keys \ Matched(ds) :
                  f = Entry("MISSING", IF weight[k] >= 10 THEN "HIGH" ELSE "MEDIUM", k)
    OBVIOUS
  <2> HIDE DEF empty, missing
  <2>4. \A f : FolderFinding(f)' <=>
           \/ f \in Lookup
           \/ Listed(ds) = {} /\ f = Entry("FOLDER_EMPTY", "HIGH", None)
           \/ \E k \in Keys \ Matched(ds) :
                f = Entry("MISSING", IF weight[k] >= 10 THEN "HIGH" ELSE "MEDIUM", k)
    BY <1>1, <1>2, <1>3 DEF FolderFinding
  <2> QED BY <1>1, <2>1, <2>2, <2>3, <2>4
<1>5. \A f : FolderFinding(f)' => f \in Finding
  <2>1. weight' \in Checklists /\ folders' \in 0 .. 2
    BY <1>2 DEF Inv, ScanTypes
  <2> QED BY <2>1, FindingsLater DEF FindingsTyped
<1>6. ScanTypes'
  <2>1. findings' \subseteq Finding
    BY <1>4, <1>5
  <2>2. todo' \subseteq Docs \union Files
    BY <1>2 DEF Listed
  <2> QED BY <1>2, <2>1, <2>2 DEF Inv, ScanTypes
<1>7. FolderScanned'
  <2>1. \A k \in Keys : flags'[k] = {}
    BY <1>1, <1>2
  <2> QED BY <1>1, <1>2, <1>3, <1>4, <2>1 DEF FolderScanned
<1>8. FolderInv' /\ FilesInv'
  BY <1>1, <1>2, <1>7 DEF FolderInv, FilesInv, Judged
<1>9. ResultOK' /\ ExplainedInv'
  BY <1>1, <1>2 DEF Inv, ResultOK, ExplainedInv
<1> QED BY <1>6, <1>8, <1>9 DEF Inv

\* A thread of the pool validates a document: only its own findings and flags
\* are added, so what is true of the documents done so far stays true.
LEMMA ValidateStep ==
  ASSUME Inv, NEW d \in Docs, NEW b \in Bodies, ValidateOne(d, b)
  PROVE  Inv'
<1>1. /\ pc = "scanning" /\ d \in todo /\ todo' = todo \ {d} /\ seen' = [seen EXCEPT ![d] = b]
      /\ UNCHANGED <<ask, weight, pc, folders, docs, files, result>>
  BY DEF ValidateOne, Looked
<1>2. ask.scanner = "ERIDOC"
  <2> SUFFICES ASSUME ask.scanner = "BITBUCKET"
               PROVE  FALSE
    BY DEF Inv, ScanTypes, Request
  <2>1. todo \subseteq Files
    BY <1>1 DEF Inv, FilesInv, FilesScanned, ScanTypes
  <2> QED BY <1>1, <2>1, KindsAssumption
<1>3. FolderScanned /\ ~ask.demo
  BY <1>1, <1>2 DEF Inv, FolderInv
<1>4. docs[d] \in Document /\ d \in Listed(docs)
  BY <1>1, <1>3 DEF FolderScanned, Listed, Inv, ScanTypes
<1>5. /\ Listed(docs)' = Listed(docs) /\ Matched(docs)' = Matched(docs)
      /\ Checked' = Checked \union {d} /\ d \notin Checked
  BY <1>1, <1>4 DEF Listed, Matched, Checked
<1>6. /\ seen'[d] = b /\ \A e \in Checked : seen'[e] = seen[e]
      /\ seen' \in [Docs \union Files -> Bodies \union Severities \union {None}]
  BY <1>1, <1>5 DEF Inv, ScanTypes, Checked, Listed
<1>7. /\ findings' = findings \union OwnFindings(d)'
      /\ \A e \in Checked : OwnFindings(e)' = OwnFindings(e)
  BY <1>1, <1>6 DEF ValidateOne, OwnFindings
<1>8. /\ \A k \in Keys : flags'[k] = flags[k] \union (IF docs[d].key = k THEN OwnFlags(d)' ELSE {})
      /\ \A e \in Checked : OwnFlags(e)' = OwnFlags(e)
      /\ flags' \in [Keys -> SUBSET Flags]
  <2>1. OwnFlags(d)' = BodyFlags(b) \union (IF docs[d].name = "good" THEN {} ELSE {"misnamed"})
    BY <1>1, <1>6 DEF OwnFlags
  <2>2. flags' = [k \in Keys |-> flags[k] \union IF docs[d].key = k THEN OwnFlags(d)' ELSE {}]
    BY <2>1 DEF ValidateOne, Flag
  <2>3. OwnFlags(d)' \subseteq Flags
    BY <2>1 DEF BodyFlags, Flags
  <2>4. \A e \in Checked : OwnFlags(e)' = OwnFlags(e)
    BY <1>1, <1>6 DEF OwnFlags
  <2>5. flags \in [Keys -> SUBSET Flags]
    BY DEF Inv, ScanTypes
  <2> QED BY <2>2, <2>3, <2>4, <2>5
<1>9. \A f : FolderFinding(f)' <=> FolderFinding(f)
  BY <1>1, <1>5 DEF FolderFinding, Lookup
<1>10. FolderScanned'
  <2>1. folders' = 0 => Listed(docs)' = {}
    BY <1>1, <1>3, <1>5 DEF FolderScanned
  <2>2. todo' \subseteq Listed(docs)'
    BY <1>1, <1>3, <1>5 DEF FolderScanned
  <2>3. \A e \in Checked' : seen'[e] \in Bodies
    BY <1>3, <1>5, <1>6 DEF FolderScanned
  <2>4. /\ \A f \in findings' : FolderFinding(f)' \/ \E e \in Checked' : f \in OwnFindings(e)'
        /\ \A f : FolderFinding(f)' => f \in findings'
        /\ \A e \in Checked' : OwnFindings(e)' \subseteq findings'
    BY <1>3, <1>5, <1>7, <1>9 DEF FolderScanned
  <2>5. /\ \A k \in Keys : \A x \in flags'[k] :
             \E e \in Checked' : docs'[e].key = k /\ x \in OwnFlags(e)'
        /\ \A e \in Checked' : \A k \in Keys : docs'[e].key = k => OwnFlags(e)' \subseteq flags'[k]
    BY <1>1, <1>3, <1>5, <1>8 DEF FolderScanned
  <2> QED BY <2>1, <2>2, <2>3, <2>4, <2>5 DEF FolderScanned
<1>11. ScanTypes'
  <2>1. OwnFindings(d)' \subseteq Finding
    <3>1. docs'[d] \in Document /\ seen'[d] \in Bodies
      BY <1>1, <1>4, <1>6
    <3> QED BY <3>1, FindingsLater DEF FindingsTyped
  <2>2. down' \in BOOLEAN
    BY DEF ValidateOne, Inv, ScanTypes
  <2> QED BY <1>1, <1>6, <1>7, <1>8, <2>1, <2>2 DEF Inv, ScanTypes
<1>12. FolderInv' /\ FilesInv'
  BY <1>1, <1>2, <1>3, <1>10 DEF FolderInv, FilesInv, Judged
<1>13. ResultOK' /\ ExplainedInv'
  BY <1>1 DEF Inv, ResultOK, ExplainedInv
<1> QED BY <1>11, <1>12, <1>13 DEF Inv

LEMMA EridocResultStep ==
  ASSUME Inv, EridocResult
  PROVE  Inv'
<1>1. /\ pc = "scanning" /\ pc' = "done" /\ ask.scanner = "ERIDOC" /\ todo = {}
      /\ UNCHANGED <<ask, weight, scanVars, down>>
  BY DEF EridocResult, Return
<1>2. result' = Verdict
  BY DEF EridocResult, Return, Verdict
<1>3. FolderScanned /\ Folder
  BY <1>1 DEF Inv, FolderInv, ScanTypes, Folder
<1>4. /\ Verdict.status \in {"PASSED", "FAILED"} /\ Explained(Verdict)
      /\ Verdict.score = Score /\ Verdict.present = Present
      /\ \A b \in {"missing", "blank", "failed", "warnings"} : Verdict[b] \subseteq findings
  <2>1. Verdict.status = IF GoodFolder THEN "PASSED" ELSE "FAILED"
    BY <1>3, VerdictOnFolder
  <2>2. ~GoodFolder => Verdict.missing \union Verdict.blank \union Verdict.failed # {}
    BY <1>3, VerdictOnFolder
  <2>3. Explained(Verdict)
    BY <2>1, <2>2 DEF Explained
  <2> QED BY <1>3, <2>1, <2>3, VerdictOnFolder
<1>5. ScanTypes'
  BY <1>1 DEF Inv, ScanTypes, scanVars
<1>6. Score \in 0 .. 100 /\ Present \subseteq Keys /\ findings \subseteq Finding
  BY ScoreTypes DEF Present, Inv, ScanTypes
<1>7. ResultOK' /\ ExplainedInv'
  <2> DEFINE v == Verdict
  <2>1. /\ v.status \in {"PASSED", "FAILED"} /\ Explained(v) /\ v.score \in 0 .. 100
        /\ v.present \subseteq Keys
        /\ \A b \in {"missing", "blank", "failed", "warnings"} : \A f \in v[b] : f \in Finding
    BY <1>4, <1>6
  <2>2. result' = v
    BY <1>2
  <2> HIDE DEF v
  <2> QED BY <1>1, <2>1, <2>2 DEF ResultOK, ExplainedInv
<1>8. FolderScanned' /\ Verdict' = Verdict
  <2>1. UNCHANGED <<weight, folders, docs, flags, findings, todo, seen>>
    BY <1>1 DEF scanVars
  <2>2. FolderScanned'
    BY <1>3, <2>1 DEF FolderScanned, FolderFinding, Lookup, Checked, Listed, Matched,
                      OwnFindings, OwnFlags
  <2>3. Verdict' = Verdict
    BY <2>1 DEF Verdict, Score, Caps, Sum, Points, Present, Matched, Listed
  <2> QED BY <2>2, <2>3
<1>9. FolderInv'
  <2>1. todo' = {} /\ ~ask.demo
    BY <1>1 DEF scanVars, Inv, FolderInv
  <2> QED BY <1>1, <1>2, <1>8, <2>1 DEF FolderInv, Judged
<1>10. FilesInv'
  BY <1>1 DEF FilesInv, Judged
<1> QED BY <1>5, <1>7, <1>9, <1>10 DEF Inv

(***************************************************************************)
(* Bitbucket.                                                              *)
(***************************************************************************)
LEMMA CollectStep ==
  ASSUME Inv, NEW S \in SUBSET Files, NEW large \in SUBSET Files, CollectFiles(S, large)
  PROVE  Inv'
<1>1. /\ pc = "start" /\ pc' = "scanning" /\ ask.scanner = "BITBUCKET" /\ ~ask.demo
      /\ files' = S /\ todo' = S
      /\ findings' = {Entry("OVERSIZE", "INFO", f) : f \in large}
      /\ UNCHANGED <<ask, weight, folders, docs, flags, seen, down, result>>
  BY DEF CollectFiles
<1>2. findings' \subseteq Finding
  <2>1. "INFO" \in Severities
    BY SeveritiesAre
  <2>2. \A f \in large : Entry("OVERSIZE", "INFO", f) \in Finding
    BY <2>1, EntryTypes
  <2> QED BY <1>1, <2>2
<1>3. ScanTypes' /\ ResultOK' /\ ExplainedInv'
  BY <1>1, <1>2 DEF Inv, ScanTypes, ResultOK, ExplainedInv
<1>4. FolderInv' /\ FilesInv'
  BY <1>1 DEF FolderInv, FilesInv, FilesScanned, Judged
<1> QED BY <1>3, <1>4 DEF Inv

\* What a scan of a file adds to the findings.
LEMMA ScanTypesLater ==
  ASSUME Inv, pc = "scanning", NEW f \in todo \cap Files,
         NEW s \in Severities \union {"good", "crash"}, Looked(f, s),
         findings' \subseteq Finding,
         UNCHANGED <<ask, weight, folders, docs, flags, files, down>>
  PROVE  /\ ScanTypes' /\ ask.scanner = "BITBUCKET" /\ ~ask.demo
         /\ FilesScanned /\ todo' = todo \ {f} /\ seen'[f] = s
         /\ \A g \in files \ todo : seen'[g] = seen[g] /\ g # f
<1>1. ask.scanner = "BITBUCKET"
  <2> SUFFICES ASSUME ask.scanner = "ERIDOC"
               PROVE  FALSE
    BY DEF Inv, ScanTypes, Request
  <2>1. todo \subseteq Docs
    BY DEF Inv, FolderInv, FolderScanned, Listed
  <2> QED BY <2>1, KindsAssumption
<1>2. FilesScanned /\ ~ask.demo
  BY <1>1 DEF Inv, FilesInv, FolderInv
<1>3. todo' = todo \ {f} /\ seen' = [seen EXCEPT ![f] = s]
  BY DEF Looked
<1>4. s \in Bodies \union Severities
  BY DEF Bodies
<1>5. seen \in [Docs \union Files -> Bodies \union Severities \union {None}]
  BY DEF Inv, ScanTypes
<1>6. seen' \in [Docs \union Files -> Bodies \union Severities \union {None}]
  BY <1>3, <1>4, <1>5
<1>7. ScanTypes'
  BY <1>3, <1>6 DEF Inv, ScanTypes
<1>8. \A g \in files \ todo : g # f /\ g \in Files
  BY DEF Inv, ScanTypes
<1>9. seen'[f] = s /\ \A g \in files \ todo : seen'[g] = seen[g]
  BY <1>3, <1>5, <1>8
<1> QED BY <1>1, <1>2, <1>3, <1>7, <1>8, <1>9

LEMMA FileStep ==
  ASSUME Inv, NEW f \in Files,
         FileCrashes(f) \/ \E s \in Severities \union {"good"} : ScanFile(f, s)
  PROVE  Inv'
<1>0. /\ findings \subseteq Finding /\ "INFO" \in Severities /\ "crash" \notin Severities
  BY SeveritiesAre DEF Inv, ScanTypes
<1>1. ASSUME NEW s \in Severities \union {"good"}, ScanFile(f, s)
      PROVE  Inv'
  <2>1. /\ pc = "scanning" /\ f \in todo \cap Files /\ Looked(f, s)
        /\ findings' = findings \union (IF s = "good" THEN {} ELSE {Entry("CODE", s, f)})
        /\ UNCHANGED <<ask, weight, pc, folders, docs, files, flags, down, result>>
    BY <1>1 DEF ScanFile
  <2>2. s # "good" => s \in Severities
    OBVIOUS
  <2>3. findings' \subseteq Finding
    BY <1>0, <2>1, <2>2, EntryTypes
  <2>4. /\ ScanTypes' /\ ask.scanner = "BITBUCKET" /\ ~ask.demo
        /\ FilesScanned /\ todo' = todo \ {f} /\ seen'[f] = s
        /\ \A g \in files \ todo : seen'[g] = seen[g] /\ g # f
    BY <2>1, <2>3, ScanTypesLater
  <2>5. s \in Severities => Entry("CODE", s, f) \in findings'
    BY <2>1, SeveritiesAre
  <2>6. FilesScanned'
    BY <1>0, <2>1, <2>4, <2>5 DEF FilesScanned
  <2>7. FolderInv' /\ FilesInv'
    BY <2>1, <2>4, <2>6 DEF FolderInv, FilesInv, Judged
  <2>8. ResultOK' /\ ExplainedInv'
    BY <2>1 DEF Inv, ResultOK, ExplainedInv
  <2> QED BY <2>4, <2>7, <2>8 DEF Inv
<1>2. CASE FileCrashes(f) /\ ask.pool
  <2>1. /\ pc = "scanning" /\ f \in todo \cap Files /\ Looked(f, "crash")
        /\ findings' = findings \union {Entry("SCAN_ERROR", "INFO", f)}
        /\ UNCHANGED <<ask, weight, pc, folders, docs, files, flags, down, result>>
    BY <1>2 DEF FileCrashes
  <2>3. findings' \subseteq Finding
    BY <1>0, <2>1, EntryTypes
  <2>4. /\ ScanTypes' /\ ask.scanner = "BITBUCKET" /\ ~ask.demo
        /\ FilesScanned /\ todo' = todo \ {f} /\ seen'[f] = "crash"
        /\ \A g \in files \ todo : seen'[g] = seen[g] /\ g # f
    BY <2>1, <2>3, ScanTypesLater
  <2>6. FilesScanned'
    BY <1>0, <2>1, <2>4 DEF FilesScanned
  <2>7. FolderInv' /\ FilesInv'
    BY <2>1, <2>4, <2>6 DEF FolderInv, FilesInv, Judged
  <2>8. ResultOK' /\ ExplainedInv'
    BY <2>1 DEF Inv, ResultOK, ExplainedInv
  <2> QED BY <2>4, <2>7, <2>8 DEF Inv
<1>3. CASE FileCrashes(f) /\ ~ask.pool
  <2>1. /\ pc = "scanning" /\ f \in todo \cap Files /\ Looked(f, "crash") /\ Raise("ERROR")
        /\ UNCHANGED <<ask, weight, folders, docs, files, flags, down, findings>>
    BY <1>3 DEF FileCrashes
  <2>2. ScanTypes'
    BY <1>0, <2>1, ScanTypesLater
  <2> QED BY <2>1, <2>2, RaiseStep
<1> QED BY <1>1, <1>2, <1>3

LEMMA BitbucketResultStep ==
  ASSUME Inv, BitbucketResult
  PROVE  Inv'
<1> DEFINE failed == {f \in findings : AtLeast(f, FailThreshold)}
<1>1. /\ pc = "scanning" /\ pc' = "done" /\ ask.scanner = "BITBUCKET" /\ todo = {}
      /\ UNCHANGED <<ask, weight, scanVars, down>>
      /\ result' = [NoResult EXCEPT !.status = IF failed # {} THEN "FAILED" ELSE "PASSED",
                                    !.failed = failed, !.warnings = findings \ failed]
  BY DEF BitbucketResult, Return
<1>2. failed' = failed
  BY <1>1 DEF scanVars, AtLeast
<1>3. failed \subseteq findings
  OBVIOUS
<1>4. FilesScanned /\ FilesScanned' /\ findings \subseteq Finding /\ ~ask.demo
  BY <1>1 DEF Inv, FilesInv, FilesScanned, scanVars, ScanTypes, FolderInv
<1>5. /\ result'.missing = {} /\ result'.blank = {} /\ result'.failed = failed
      /\ result'.warnings = findings \ failed /\ result'.present = {} /\ result'.score = 0
      /\ result'.status = IF failed # {} THEN "FAILED" ELSE "PASSED"
  <2> HIDE DEF failed
  <2> QED BY <1>1 DEF NoResult
<1>6. ScanTypes'
  BY <1>1 DEF Inv, ScanTypes, scanVars
<1>7. ResultOK' /\ ExplainedInv'
  <2> HIDE DEF failed
  <2> QED BY <1>1, <1>3, <1>4, <1>5 DEF ResultOK, ExplainedInv, Explained
<1>8. FolderInv' /\ FilesInv'
  <2>1. todo' = {} /\ findings' = findings
    BY <1>1 DEF scanVars
  <2>2. result'.failed = failed' /\ result'.warnings = findings' \ failed'
        /\ result'.status = IF failed' # {} THEN "FAILED" ELSE "PASSED"
    BY <1>2, <1>5, <2>1
  <2> QED BY <1>1, <1>4, <2>1, <2>2 DEF FolderInv, FilesInv, Judged
<1> QED BY <1>6, <1>7, <1>8 DEF Inv

(***************************************************************************)
(* The theorems.                                                           *)
(***************************************************************************)
LEMMA NextInv == Inv /\ [Next]_vars => Inv'
<1> SUFFICES ASSUME Inv, [Next]_vars PROVE Inv'
  OBVIOUS
<1>1. CASE RejectPath \/ RefuseHost \/ \E out \in BOOLEAN : CloneFails(out)
  <2>1. /\ ask' = ask /\ UNCHANGED <<weight, scanVars>> /\ down' \in BOOLEAN
        /\ Raise("ERROR") \/ Raise("RETRY")
    BY <1>1 DEF RejectPath, RefuseHost, CloneFails, Inv, ScanTypes
  <2>2. ScanTypes'
    BY <2>1 DEF Inv, ScanTypes, scanVars
  <2> QED BY <2>1, <2>2, RaiseStep
<1>2. ASSUME NEW how \in Failures, CallFails(how)
      PROVE  Inv'
  <2>1. /\ ask' = ask /\ UNCHANGED <<weight, scanVars>> /\ down' \in BOOLEAN
        /\ Raise("ERROR") \/ Raise("RETRY")
    BY <1>2 DEF CallFails
  <2>2. ScanTypes'
    BY <2>1 DEF Inv, ScanTypes, scanVars
  <2> QED BY <2>1, <2>2, RaiseStep
<1>3. CASE EridocDemo \/ BitbucketDemo
  BY <1>3, DemoStep
<1>4. CASE EridocReal \/ \E n \in 0 .. 2 : FindFolders(n)
  BY <1>4, LookupStep
<1>5. CASE \E ds \in [Docs -> Document \union {None}] : ListDocuments(ds)
  BY <1>5, ListStep
<1>6. CASE \E d \in Docs, b \in Bodies : ValidateOne(d, b)
  BY <1>6, ValidateStep
<1>7. CASE EridocResult
  BY <1>7, EridocResultStep
<1>8. CASE \E S \in SUBSET Files, large \in SUBSET Files : CollectFiles(S, large)
  BY <1>8, CollectStep
<1>9. CASE \E f \in Files : FileCrashes(f) \/ \E s \in Severities \union {"good"} : ScanFile(f, s)
  BY <1>9, FileStep
<1>10. CASE BitbucketResult
  BY <1>10, BitbucketResultStep
<1>11. CASE UNCHANGED vars
  <2>1. UNCHANGED <<ask, weight, pc, folders, docs, flags, findings, files, todo, seen, down, result>>
    BY <1>11 DEF vars, scanVars
  <2>2. ScanTypes' /\ ResultOK' /\ ExplainedInv' /\ FilesInv'
    BY <2>1 DEF Inv, ScanTypes, ResultOK, ExplainedInv, FilesInv, FilesScanned, Judged, AtLeast
  <2>3. FolderScanned' = FolderScanned /\ Verdict' = Verdict
    BY <2>1 DEF FolderScanned, FolderFinding, Lookup, Checked, Listed, Matched, OwnFindings,
                OwnFlags, Verdict, Score, Caps, Sum, Points, Present
  <2>4. FolderInv'
    <3>1. Lookup' = Lookup /\ Unserved' = Unserved /\ Judged("ERIDOC")' = Judged("ERIDOC")
      BY <2>1 DEF Lookup, Unserved, Judged
    <3>2. FolderInv
      BY DEF Inv
    <3> QED BY <2>1, <2>3, <3>1, <3>2 DEF FolderInv
  <2> QED BY <2>2, <2>4 DEF Inv
<1> QED BY <1>1, <1>2, <1>3, <1>4, <1>5, <1>6, <1>7, <1>8, <1>9, <1>10, <1>11
        DEF Next, Eridoc, Bitbucket

LEMMA InvAlways == Spec => []Inv
BY InitInv, NextInv, PTL DEF Spec

\* ScannerAdapters.TypeOK: every variable keeps its type, and a result its
\* shape; a score is a number from 0 to 100 whatever the weights.
THEOREM TypeCorrect == Spec => []TypeOK
<1>1. Inv => TypeOK
  BY TypesAre DEF Inv
<1> QED BY <1>1, InvAlways, PTL

LEMMA JudgedFolder == ASSUME Inv, Judged("ERIDOC") PROVE Folder /\ result = Verdict
BY DEF Inv, FolderInv, ScanTypes, Folder

\* ScannerAdapters.FolderIsJudged: PASSED is given exactly to a folder that is
\* the only one, has every mandatory document and no document that is wrong.
THEOREM FolderJudged == Spec => []FolderIsJudged
<1>1. ASSUME Inv, Judged("ERIDOC")
      PROVE  result.status = "PASSED" <=> GoodFolder
  <2>1. Folder /\ result = Verdict
    BY <1>1, JudgedFolder
  <2>2. Verdict.status = IF GoodFolder THEN "PASSED" ELSE "FAILED"
    BY <2>1, VerdictOnFolder
  <2> QED BY <2>1, <2>2
<1>2. Inv => FolderIsJudged
  BY <1>1 DEF FolderIsJudged, GoodFolder, Harmless
<1> QED BY <1>2, InvAlways, PTL

\* ScannerAdapters.FailureIsExplained: a failed result has an entry among the
\* missing, blank or failed ones.
THEOREM FailureExplained == Spec => []FailureIsExplained
<1>1. ASSUME Inv, pc = "done", result.status = "FAILED"
      PROVE  Boxes(result) \cap {"missing", "blank", "failed"} # {}
  <2>1. result.missing \union result.blank \union result.failed # {}
    BY <1>1 DEF Inv, ExplainedInv, Explained
  <2>2. PICK b \in {"missing", "blank", "failed"} : result[b] # {}
    BY <2>1
  <2> DEFINE tables == {c \in {"missing", "blank", "failed", "warnings"} : result[c] # {}}
  <2>3. b \in tables
    BY <2>2
  <2>4. Boxes(result) = tables
    BY <1>1, <2>3 DEF Boxes
  <2> QED BY <2>2, <2>3, <2>4
<1>2. Inv => FailureIsExplained
  BY <1>1 DEF FailureIsExplained
<1> QED BY <1>2, InvAlways, PTL

\* ScannerAdapters.PresentIsFound: what is listed as present was found, and is
\* not listed as missing.
THEOREM PresentFound == Spec => []PresentIsFound
<1>1. ASSUME Inv, Judged("ERIDOC")
      PROVE  /\ result.present \subseteq Matched(docs)
             /\ result.present \cap {f.of : f \in result.missing} = {}
  <2>1. Folder /\ result = Verdict
    BY <1>1, JudgedFolder
  <2>2. Verdict.present = Present /\ Verdict.missing = {f \in findings : f.cat \in MissingCats}
    BY <2>1, VerdictOnFolder
  <2>3. CASE \E f \in findings : f.cat \in {"FOLDER_MISSING", "FOLDER_EMPTY"}
    <3>1. Present = {}
      BY <2>3 DEF Present
    <3> QED BY <2>1, <2>2, <3>1
  <2>4. CASE ~\E f \in findings : f.cat \in {"FOLDER_MISSING", "FOLDER_EMPTY"}
    <3>1. Present = Keys \ {f.of : f \in {g \in findings : g.cat = "MISSING"}}
      BY <2>4 DEF Present
    <3>2. ASSUME NEW k \in Keys \ Matched(docs)
          PROVE  k \notin Present
      <4>1. folders # 0
        <5> SUFFICES ASSUME folders = 0
                     PROVE  FALSE
          OBVIOUS
        <5>1. Entry("FOLDER_MISSING", "CRITICAL", None) \in findings
          BY <2>1 DEF Folder, FolderScanned, FolderFinding, Lookup
        <5> QED BY <2>4, <5>1 DEF Entry
      <4> DEFINE m == Entry("MISSING", IF weight[k] >= 10 THEN "HIGH" ELSE "MEDIUM", k)
      <4>2. m \in findings
        BY <2>1, <3>2, <4>1 DEF Folder, FolderScanned, FolderFinding
      <4>3. m.cat = "MISSING" /\ m.of = k
        BY DEF Entry
      <4> HIDE DEF m
      <4> QED BY <3>1, <4>2, <4>3
    <3>3. \A f \in findings : f.cat \in MissingCats => f.cat = "MISSING"
      BY <2>4 DEF MissingCats
    <3> QED BY <2>1, <2>2, <3>1, <3>2, <3>3
  <2> QED BY <2>3, <2>4
<1>2. Inv => PresentIsFound
  BY <1>1 DEF PresentIsFound
<1> QED BY <1>2, InvAlways, PTL

\* ScannerAdapters.CodeIsJudged: a repository that passed has no file with a
\* finding at or above the threshold, and names those it could not scan.
THEOREM CodeJudged == Spec => []CodeIsJudged
<1>1. ASSUME Inv, Judged("BITBUCKET"), result.status = "PASSED", NEW f \in files
      PROVE  /\ seen[f] \in Severities => Rank[seen[f]] < Rank[FailThreshold]
             /\ seen[f] = "crash" => \E w \in result.warnings : w.of = f /\ w.cat = "SCAN_ERROR"
  <2> DEFINE failed == {g \in findings : AtLeast(g, FailThreshold)}
  <2>1. /\ FilesScanned /\ todo = {} /\ result.status = (IF failed # {} THEN "FAILED" ELSE "PASSED")
        /\ result.warnings = findings \ failed
    BY <1>1 DEF Inv, FilesInv
  <2>2. failed = {}
    BY <1>1, <2>1
  <2>3. ASSUME seen[f] \in Severities
        PROVE  Rank[seen[f]] < Rank[FailThreshold]
    <3>1. Entry("CODE", seen[f], f) \in findings
      BY <2>1, <2>3 DEF FilesScanned
    <3>2. ~AtLeast(Entry("CODE", seen[f], f), FailThreshold)
      BY <2>2, <3>1
    <3>3. \A s \in Severities : Rank[s] \in Nat
      BY SeveritiesAre DEF Rank
    <3>4. Rank[seen[f]] \in Nat /\ Rank[FailThreshold] \in Nat
      BY <2>3, <3>3, SettingsAssumption
    <3> QED BY <3>2, <3>4 DEF AtLeast, Entry
  <2>4. ASSUME seen[f] = "crash"
        PROVE  \E w \in result.warnings : w.of = f /\ w.cat = "SCAN_ERROR"
    <3>1. Entry("SCAN_ERROR", "INFO", f) \in findings
      BY <2>1, <2>4 DEF FilesScanned
    <3> QED BY <2>1, <2>2, <3>1 DEF Entry
  <2> QED BY <2>3, <2>4
<1>2. Inv => CodeIsJudged
  BY <1>1 DEF CodeIsJudged
<1> QED BY <1>2, InvAlways, PTL

\* ScannerAdapters.ScoreFollowsDocuments: every cap that has a reason holds, and
\* 100 is given exactly for a checklist without a flaw.  A document that is only
\* protected has no cap, so this takes weights of which each is more than half a
\* per cent of all, as in the shipped checklist: a lighter one is lost in the
\* rounding, and 100 given without it.
THEOREM ScoreFollows ==
  ASSUME \A w \in Checklists : \A k \in Keys :
           200 * w[k] > Cardinality(UNION {{j} \X (1 .. w[j]) : j \in Keys})
  PROVE  Spec => []ScoreFollowsDocuments
<1>1. ASSUME Inv, Judged("ERIDOC")
      PROVE  /\ \A k \in Keys : Capped(k, result.score)
             /\ result.score = 100 <=> \A k \in Keys : ~Flawed(k)
  <2>1. Folder /\ result.score = Score
    BY <1>1, JudgedFolder, VerdictOnFolder
  <2>2. \A k \in Keys : 200 * weight[k] > Sum(Keys)
    <3>1. weight \in Checklists
      BY <1>1 DEF Inv, ScanTypes
    <3>2. \A k \in Keys :
            200 * weight[k] > Cardinality(UNION {{j} \X (1 .. weight[j]) : j \in Keys})
      BY <3>1
    <3> QED BY <3>2 DEF Sum, Points
  <2>3. Score \in 0 .. 100
    BY <2>1, ScoreTypes DEF Folder
  <2>4. \A k \in Keys : Flawed(k) => Score < 100
    BY <2>1, <2>2, ScoreOfFolder
  <2>5. ASSUME \A k \in Keys : ~Flawed(k)
        PROVE  Score = 100
    <3>1. \A k \in Keys : k \in Matched(docs)
      BY <2>5 DEF Flawed
    <3>2. Listed(docs) # {}
      BY <3>1, ChecklistAssumption DEF Matched
    <3>3. folders # 0
      BY <2>1, <3>2 DEF Folder, FolderScanned
    <3> QED BY <2>1, <2>5, <3>3, ScoreWithoutFlaw
  <2>6. Score = 100 <=> \A k \in Keys : ~Flawed(k)
    BY <2>3, <2>4, <2>5
  <2>7. \A k \in Keys : Capped(k, Score)
    BY <2>1, ScoreOfFolder DEF Capped
  <2> QED BY <2>1, <2>6, <2>7
<1>2. ASSUME Inv, Judged("ERIDOC")
      PROVE  ScoreFollowsDocuments
  <2>1. \A k \in Keys : Capped(k, result.score)
    BY <1>1, <1>2
  <2>2. result.score = 100 <=> \A k \in Keys : ~Flawed(k)
    BY <1>1, <1>2
  <2> DEFINE Is(k, bodies) == \E d \in Listed(docs) : docs[d].key = k /\ seen[d] \in bodies
             Wrong(k)      == \E d \in Listed(docs) : docs[d].key = k /\ docs[d].name # "good"
  <2>3. /\ \A k, bodies : Flagged(k, bodies) <=> Is(k, bodies)
        /\ \A k : Misnamed(k) <=> Wrong(k)
    BY DEF Flagged, Misnamed
  <2> HIDE DEF Is, Wrong
  <2>4. ASSUME NEW k \in Keys
        PROVE  /\ Is(k, {"blank", "title page", "corrupt"}) => result.score <= 40
               /\ k \notin Matched(docs) => result.score <= IF weight[k] >= 10 THEN 70 ELSE 85
               /\ Wrong(k) => result.score <= 95
    <3>1. Capped(k, result.score)
      BY <2>1
    <3> QED BY <2>3, <3>1 DEF Capped
  <2>5. ASSUME NEW k \in Keys
        PROVE  ~Flawed(k) <=>
                 ~(k \notin Matched(docs)) /\ ~Wrong(k)
                 /\ ~Is(k, {"blank", "title page", "corrupt", "protected"})
    BY <2>3 DEF Flawed
  <2>6. result.score = 100 <=>
          \A k \in Keys : ~(k \notin Matched(docs)) /\ ~Wrong(k)
                          /\ ~Is(k, {"blank", "title page", "corrupt", "protected"})
    <3> DEFINE right(k) == ~(k \notin Matched(docs)) /\ ~Wrong(k)
                           /\ ~Is(k, {"blank", "title page", "corrupt", "protected"})
    <3>1. \A k \in Keys : ~Flawed(k) <=> right(k)
      BY <2>5
    <3> HIDE DEF right
    <3>2. result.score = 100 <=> \A k \in Keys : right(k)
      BY <2>2, <3>1
    <3> QED BY <3>2 DEF right
  <2> QED BY <2>4, <2>6 DEF ScoreFollowsDocuments, Is, Wrong
<1>3. Inv => ScoreFollowsDocuments
  BY <1>2 DEF ScoreFollowsDocuments
<1> QED BY <1>3, InvAlways, PTL
=============================================================================
