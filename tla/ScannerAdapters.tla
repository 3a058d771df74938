-------------------------- MODULE ScannerAdapters ---------------------------
(***************************************************************************)
(* One attempt of a scanner of EDCS-Gate, from the call of run() in        *)
(* src/apps/scanners/ to what run_scanner is given: a ScanResult, a        *)
(* TransientScannerError ("RETRY") or another exception ("ERROR").         *)
(*                                                                         *)
(* The ERIDOC adapter looks a folder up, lists its documents, validates    *)
(* them in a pool of threads that share the state of the mandatory         *)
(* documents, and scores the outcome; the Bitbucket adapter clones a       *)
(* repository and scans its files in turn or in a pool of processes.       *)
(* What a document or a file is shows when the scan looks at it.  Findings *)
(* keep their category, severity and subject; those that only add warnings *)
(* (no owner, no version, fuzzy name, sign-off text) are left out.         *)
(***************************************************************************)
EXTENDS Integers, FiniteSets, FiniteSetsExt

CONSTANTS
  None,
  Demo,          \* the values DEMO_MODE may be set to
  Docs,          \* documents ERIDOC may hold
  Keys,          \* the mandatory documents
  Checklists,    \* the weights the checklist may give them
  PassScore,     \* compliance_pass_score
  Files,         \* files a repository may hold
  FailThreshold  \* severity_fail_threshold

Rank == [INFO |-> 0, LOW |-> 1, MEDIUM |-> 2, HIGH |-> 3, CRITICAL |-> 4]
Severities == DOMAIN Rank

ASSUME NoneAssumption == None \notin Docs \union Keys \union Files
ASSUME KindsAssumption == Docs \cap Files = {}
ASSUME DemoAssumption == Demo \subseteq BOOLEAN
ASSUME ChecklistAssumption ==
  IsFiniteSet(Keys) /\ Keys # {} /\ Checklists \subseteq [Keys -> Nat \ {0}]
ASSUME SettingsAssumption == PassScore \in 0 .. 95 /\ FailThreshold \in Severities

\* The ERIDOC folder path: nothing, a link or an object id, a path that starts
\* with "/", or something else.
Paths == {"blank", "id", "root", "other"}
\* How well a document is named.
Names == {"good", "wrong jira", "no jira", "not ascii"}
\* What the validation of a document comes to; "outage" is a failed download.
Bodies == {"good", "blank", "title page", "image only", "small", "oversize", "zip",
           "unsupported", "protected", "corrupt", "crash", "outage"}
\* How a call of ERIDOC fails, after the retries of the client.
Failures == {"5xx", "network", "refused"}
Outages  == {"5xx", "network"}

Finding == [cat : {"FOLDER_MISSING", "FOLDER_DUPLICATE", "FOLDER_EMPTY", "MISSING", "BLANK",
                   "TITLE_PAGE_ONLY", "IMAGE_ONLY", "SUSPECT_SMALL", "OVERSIZE", "UNSUPPORTED",
                   "UNSUPPORTED_ZIP", "PROTECTED", "CORRUPT", "WRONG_JIRA", "NAMING", "CODE",
                   "SCAN_ERROR"},
            sev : Severities, of : Docs \union Keys \union Files \union {None}]
Document == [key : Keys \union {None}, name : Names]
Flags    == {"misnamed", "blank", "corrupt", "protected"}
Request  == [scanner : {"ERIDOC", "BITBUCKET"}, path : Paths, required : BOOLEAN,
             demo : BOOLEAN, fails : BOOLEAN, pool : BOOLEAN]

VARIABLES
  ask,      \* what run() is called with; never changes
  weight,   \* of the mandatory documents; never changes
  pc,
  folders,  \* how many folders the lookup found
  docs,     \* the documents listed, None for those the folder has not
  flags,    \* DocState of each mandatory document
  findings,
  files,    \* files collected from the clone
  todo,     \* documents to validate, or files to scan
  seen,     \* history: what each document or file turned out to be
  down,     \* history: a call failed because the service was out
  result

scanVars == <<folders, docs, flags, findings, files, todo, seen>>
vars     == <<ask, weight, pc, scanVars, down, result>>

TypeOK ==
  /\ ask \in Request /\ weight \in Checklists
  /\ pc \in {"start", "lookup", "listing", "scanning", "done"}
  /\ folders \in 0 .. 2
  /\ docs \in [Docs -> Document \union {None}]
  /\ flags \in [Keys -> SUBSET Flags]
  /\ \A f \in findings : f \in Finding
  /\ files \subseteq Files
  /\ todo \subseteq Docs \union Files
  /\ seen \in [Docs \union Files -> Bodies \union Severities \union {None}]
  /\ down \in BOOLEAN
  /\ IF pc = "done"
     THEN /\ result.status \in {"PASSED", "FAILED", "RETRY", "ERROR"}
          /\ result.score \in 0 .. 100 /\ result.present \subseteq Keys
          /\ \A b \in {"missing", "blank", "failed", "warnings"} :
               \A f \in result[b] : f \in Finding
     ELSE result = None

\* The demo results fail for an odd JIRA id, or a URL with "fail" in it; a
\* repository of 20 files or more is scanned in a pool.
Init ==
  /\ ask \in {a \in Request :
       /\ a.demo \in Demo
       /\ a.fails => a.demo
       /\ a.pool => a.scanner = "BITBUCKET" /\ ~a.demo
       /\ a.scanner = "BITBUCKET" => a.path = "blank" /\ ~a.required}
  /\ weight \in Checklists
  /\ pc = "start"
  /\ folders = 0 /\ docs = [d \in Docs |-> None]
  /\ flags = [k \in Keys |-> {}] /\ findings = {}
  /\ files = {} /\ todo = {}
  /\ seen = [x \in Docs \union Files |-> None]
  /\ down = FALSE /\ result = None

NoResult == [status |-> "PASSED", missing |-> {}, blank |-> {}, failed |-> {},
             warnings |-> {}, present |-> {}, score |-> 0]

Return(r)      == pc' = "done" /\ result' = r
Raise(outcome) == Return([NoResult EXCEPT !.status = outcome])
Entry(c, s, x) == [cat |-> c, sev |-> s, of |-> x]
AtLeast(f, s)  == Rank[f.sev] >= Rank[s]

\* ScanResult.finalize_status
Finalized(r) ==
  [r EXCEPT !.status = IF r.failed \union r.missing \union r.blank # {}
                       THEN "FAILED" ELSE "PASSED"]

(***************************************************************************)
(* ERIDOC: the request.                                                    *)
(***************************************************************************)
Rejected == ask.path = "other" \/ (ask.path = "blank" /\ ask.required)

\* EridocPathError
RejectPath ==
  /\ pc = "start" /\ ask.scanner = "ERIDOC" /\ Rejected
  /\ Raise("ERROR")
  /\ UNCHANGED <<ask, weight, scanVars, down>>

EridocDemo ==
  /\ pc = "start" /\ ask.scanner = "ERIDOC" /\ ~Rejected /\ ask.demo
  /\ Return(Finalized([NoResult EXCEPT
       !.missing  = IF ask.fails THEN {Entry("MISSING", "HIGH", None)} ELSE {},
       !.warnings = {Entry("SUSPECT_SMALL", "MEDIUM", None)},
       !.score    = IF ask.fails THEN 65 ELSE 96]))
  /\ UNCHANGED <<ask, weight, scanVars, down>>

EridocReal ==
  /\ pc = "start" /\ ask.scanner = "ERIDOC" /\ ~Rejected /\ ~ask.demo
  /\ pc' = "lookup"
  /\ UNCHANGED <<ask, weight, scanVars, down, result>>

(***************************************************************************)
(* ERIDOC: DocumentScanner.scan.                                           *)
(***************************************************************************)
\* Only an EridocError may be retryable; a ConnectionError or a Timeout is none.
CallFails(how) ==
  /\ \/ pc = "lookup" /\ ask.path # "id"
     \/ pc = "listing"
  /\ Raise(IF how = "5xx" THEN "RETRY" ELSE "ERROR")
  /\ down' = (how \in Outages)
  /\ UNCHANGED <<ask, weight, scanVars>>

\* A folder given by its id is not looked up, and need not exist.
FindFolders(n) ==
  /\ pc = "lookup"
  /\ ask.path = "id" => n = 1
  /\ folders' = n
  /\ pc' = IF n = 0 THEN "scanning" ELSE "listing"
  /\ findings' = CASE n = 0 -> {Entry("FOLDER_MISSING", "CRITICAL", None)}
                   [] n = 1 -> {}
                   [] OTHER -> {Entry("FOLDER_DUPLICATE", "HIGH", None)}
  /\ UNCHANGED <<ask, weight, docs, flags, files, todo, seen, down, result>>

Listed(ds)  == {d \in Docs : ds[d] # None}
Matched(ds) == {ds[d].key : d \in Listed(ds)} \ {None}

\* The union of the folders, matched with the checklist.
ListDocuments(ds) ==
  /\ pc = "listing"
  /\ docs' = ds /\ todo' = Listed(ds)
  /\ findings' = findings
       \union (IF Listed(ds) = {} THEN {Entry("FOLDER_EMPTY", "HIGH", None)} ELSE {})
       \union {Entry("MISSING", IF weight[k] >= 10 THEN "HIGH" ELSE "MEDIUM", k) :
                 k \in Keys \ Matched(ds)}
  /\ pc' = "scanning"
  /\ UNCHANGED <<ask, weight, folders, flags, files, seen, down, result>>

NameFindings(name, d) ==
  CASE name = "good"       -> {}
    [] name = "wrong jira" -> {Entry("WRONG_JIRA", "HIGH", d)}
    [] name = "no jira"    -> {Entry("NAMING", "MEDIUM", d)}
    [] name = "not ascii"  -> {Entry("NAMING", "LOW", d)}

BodyFindings(b, d) ==
  CASE b = "good"        -> {}
    [] b = "blank"       -> {Entry("BLANK", "CRITICAL", d)}
    [] b = "title page"  -> {Entry("TITLE_PAGE_ONLY", "HIGH", d)}
    [] b = "image only"  -> {Entry("IMAGE_ONLY", "HIGH", d)}
    [] b = "small"       -> {Entry("SUSPECT_SMALL", "MEDIUM", d)}
    [] b = "oversize"    -> {Entry("OVERSIZE", "INFO", d)}
    [] b = "zip"         -> {Entry("UNSUPPORTED_ZIP", "INFO", d)}
    [] b = "unsupported" -> {Entry("UNSUPPORTED", "INFO", d)}
    [] b = "protected"   -> {Entry("PROTECTED", "HIGH", d)}
    [] b = "corrupt"     -> {Entry("CORRUPT", "HIGH", d)}

BodyFlags(b) ==
  CASE b \in {"blank", "title page"}  -> {"blank"}
    [] b \in {"corrupt", "protected"} -> {b}
    [] OTHER                          -> {}

Looked(x, b) == todo' = todo \ {x} /\ seen' = [seen EXCEPT ![x] = b]

\* Mutant of Flag: the guard "if mkey" is dropped.
FlagAnyway(d, b) ==
  flags' = [k \in Keys \union {docs[d].key} |->
              (IF k \in Keys THEN flags[k] ELSE {}) \union IF docs[d].key = k THEN BodyFlags(b) ELSE {}]

\* The flags a document sets on its entry of the checklist.
Flag(d, b) ==
  LET own == BodyFlags(b) \union (IF docs[d].name = "good" THEN {} ELSE {"misnamed"})
  IN  flags' = [k \in Keys |-> flags[k] \union IF docs[d].key = k THEN own ELSE {}]

\* Mutant of ValidateOne: the exception of a validator is only logged.
ValidateOneLogged(d, b) ==
  /\ pc = "scanning" /\ d \in todo \cap Docs
  /\ Looked(d, b)
  /\ Flag(d, b)
  /\ findings' = findings \union
       IF b \in {"crash", "outage"} THEN {}
       ELSE NameFindings(docs[d].name, d) \union BodyFindings(b, d)
  /\ down' = (down \/ b = "outage")
  /\ UNCHANGED <<ask, weight, pc, folders, docs, files, result>>

\* A thread of the pool; when it raises, its own findings are lost and a
\* corrupt document is reported, whatever was raised.
ValidateOne(d, b) ==
  /\ pc = "scanning" /\ d \in todo \cap Docs
  /\ Looked(d, b)
  /\ Flag(d, b)
  /\ findings' = findings \union
       IF b \in {"crash", "outage"} THEN {Entry("CORRUPT", "HIGH", d)}
       ELSE NameFindings(docs[d].name, d) \union BodyFindings(b, d)
  /\ down' = (down \/ b = "outage")
  /\ UNCHANGED <<ask, weight, pc, folders, docs, files, result>>

(***************************************************************************)
(* ERIDOC: compute_score and the adapter's verdict.                        *)
(***************************************************************************)
\* The points a set of documents is worth, and their number.
Points(S) == UNION {{k} \X (1 .. weight[k]) : k \in S}
Sum(S)    == Cardinality(Points(S))

\* Python's round of n / d.
Rounded(n, d) ==
  LET q == n \div d
      r == 2 * (n % d)
  IN  IF r > d \/ (r = d /\ q % 2 = 1) THEN q + 1 ELSE q

\* Mutant of Caps: naming problems cap the score below the pass score.
CapsNaming85 ==
  LET hard == {40 : k \in {k \in Matched(docs) : flags[k] \cap {"blank", "corrupt"} # {}}}
              \union {IF weight[k] >= 10 THEN 70 ELSE 85 : k \in Keys \ Matched(docs)}
  IN  IF hard = {} /\ \E k \in Keys : "misnamed" \in flags[k] THEN {85} ELSE hard

\* Mutant of Caps: the caps for missing documents are swapped.
CapsSwapped ==
  LET hard == {40 : k \in {k \in Matched(docs) : flags[k] \cap {"blank", "corrupt"} # {}}}
              \union {IF weight[k] >= 10 THEN 85 ELSE 70 : k \in Keys \ Matched(docs)}
  IN  IF hard = {} /\ \E k \in Keys : "misnamed" \in flags[k] THEN {95} ELSE hard

Caps ==
  LET hard == {40 : k \in {k \in Matched(docs) : flags[k] \cap {"blank", "corrupt"} # {}}}
              \union {IF weight[k] >= 10 THEN 70 ELSE 85 : k \in Keys \ Matched(docs)}
  IN  IF hard = {} /\ \E k \in Keys : "misnamed" \in flags[k] THEN {95} ELSE hard

Score ==
  LET earned == {k \in Matched(docs) : flags[k] \cap {"blank", "corrupt", "protected"} = {}}
  IN  IF folders = 0 THEN 0
      ELSE Min({Rounded(100 * Sum(earned), Sum(Keys))} \union Caps)

MissingCats == {"FOLDER_MISSING", "FOLDER_EMPTY", "MISSING"}
BlankCats   == {"BLANK", "TITLE_PAGE_ONLY", "IMAGE_ONLY"}

\* Mutant of Present: documents count as present in a folder that is not there.
PresentAnyway == Keys \ {f.of : f \in findings}

\* The ED-PRESENT entries.
Present ==
  IF \E f \in findings : f.cat \in {"FOLDER_MISSING", "FOLDER_EMPTY"} THEN {}
  ELSE Keys \ {f.of : f \in {g \in findings : g.cat = "MISSING"}}

EridocResult ==
  LET kept    == {f \in findings : f.cat # "UNSUPPORTED_ZIP"}
      missing == {f \in kept : f.cat \in MissingCats}
      blank   == {f \in kept : f.cat \in BlankCats}
      rest    == kept \ (missing \union blank)
      bad     == Score < PassScore \/ (\E f \in findings : AtLeast(f, "HIGH"))
                 \/ missing \union blank # {}
  IN  /\ pc = "scanning" /\ ask.scanner = "ERIDOC" /\ todo = {}
      /\ Return([status |-> IF bad THEN "FAILED" ELSE "PASSED",
                 missing |-> missing, blank |-> blank,
                 failed |-> {f \in rest : AtLeast(f, "HIGH")},
                 warnings |-> {f \in rest : ~AtLeast(f, "HIGH")},
                 present |-> Present, score |-> Score])
      /\ UNCHANGED <<ask, weight, scanVars, down>>

(***************************************************************************)
(* Bitbucket.                                                              *)
(***************************************************************************)
BitbucketDemo ==
  /\ pc = "start" /\ ask.scanner = "BITBUCKET" /\ ask.demo
  /\ Return(Finalized([NoResult EXCEPT
       !.failed = IF ask.fails THEN {Entry("CODE", "CRITICAL", None), Entry("CODE", "HIGH", None)}
                  ELSE {}]))
  /\ UNCHANGED <<ask, weight, scanVars, down>>

\* SecurityError: the host is not an allowed one.
RefuseHost ==
  /\ pc = "start" /\ ask.scanner = "BITBUCKET" /\ ~ask.demo
  /\ Raise("ERROR")
  /\ UNCHANGED <<ask, weight, scanVars, down>>

\* CloneError: no disk space, or git fails for any reason.
CloneFails(out) ==
  /\ pc = "start" /\ ask.scanner = "BITBUCKET" /\ ~ask.demo
  /\ Raise("RETRY")
  /\ down' = out
  /\ UNCHANGED <<ask, weight, scanVars>>

\* Files that are too large are reported, binary and empty ones are not.
CollectFiles(S, large) ==
  /\ pc = "start" /\ ask.scanner = "BITBUCKET" /\ ~ask.demo
  /\ S \cap large = {}
  /\ files' = S /\ todo' = S
  /\ findings' = {Entry("OVERSIZE", "INFO", f) : f \in large}
  /\ pc' = "scanning"
  /\ UNCHANGED <<ask, weight, folders, docs, flags, seen, down, result>>

\* The worst finding of a file, if it has one.
ScanFile(f, s) ==
  /\ pc = "scanning" /\ f \in todo \cap Files
  /\ Looked(f, s)
  /\ findings' = findings \union IF s = "good" THEN {} ELSE {Entry("CODE", s, f)}
  /\ UNCHANGED <<ask, weight, pc, folders, docs, flags, files, down, result>>

\* Mutant of FileCrashes: in a pool, nothing is reported.
FileCrashesSilently(f) ==
  /\ pc = "scanning" /\ f \in todo \cap Files
  /\ Looked(f, "crash")
  /\ IF ask.pool
     THEN UNCHANGED <<findings, pc, result>>
     ELSE Raise("ERROR") /\ UNCHANGED findings
  /\ UNCHANGED <<ask, weight, folders, docs, flags, files, down>>

\* In a pool the exception becomes a finding, in turn it ends the scan.
FileCrashes(f) ==
  /\ pc = "scanning" /\ f \in todo \cap Files
  /\ Looked(f, "crash")
  /\ IF ask.pool
     THEN /\ findings' = findings \union {Entry("SCAN_ERROR", "INFO", f)}
          /\ UNCHANGED <<pc, result>>
     ELSE Raise("ERROR") /\ UNCHANGED findings
  /\ UNCHANGED <<ask, weight, folders, docs, flags, files, down>>

BitbucketResult ==
  LET failed == {f \in findings : AtLeast(f, FailThreshold)}
  IN  /\ pc = "scanning" /\ ask.scanner = "BITBUCKET" /\ todo = {}
      /\ Return([NoResult EXCEPT !.status = IF failed # {} THEN "FAILED" ELSE "PASSED",
                                 !.failed = failed, !.warnings = findings \ failed])
      /\ UNCHANGED <<ask, weight, scanVars, down>>

(***************************************************************************)
(* What the verdict mail says of the result of this scanner.               *)
(***************************************************************************)
\* _scanner_blocks; a result to be retried is none yet, and shown as not finished.
Boxes(r) ==
  IF r.status \in {"ERROR", "RETRY"} THEN {"error"}
  ELSE LET tables == {b \in {"missing", "blank", "failed", "warnings"} : r[b] # {}}
       IN  IF tables = {} THEN {"all passed"} ELSE tables

(***************************************************************************)
(* The specification.                                                      *)
(***************************************************************************)
Eridoc ==
  \/ RejectPath \/ EridocDemo \/ EridocReal \/ EridocResult
  \/ \E how \in Failures : CallFails(how)
  \/ \E n \in 0 .. 2 : FindFolders(n)
  \/ \E ds \in [Docs -> Document \union {None}] : ListDocuments(ds)
  \/ \E d \in Docs, b \in Bodies : ValidateOne(d, b)

Bitbucket ==
  \/ BitbucketDemo \/ RefuseHost \/ BitbucketResult
  \/ \E out \in BOOLEAN : CloneFails(out)
  \/ \E S \in SUBSET Files, large \in SUBSET Files : CollectFiles(S, large)
  \/ \E f \in Files : FileCrashes(f) \/ \E s \in Severities \union {"good"} : ScanFile(f, s)

Next == Eridoc \/ Bitbucket

Spec == Init /\ [][Next]_vars

(***************************************************************************)
(* Properties.                                                             *)
(***************************************************************************)
Judged(scanner) ==
  /\ pc = "done" /\ ask.scanner = scanner /\ ~ask.demo
  /\ result.status \in {"PASSED", "FAILED"}

\* DocumentScanner.scan and the buckets of _run_real: whatever the order the
\* threads end in, the verdict is PASSED exactly if there is one folder, every
\* mandatory document is in it, and every document in it, mandatory or not,
\* names no other JIRA id and is neither empty, unreadable, protected nor lost
\* on the way.  The score never decides it alone.
FolderIsJudged ==
  Judged("ERIDOC") =>
    (result.status = "PASSED" <=>
       /\ folders = 1
       /\ Keys \subseteq Matched(docs)
       /\ \A d \in Listed(docs) :
            /\ docs[d].name # "wrong jira"
            /\ seen[d] \in {"good", "small", "oversize", "zip", "unsupported"})

\* _scanner_blocks: a mail about a scan that failed names a reason under it, in
\* a table that is not only warnings, and never says that all checks passed.
FailureIsExplained ==
  pc = "done" /\ result.status = "FAILED" => Boxes(result) \cap {"missing", "blank", "failed"} # {}

\* compute_score, against its documentation: every cap that has a reason holds,
\* and 100 is given exactly for a checklist without a flaw.
ScoreFollowsDocuments ==
  Judged("ERIDOC") =>
    LET Is(k, bodies) == \E d \in Listed(docs) : docs[d].key = k /\ seen[d] \in bodies
        Misnamed(k)   == \E d \in Listed(docs) : docs[d].key = k /\ docs[d].name # "good"
        Missing(k)    == k \notin Matched(docs)
    IN  /\ \A k \in Keys :
             /\ Is(k, {"blank", "title page", "corrupt"}) => result.score <= 40
             /\ Missing(k) => result.score <= IF weight[k] >= 10 THEN 70 ELSE 85
             /\ Misnamed(k) => result.score <= 95
        /\ result.score = 100 <=>
             \A k \in Keys : ~Missing(k) /\ ~Misnamed(k)
                             /\ ~Is(k, {"blank", "title page", "corrupt", "protected"})

\* _run_real: a document is listed as present and matched only if the folder
\* has one that matches, and never as missing too.
PresentIsFound ==
  Judged("ERIDOC") =>
    /\ result.present \subseteq Matched(docs)
    /\ result.present \cap {f.of : f \in result.missing} = {}

\* CodeScanner.scan: PASSED means that no file has a finding at or above the
\* threshold, and every file that could not be scanned is named in a warning.
CodeIsJudged ==
  Judged("BITBUCKET") /\ result.status = "PASSED" =>
    \A f \in files :
      /\ seen[f] \in Severities => Rank[seen[f]] < Rank[FailThreshold]
      /\ seen[f] = "crash" => \E w \in result.warnings : w.of = f /\ w.cat = "SCAN_ERROR"

\* base.py: errors of the network or of the 5xx kind lead to a retry, and a
\* failed check is a business result.
OutageIsRetried == pc = "done" /\ down => result.status = "RETRY"
=============================================================================
