------------------------------ MODULE Workflow ------------------------------
(***************************************************************************)
(* The components around a task that share no state with one another, each *)
(* explored on its own: a behaviour is a behaviour of one of them, which   *)
(* the variable scene names.  A component's variables live in the first of *)
(* the places a to m, in the order of its own vars; the places it does not *)
(* use stay 0.  The bounds of a component that is proved about (in         *)
(* WorkflowProofs or AssetProofs) are constants; those of the others are   *)
(* in their instances.                                                     *)
(***************************************************************************)
EXTENDS Integers, FiniteSets

CONSTANTS t1, t2, t3     \* model values: processes, directories, defects, ...

CONSTANTS
    Payloads,                           \* contents of a submission (Entry)
    MaxSources, MaxCrashes, MaxEdits,   \* the user's messages, deaths and edits of files
    MaxRevisions, EntryOps,             \* changes of the access mode, operations (Entry)
    MaxPolicies, ReviewOps,             \* approved policies, operations (Review)
    AttachmentOps,                      \* operations (Attachment)
    Queued, Kin, Ids, MaxPending,       \* the learning queue (Queue)
    Makers, Adopters, MaxDeaths,        \* runs on a Skill package (Candidate)
    Configurations, EvidenceFiles,      \* what a job may be given (Stage)
    Added, Replaced, Withdrawn, Helpers, \* members and helper processes (Product)
    MaxFaults, MaxAttempts,
    Installers, Rollers, MaxBackups,    \* runs, their backups and members (Project)
    Guides, Common, Dropped

ASSUME WorkflowAssumption ==
    /\ {MaxSources, MaxRevisions, EntryOps, MaxPolicies, ReviewOps} \subseteq Nat \ {0}
    /\ {MaxCrashes, MaxEdits, AttachmentOps, MaxPending, MaxDeaths} \subseteq Nat
    /\ {MaxFaults, MaxAttempts, MaxBackups} \subseteq Nat
    /\ Queued \subseteq Nat \ {0} /\ IsFiniteSet(Queued)
    /\ Ids \subseteq Nat
    /\ "nobody" \notin Makers \cup Adopters
    /\ IsFiniteSet(Configurations)
    /\ \A paths \in {Added \cup Replaced \cup Withdrawn, Guides \cup Common \cup Dropped} :
          IsFiniteSet(paths) /\ paths = 1 .. Cardinality(paths)
    /\ Added \cap Replaced = {} /\ Added \cap Withdrawn = {} /\ Replaced \cap Withdrawn = {}
    /\ {"free", "dead"} \cap (Installers \cup Rollers) = {}

VARIABLES scene, a, b, c, d, e, f, g, h, i, j, k, l, m

places == <<scene, a, b, c, d, e, f, g, h, i, j, k, l, m>>

-----------------------------------------------------------------------------
Entry == INSTANCE TaskEntry WITH
    task <- a, claimed <- b, request <- c, starts <- d, approval <- e, allowed <- f,
    engine <- g, op <- h, count <- i, act <- j, crashes <- k, MaxOps <- EntryOps

Review == INSTANCE ReviewedTask WITH
    task <- a, op <- b, policy <- c, pc <- d, stopping <- e, entered <- f, crashes <- g,
    MaxOps <- ReviewOps

Attachment == INSTANCE SourcePreparation WITH
    says <- a, status <- b, decided <- c, file <- d, output <- e, op <- f, record <- g,
    confirmed <- h, extraction <- i, current <- j, edits <- k, crashes <- l,
    MaxOps <- AttachmentOps

Judgment == INSTANCE ModelJudgment WITH
    binding <- a, calls <- b, index <- c, run <- d, sends <- e, kept <- f, values <- g,
    control <- h, resumes <- i, unresolved <- j, stops <- k, crashes <- l, Defects <- {t1, t2},
    MaxBindings <- 2, MaxSends <- 2, MaxStops <- 1, MaxCrashes <- 1

Assessment == INSTANCE TargetAssessment WITH
    size <- a, asked <- b, run <- c, result <- d, crashes <- e, Targets <- 1 .. 3,
    GroupLimit <- 2, Capacity <- 2, MaxCorrections <- 1, MaxCrashes <- 1

Pages == INSTANCE ReviewPages WITH
    capacity <- a, asked <- b, run <- c, coverage <- d, crashes <- e, Length <- 6,
    Capacities <- {2, 3, 4, 6}, MaxCrashes <- 3

Exchange == INSTANCE WebExchange WITH
    reviewed <- a, searched <- b, exchange <- c, verdict <- d, run <- e, sent <- f,
    answer <- g, results <- h, runs <- i, crashes <- j, faults <- k, Planned <- 2,
    Addresses <- 1 .. 3, MaxRuns <- 3, MaxCrashes <- 2, MaxFaults <- 1

Evaluation == INSTANCE WebJudgment WITH
    binding <- a, skill <- b, exchange <- c, work <- d, attempts <- e, knowledge <- f,
    parked <- g, reviews <- h, run <- i, crashes <- j, MaxBindings <- 2, MaxSkills <- 2,
    MaxAttempts <- 2, MaxCrashes <- 1

Correction == INSTANCE CorrectionReturn WITH
    op <- a, correction <- b, current <- c, frames <- d, source <- e, pc <- f, crashes <- g,
    Ops <- 1 .. 3, Corrections <- {1, 2}, MaxSources <- 2, MaxCrashes <- 1

Knowledge == INSTANCE KnowledgeStore WITH
    skill <- a, history <- b, learning <- c, candidate <- d, work <- e, Shared <- {1, 2},
    Own <- 3, Imported <- 4, PrimaryOps <- {t1}, ChildOps <- {t2}, Integrations <- {t3},
    MaxVersion <- 3, MaxCandidates <- 2

Settings == INSTANCE ProviderSettings WITH
    doc <- a, entered <- b, context <- c, task <- d, login <- e, choice <- f, call <- g,
    kept <- h, changes <- i, restarts <- j, Origins <- {1, 2}, Local <- 3, Portal <- 2,
    Models <- {1}, ReviewModels <- {2}, MaxKeys <- 2, MaxProfiles <- 1, MaxChanges <- 2,
    MaxRestarts <- 1

Memory == INSTANCE ContextMemory WITH
    total <- a, source <- b, usable <- c, memory <- d, failed <- e, saved <- f, pc <- g,
    ask <- h, resumes <- i, crashes <- j, Capacities <- {2, 4}, MaxResults <- 5,
    MaxSources <- 2, MaxResumes <- 1, MaxCrashes <- 1

Lesson == INSTANCE PracticalLesson WITH
    lessons <- a, uses <- b, results <- c, open <- d, source <- e, inFolder <- f, upsets <- g,
    Tasks <- {1, 2}, Folder <- 8, General <- 9, Shares <- {"folder", "general"}, MaxOps <- 2,
    MaxLessons <- 2, MaxUpsets <- 1

Projection == INSTANCE SkillProjection WITH
    db <- a, tx <- b, texts <- c, file <- d, backups <- e, written <- f, allowed <- g,
    render <- h, learned <- i, failure <- j, repair <- k, removals <- l, deaths <- m,
    MaxTexts <- 2, Edits <- {11}, MaxRemovals <- 1, MaxDeaths <- 1

Queue == INSTANCE LearningQueue WITH
    row <- a, history <- b, pending <- c, pager <- d, Candidates <- Queued

Candidate == INSTANCE SkillCandidate WITH
    source <- a, registry <- b, candidate <- c, adopted <- d, stage <- e, run <- f, edits <- g,
    deaths <- h

Stage == INSTANCE Allocation WITH
    input <- a, evidence <- b, run <- c, edits <- d, Evidence <- EvidenceFiles

Product == INSTANCE ProductInstall WITH
    files <- a, edits <- b, plan <- c, offer <- d, service <- e, window <- f, helper <- g,
    pending <- h, receipt <- i, owner <- j, crashes <- k, faults <- l, attempts <- m,
    Retired <- Withdrawn

Project == INSTANCE ProjectInstall WITH
    source <- a, files <- b, backups <- c, lock <- d, run <- e, owed <- f, edits <- g,
    crashes <- h, Retired <- Dropped

-----------------------------------------------------------------------------
(* The places that a component with so many variables leaves alone         *)
After4 == <<e, f, g, h, i, j, k, l, m>>
After5 == <<f, g, h, i, j, k, l, m>>
After7 == <<h, i, j, k, l, m>>
After8 == <<i, j, k, l, m>>
After10 == <<k, l, m>>
After11 == <<l, m>>
After12 == <<m>>

Unused12 == m = 0
Unused11 == l = 0 /\ Unused12
Unused10 == k = 0 /\ Unused11
Unused8 == i = 0 /\ j = 0 /\ Unused10
Unused7 == h = 0 /\ Unused8
Unused5 == f = 0 /\ g = 0 /\ Unused7
Unused4 == e = 0 /\ Unused5

WorkflowInit ==
    \/ scene = "entry" /\ Entry!Init /\ Unused11
    \/ scene = "review" /\ Review!Init /\ Unused7
    \/ scene = "attachment" /\ Attachment!Init /\ Unused12
    \/ scene = "judgment" /\ Judgment!Init /\ Unused12
    \/ scene = "assessment" /\ Assessment!Init /\ Unused5
    \/ scene = "pages" /\ Pages!Init /\ Unused5
    \/ scene = "exchange" /\ Exchange!Init /\ Unused11
    \/ scene = "evaluation" /\ Evaluation!Init /\ Unused10
    \/ scene = "correction" /\ Correction!Init /\ Unused7
    \/ scene = "knowledge" /\ Knowledge!Init /\ Unused5
    \/ scene = "settings" /\ Settings!Init /\ Unused10
    \/ scene = "memory" /\ Memory!Init /\ Unused10
    \/ scene = "lesson" /\ Lesson!Init /\ Unused7
    \/ scene = "projection" /\ Projection!Init
    \/ scene = "queue" /\ Queue!Init /\ Unused4
    \/ scene = "candidate" /\ Candidate!Init /\ Unused8
    \/ scene = "allocation" /\ Stage!Init /\ Unused4
    \/ scene = "product" /\ Product!Init
    \/ scene = "project" /\ Project!Init /\ Unused8

WorkflowNext ==
    /\ UNCHANGED scene
    /\ \/ scene = "entry" /\ Entry!Next /\ UNCHANGED After11
       \/ scene = "review" /\ Review!Next /\ UNCHANGED After7
       \/ scene = "attachment" /\ Attachment!Next /\ UNCHANGED After12
       \/ scene = "judgment" /\ Judgment!Next /\ UNCHANGED After12
       \/ scene = "assessment" /\ Assessment!Next /\ UNCHANGED After5
       \/ scene = "pages" /\ Pages!Next /\ UNCHANGED After5
       \/ scene = "exchange" /\ Exchange!Next /\ UNCHANGED After11
       \/ scene = "evaluation" /\ Evaluation!Next /\ UNCHANGED After10
       \/ scene = "correction" /\ Correction!Next /\ UNCHANGED After7
       \/ scene = "knowledge" /\ Knowledge!Next /\ UNCHANGED After5
       \/ scene = "settings" /\ Settings!Next /\ UNCHANGED After10
       \/ scene = "memory" /\ Memory!Next /\ UNCHANGED After10
       \/ scene = "lesson" /\ Lesson!Next /\ UNCHANGED After7
       \/ scene = "projection" /\ Projection!Next
       \/ scene = "queue" /\ Queue!Next /\ UNCHANGED After4
       \/ scene = "candidate" /\ Candidate!Next /\ UNCHANGED After8
       \/ scene = "allocation" /\ Stage!Next /\ UNCHANGED After4
       \/ scene = "product" /\ Product!Next
       \/ scene = "project" /\ Project!Next /\ UNCHANGED After8

WorkflowSpec == WorkflowInit /\ [][WorkflowNext]_places

-----------------------------------------------------------------------------
\* A task is started once and acts only as its user allows now; a reviewed
\* result is not lost; an attachment is read, or withdrawn, as the user last said
\* (TaskEntry, ReviewedTask, SourcePreparation).
TaskSound ==
    /\ scene = "entry" => Entry!EntrySound
    /\ scene = "review" => Review!TaskSound
    /\ scene = "attachment" => Attachment!PreparationSound

\* What models judged, over calls that failed, were cut short or repeated, is
\* complete and belongs to what is judged, and no key goes astray on the way to
\* them (ModelJudgment, TargetAssessment, ReviewPages, ProviderSettings).
JudgmentSound ==
    /\ scene = "judgment" => Judgment!JudgmentSound
    /\ scene = "assessment" => Assessment!AssessmentSound
    /\ scene = "pages" => Pages!ReviewSound
    /\ scene = "settings" => Settings!SettingsSound

\* A request to the Web is sent once, its evidence judged, and what the
\* judgment asks for done before its parent goes on (WebExchange, WebJudgment,
\* CorrectionReturn).
WebSound ==
    /\ scene = "exchange" => Exchange!ExchangeSound
    /\ scene = "evaluation" => Evaluation!EvaluationSound
    /\ scene = "correction" => Correction!ReturnSound

\* No improvement of a lesson is lost or applied over a newer one, in the store
\* and in the files made of it; no lesson tells another task what it should not;
\* and the memory of a task covers what it says (KnowledgeStore, SkillProjection,
\* PracticalLesson, ContextMemory).
KnowledgeSound ==
    /\ scene = "knowledge" => Knowledge!KnowledgeSound
    /\ scene = "projection" => Projection!ProjectionSound
    /\ scene = "lesson" => Lesson!LessonSound
    /\ scene = "memory" => Memory!ContextSound

\* The queue of candidates keeps its history and order whatever its writers
\* interleave, and a candidate is adopted as it was built and measured
\* (LearningQueue, SkillCandidate, Allocation).
LearningSound ==
    /\ scene = "queue" => Queue!QueueSound
    /\ scene = "candidate" => Candidate!CandidateSound
    /\ scene = "allocation" => Stage!AllocationSound

\* An installation that dies or races an edit can be finished or undone
\* (ProductInstall, ProjectInstall).
InstallSound ==
    /\ scene = "product" => Product!InstallSound
    /\ scene = "project" => Project!InstallationSound
=============================================================================
