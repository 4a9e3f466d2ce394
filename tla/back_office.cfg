SPECIFICATION Spec
CONSTANTS
  None = None
  Root = root
  Dean = dean
  Clerk = clerk
  Owner = owner
  AdminIds = {root, ann, bob}
  Deans = {d1, d2}
  Users = {u1, u2}
  Visitors = {v1}
  Schools = {s1, s2}
  EventIds = {e1, e2}
  Projects = {p1}
  CardIds = {card1}
  Marks = {"like"}
  Phones = {phone1}
  Emails = {mail1}
  Keys = {k1, k2, k3}
  Milestones = {stone1}
  Deliveries = {trace1}
  Priorities = {10, 100}
  Scores = {6000, 10000}
  Weights = {5}
  Calls = {c1, c2}
  Campus = {campus}
  Student = {student}
  Photo = {photo}
  Request = {request}
  Window = 1
  Whole = 2
  Ttl = 1
  AdminRequests = 2
  EventRequests = 3
  AccountRequests = 3
  WelcomeTime = 6
  TalentRequests = 4
  MediaRequests = 5
  FeishuJobs = 2
  FeishuMoves = 1
  CoopRequests = 8
  InterTime = 3
  InterChanges = 3
  MaxNotes = 2
  MaxActs = 3
  RatingTime = 2
  MaxCycles = 3
  MaxRatings = 2
  InviteRequests = 3
  AnswerTime = 2
  AnswerRequests = 4
  Orders = {o1, o2}
  Amounts = {3}
  MaxRevisions = 1
SYMMETRY Symmetry
CHECK_DEADLOCK FALSE
INVARIANTS
  TypeOK
  ListedIsAdmitted
  ToldOnce
  ImageIsThere
  ShownAsMeant
  FeishuIsManaged
  NumbersAgree
PROPERTIES
  RepeatsAreSilent
  SkippedForABetterOne
  OlderReadingsLose
