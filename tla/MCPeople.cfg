SPECIFICATION PeopleSpec
CONSTANTS
  r1 = r1
  r2 = r2
  r3 = r3
  o1 = o1
  o2 = o2
  Kinds = {"email-verify", "password-reset"}
  IdOf <- MCIdOf
  CodeRequests = {r1, r2, r3}
  GuessLimit = 2
  MaxCodes = 2
  MaxCodeFaults = 1
  Nobody = Nobody
  Addresses = {o1, o2}
  Attempts = {r1, r2, r3}
  LoginLimit = 2
  MaxLoginCrashes = 1
  UserRequests = {r1, r2, r3}
  AddressIds = {o1, o2}
  Phones = {"home", "work"}
  Devices = {d1, d2, d3}
  DeviceLimit = 2
  Deleted = Deleted
  MaxUserCrashes = 1
  AdminRequests = {r1, r2, r3}
  Staff = {member}
  Roles = {"CUSTOMER", "SUPPORT"}
  Banners = {banner}
  Absent = Absent
  Initially = Initially
  MaxAdminCrashes = 1
  Agents = {o1, o2}
  TicketRequests = {r1, r2, r3, r4}
  customer = customer
  Sockets = {customer, s2, s3}
  SideOf <- MCSideOf
  Messages = {m1}
  NoAgent = NoAgent
  NoLock = NoLock
  MaxSupportFaults = 1
  Serials = {serial}
  Claims = {o1, o2}
  WarrantyRequests = {r1, r2, r3}
  MaxJobs = 2
  MaxWarrantyFaults = 1
  NoWarranty = NoWarranty
  Quizzes = {q1, q2, q3}
  WorkerSlots = {x1, x2}
  JobAttempts = 3
  StallLimit = 1
  NoQuiz = NoQuiz
  MaxQuizFaults = 2
  Members = {o1, o2}
  Broadcasts = {"sale", "news"}
  Welcome = "welcome"
  RecentTexts = 2
  push = push
  sms = sms
  mail = mail
  Posts = {push, sms, mail}
  ChannelOf <- MCChannelOf
  PostAttempts = 3
  PostStallLimit = 1
  MaxDeliveries = 1
  MaxDeletions = 1
  Tracked = {e1, e2, e3, e4}
  BufferLimit = 3
  MaxAnalyticsFaults = 1
INVARIANTS PeopleTypesOK CodesWorkOnce LimitsHold ProfilesAgree AuditTellsTheLast TicketsAgree NobodyIsMissed WarrantiesAgree JobsAgree DeliveredOnce
PROPERTIES QuizzesComplete
SYMMETRY MCSymmetry
CHECK_DEADLOCK FALSE
