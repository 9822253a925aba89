SPECIFICATION StorySpec
CONSTANTS
  None = None
  MessageHash <- MCMessageHash
  Users = {"ann", "root"}
  CompanyOf <- MCCompanyOf
  RoleOf <- MCRoleOf
  LinkedPoints <- MCLinkedPoints
  Cameras = {"cam"}
  PointOf <- MCPointOf
  ActivePoints = {"gate"}
  Company = "company"
  Events <- MCProblems
  Problems <- MCProblems
  FilterChoices <- MCFilterChoices
  FormerSettings <- MCFormerSettings
  Editors = {1, 2}
  Enabled = {"read", "preference", "setting", "leave"}
  Dispatches = {1}
  MaxRows = 2
  MaxDispatches = 3
  MaxChanges = 5
  MaxFaults = 1
INVARIANTS TypeOK
PROPERTIES SettingsObeyed UnseenKept ToldInTheEnd
