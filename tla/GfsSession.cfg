SPECIFICATION FairSpec
CONSTANTS
  Kinds = {"init2", "init3", "initRefused", "search", "trigger", "close", "garbage",
    "http", "httpClose", "httpRefused"}
  Hosts = {"a", "b"}
  Known = {"a", "b"}
  Handlers = {"scan"}
  AnswerLength = 2
  CloseLength = 1
  MaxPackages = 3
  Accepts = {{}, {"INPUT"}}
  Polling = FALSE
INVARIANTS SessionSafe HandlesBalanced
PROPERTIES AnswersInOrder DeadIsDestroyed
CHECK_DEADLOCK FALSE
