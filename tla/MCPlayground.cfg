\* Two texts per editor, both requests, with and without the endpoint
CONSTANTS
  SchemaSources = {"s", "t"}
  InputSources = {"i", "j"}
  Example <- MCExample
  MaxEdits = 2
SPECIFICATION Spec
INVARIANTS AnswersCurrentTexts NoProjectLeft
PROPERTIES PanesSettle
CHECK_DEADLOCK FALSE
