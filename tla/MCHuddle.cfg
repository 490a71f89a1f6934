CONSTANTS
  phone = phone
  tablet = tablet
  early = early
  late = late
  NoQuiz = NoQuiz
  Device = {phone, tablet}
  Failing = {tablet}
  Quiz = {early, late}
  LaunchTime <- MCLaunchTime
  Window = 1
  Horizon = 2
  MaxRequests = 2
  MaxLanded <- MCMaxLanded
SPECIFICATION Spec
INVARIANTS
  ResultNeedsSubmission
  NeverBeforeLaunch
  OneSubmissionPerDevice
  TapOpensItsQuiz
PROPERTY LaunchTapIsAnswered
