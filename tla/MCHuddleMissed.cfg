CONSTANTS
  phone = phone
  tablet = tablet
  early = early
  late = late
  NoQuiz = NoQuiz
  Device = {tablet}
  Failing = {tablet}
  Quiz = {early, late}
  LaunchTime <- MCLaunchTime
  Window = 1
  Horizon = 3
  MaxRequests = 1
  MaxLanded <- MCMaxLanded
SPECIFICATION Spec
PROPERTY MissedItIsTrue
