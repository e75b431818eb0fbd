SPECIFICATION Spec
CONSTANTS
  SchemeSize = 3
  HostSize = 3
  PortSize = 3
  PathSize = 4
  LineSize = 12
  IntMax = 2147483647
  ClockMax = 7
  ClockRange = 256
  FirstCapacity = 2
  Urls <- MCUrls
  RequestLines <- MCRequestLines
  StatusLines <- MCStatusLines
  HeaderBlocks <- MCHeaderBlocks
  ConfigFiles <- MCConfigFiles
  ConfigKeys <- MCConfigKeys
  ValueSizes = {1, 2, 5}
  Times <- MCTimes
  Offsets <- MCOffsets
  Clock <- MCClock
  Timeouts = {0, 1, 3, 7}
  Directories <- MCDirectories
  Extension <- MCExtension
  Messages <- MCMessages
  Answers <- MCAnswers
  Failures <- MCFailures
INVARIANT UrlExact
INVARIANT RequestLineExact
INVARIANT ResponseHeadExact
INVARIANT ConfigExact
INVARIANT CalendarExact
INVARIANT DeadlineExact
INVARIANT FilesExact
INVARIANT BuffersExact
