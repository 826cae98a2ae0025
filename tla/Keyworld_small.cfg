SPECIFICATION Spec
CONSTANTS
  a = a
  b = b
  plus = plus
  fx = fx
  one = one
  two = two
  Visitor = {one, two}
  Keyword = {a, b, plus, fx}
  Topic = {a, b, plus, fx}
  NoNode = NoNode
  NoName = NoName
  NameOf <- SmallNames
  Similar <- SmallSimilar
  InGraph = {a, b, plus, fx}
  Answers <- SmallAnswers
  NoAnswer = NoAnswer
  HotLimit = 1
  RowLimit = 6
  MaxNow = 1
  MaxFaults = 1
INVARIANTS
  TypeOK
  ShownComplete
  RelationsSound
  EveryPageCounts
  NetworkTrue
PROPERTIES
  ListFull
SYMMETRY Alike
