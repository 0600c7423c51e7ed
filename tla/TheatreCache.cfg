SPECIFICATION Spec
CONSTANTS
  s1 = s1
  s2 = s2
  paging = paging
  search = search
  w1 = w1
  w2 = w2
  Words = {s1, s2, paging, search, w1, w2}
  Subjects = {s1, s2}
  Changing = {s1}
  Requests = {r1, r2}
  Asked <- MCAsked
  Text <- MCText
  LastPage = 1
  Expire = 2
  Retry = 1
  Nothing = Nothing
  Blank = Blank
  MaxTime = 4
INVARIANTS
  TypeOK
  RestrictionTakesEffect
PROPERTIES
  AnswersLikeTheIndex
SYMMETRY Symmetry
