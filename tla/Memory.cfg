CONSTANTS
  Processes = {p1, p2}
  Ids = {a, b, c}
  Values <- MCValues
  Queries <- MCQueries
  JSON <- MCJSON
  MaxRowid = 3
  None = none
  text = text
  list = list
  tuple = tuple
  object = object
SPECIFICATION Spec
PROPERTIES
  RefinesContract
