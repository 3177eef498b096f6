SPECIFICATION MCSpec
CONSTANTS
  empty = empty
  default = default
  system = system
  infoSchema = infoSchema
  meta = meta
  shop = shop
  mart = mart
  box = box
  sales = sales
  sales_t = sales_t
  view = view
  dict = dict
  far = far
  id = id
  ts = ts
  note = note
  attr = attr
  user = user
  Float = Float
  mixed = mixed
  dropped = dropped
  alice = alice
  cluster = cluster
  udf = udf
  alias = alias
  layout = layout
  label = label
  serviceName = serviceName
  plan = plan
  email = email
  String = String
  DateTime = DateTime
  Map = Map
  count = count
  SELECT = SELECT
  day = day
  secretText = secretText
  redacted = redacted
  fieldRedacted = fieldRedacted
  Key <- MCKey
  Name <- MCName
  NoName = empty
  Half <- MCHalf
  Hmac <- MCHmac
  Keyword = {SELECT}
  Vocab = {String, DateTime, Map, count, Float}
  SafeLiteral = {day}
  Redacted = redacted
  Semconv = {serviceName}
  DenyKey = {email}
  FieldRedacted = fieldRedacted
  Schema <- MCSchema
  Droppable = {sales_t}
  SourceDbs <- MCSourceDbs
  DestDbs = {box, sales}
  MetaDb = meta
  DefaultDb = default
  SystemDb = system
  OtherSystemDbs = {infoSchema}
  Workload <- MCWorkload
  Clusters = {cluster}
  ScanResults <- MCScanResults
  KeepAttrKeys = {}
  LongName = {sales, sales_t, view, dict, note, attr, user, Float, mixed, shop}
  DdlVocab = {String, Map}
  Value = {1, 2}
  Sources <- MCSources
  Overrides <- MCOverrides
  Leftover <- MCLeftover
  Changing = {sales}
  MaxChanges = 1
CONSTRAINT QueryLogMatters
INVARIANTS TypeOK MapInjective UnmappedOnlyFields NothingRealPublished TextsDecode AttrValuesGated LeakIsRealName GuideDescribesSandbox GuideIsReversible MadeIsRegistered
PROPERTIES ForeignKept RunEnds
CHECK_DEADLOCK FALSE
