\* ip_add: words of 4 bits, 4 IPv4 addresses, the mapped block inside the low
\* words.  nptv6_translate: three sites with any of ten prefixes, words of
\* 4 bits.  Listing: every block, with every newbits an int of 6 bits holds.
\* Sets: 2 IPv4 and 4 IPv6 addresses, up to 3 subnets.  NAT64 and I-DUNNO:
\* octets of 8 bits, every valid prefix length and one that is not.
CONSTANTS
  Word = 16
  V4 = 4
  Mapped = 4
  Word16 = 16
  Top <- MCTop
  Site = {s1, s2, s3}
  PrefixLengths = {32, 48}
  Iids = {0, 1}
  MappedIid = 1
  IntBits = 6
  Width <- MCWidth
  LimitBits = 3
  SetBits <- MCSetBits
  Private <- MCPrivate
  MaxGiven = 3
  V4Addrs <- MCV4Addrs
  Raws <- MCRaws
  PrefixBits = {32, 40, 48, 56, 64, 72, 96}
  Hosts <- MCHosts
  Tables = {"some letters", "all letters"}
  PValid <- MCPValid
SPECIFICATION Spec
INVARIANTS
  OffsetsAddUp
  FailsExactlyOutside
  SubtractUndoesAdd
  ChecksumNeutral
  RoutesAgree
  ListIsPartition
  ListingDecides
  AllocationsDisjoint
  QueriesConfirm
  ExtractUndoesSynthesize
  CidrFormAgrees
  DecodeUndoesEncode
CHECK_DEADLOCK FALSE
