----------------------------- MODULE MCFollowing -----------------------------
EXTENDS Following
CONSTANTS tree, left, right, bad, worse, keyless, leaf

key == [type |-> {"int", NoneType}, pk |-> "db", fks |-> <<>>]
appKey == [type |-> {"int"}, pk |-> "app", fks |-> <<>>]
fk(type, c) == [type |-> type, pk |-> "none", fks |-> <<c>>]
class(fs) == [dataclass |-> TRUE, frozen |-> FALSE, fields |-> fs]

MCModel == [c \in Classes |->
    CASE c = tree -> class(<<key, fk({"int", NoneType}, tree)>>)
      [] c = left -> class(<<appKey, fk({"int"}, right)>>)
      [] c = right -> class(<<fk({"int"}, left), key>>)
      [] c = bad -> class(<<key, fk({"int"}, worse)>>)
      [] c = worse -> class(<<key, fk({"str"}, bad)>>)
      [] c = keyless -> class(<<fk({"int"}, tree)>>)
      [] c = leaf -> class(<<key, fk({"int"}, tree), fk({"int"}, keyless)>>)]
=============================================================================
