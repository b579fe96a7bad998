SPECIFICATION DiscoverySpec
CONSTANTS
  Sizes = {1, 2}
  Prices = {1, 2}
  MaxStock = 2
  MaxPropose = 2
  CardLines = 2
  Texts <- Words
  Short = {"whole", "kit"}
  Likeness <- MCLikeness
  Begins <- MCBegins
  Tokens <- MCTokens
  Others = {5, 6}
  NameOf <- MCNameOf
  CategoryOf <- MCCategoryOf
  Featured = {5}
  Together <- MCTogether
  Names = {"saunf", "fennel"}
  Slang <- MCSlang
  Boosts <- MCBoosts
  Generic = {"spices", "whole"}
  Asks <- MCAsks
  TopK = 8
  Threshold = 70
  MaxRow = 2
  MaxTasks = 2
  MaxChanges = 2
CHECK_DEADLOCK FALSE
INVARIANT ShownTrue
INVARIANT FoundByName
PROPERTY TapsHold
