SPECIFICATION Spec
CONSTANTS
  o1 = o1
  o2 = o2
  OrderIds <- MCOrders
  Prices = {1, 2}
  Sizes = {1}
  None = None
PROPERTIES BboChangedIsSet
