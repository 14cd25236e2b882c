SPECIFICATION LedsSpec
CONSTANTS
  gpiochip2 = gpiochip2  gpiochip10 = gpiochip10  o1 = o1  o2 = o2
  Chips = {gpiochip2, gpiochip10}
  Ordinal <- TwoAndTen
  NumLines <- TwoAndOne
  None = None
  Objects = {o1, o2}
  MaxCopies = 2
INVARIANTS TypeOK HeldLinesAreDriven LedsAreSafe
PROPERTY LinesAreKept
SYMMETRY ObjectSymmetry
