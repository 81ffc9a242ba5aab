SPECIFICATION Spec
CONSTANTS
  acc = acc
  mag = mag
  main = main
  term = term
  i2c1 = i2c1
  spi1 = spi1
  Threads = {acc, mag, main, term}
  Buses = {i2c1, spi1}
  I2Cs = {i2c1}
  BusOf <- MCBusOf
  Main = main
  Keepers = {main}
  Terminals = {term}
  TickInLock = TRUE
INVARIANT TickReturns
